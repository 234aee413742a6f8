--------------------------- MODULE ShieldCliProofs ---------------------------
(***************************************************************************)
(* Theorems about ShieldCli: what a wallet's files never lose and never    *)
(* claim, for any number of wallets, whatever is killed, times out, expires*)
(* or is inserted by others.                                               *)
(***************************************************************************)
EXTENDS ShieldCli, ShieldedPoolProofs, SequenceTheorems
LOCAL INSTANCE SequencesExt

-----------------------------------------------------------------------------
(* The inductive invariant.                                                *)

\* The nullifier of a leaf, in the bytes that the CLI writes it with.
NullifierAt(history, i) ==
    EncodedAs(NullifierOf(history[i].ownerPk[2], history[i].rho, Slot(i - 1)), 0)

\* A note that a history holds, and one whose nullifier was used as well.
Listed(history, note) == \E i \in DOMAIN history : history[i] = note

Paid(history, used, note) ==
    \E i \in DOMAIN history : history[i] = note /\ NullifierAt(history, i) \in used

\* The randomness that the leaves of a transaction will have.
NewRhos(tx) ==
    IF tx.kind = "shield" THEN {tx.rho}
    ELSE IF tx.kind = "swap" THEN {tx.witness.rhoOut, tx.witness.rhoChange}
    ELSE {}

(***************************************************************************)
(* Randomness is drawn once: no two leaves have the same, and no leaf has  *)
(* what a transaction that waits will bring.                               *)
(***************************************************************************)
DrawnOnce ==
    /\ \A i \in DOMAIN leaves : leaves[i].rho \in drawn
    /\ \A i, j \in DOMAIN leaves : leaves[i].rho = leaves[j].rho => i = j
    /\ \A w \in Wallets : \A tx \in inflight[w] :
         /\ NewRhos(tx) \subseteq drawn
         /\ \A i \in DOMAIN leaves : leaves[i].rho \notin NewRhos(tx)
    /\ \A v, w \in Wallets : \A tx \in inflight[v], ty \in inflight[w] :
         v # w => NewRhos(tx) \cap NewRhos(ty) = {}

\* What a transaction spends is on the chain, and its witness is the sender's.
TxOK(history, w, tx) ==
    /\ tx.kind \in {"shield", "unshield", "swap"}
    /\ tx.kind = "shield" => tx.amount \in Amounts /\ tx.rho \in Rhos
    /\ tx.kind = "unshield" => Listed(history, tx.input) /\ tx.to \in Users
    /\ tx.kind = "swap" =>
         /\ Listed(history, tx.input)
         /\ tx.witness.ownerSk = w /\ tx.witness.rhoIn = tx.input.rho
         /\ tx.witness.rhoOut \in Rhos /\ tx.witness.rhoChange \in Rhos
         /\ tx.witness.rhoOut # tx.witness.rhoChange

StoredNote == [note : Note, leafIndex : Nat, spent : BOOLEAN]

\* A wallet lists notes of the chain and marks the nullified ones only.
NoteOK(history, used, n) ==
    /\ n \in StoredNote
    /\ Listed(history, n.note)
    /\ n.spent => Paid(history, used, n.note)

WriteSet == [op : {"appendLeaf"}, note : Note]
              \cup [op : {"addNote"}, note : Note, index : Nat]
              \cup [op : {"markSpent"}, note : Note]

\* A write that is still to be made will be true when it is.
WriteOK(history, used, write) ==
    /\ write \in WriteSet
    /\ write.op = "addNote" => Listed(history, write.note)
    /\ write.op = "markSpent" => Paid(history, used, write.note)

CmdOK(history, used, c) ==
    /\ c.pc \in {"idle", "thrown", "reindex", "swap", "unshield",
                "quoted", "wait", "record"}
    /\ c.pc = "reindex" => c.next.pc \in {"idle", "swap", "unshield"}
    /\ c.pc = "quoted" => NoteOK(history, used, c.input)
    /\ c.pc = "record" =>
         /\ c = [pc |-> "record", todo |-> c.todo]
         /\ c.todo \in Seq(WriteSet) /\ c.todo # <<>>
         /\ \A k \in DOMAIN c.todo : WriteOK(history, used, c.todo[k])

\* The state of each wallet is a value for each wallet.
FilesType ==
    /\ mirror \in [Wallets -> Seq(Note)]
    /\ notes \in [Wallets -> Seq(StoredNote)]
    /\ cmd = [w \in Wallets |-> cmd[w]]
    /\ inflight = [w \in Wallets |-> inflight[w]]
    /\ events \subseteq 0 .. nextIndex - 1
    /\ drawn \subseteq Rhos

\* What one wallet sends, stores and is about to store.
WalletOK(w) ==
    /\ \A tx \in inflight[w] : TxOK(leaves, w, tx)
    /\ \A k \in DOMAIN notes[w] : NoteOK(leaves, nullifiers, notes[w][k])
    /\ CmdOK(leaves, nullifiers, cmd[w])

CliInv ==
    /\ TypeOK /\ SpendInv
    /\ FilesType
    /\ DrawnOnce
    /\ \A w \in Wallets : WalletOK(w)

-----------------------------------------------------------------------------
(* The mirror.                                                             *)

(***************************************************************************)
(* syncLeaves fills the mirror from the events up to the first gap: it     *)
(* replaces nothing the mirror holds and adds leaves of the chain only.    *)
(***************************************************************************)
LEMMA MergedExtends ==
  ASSUME NEW w \in Wallets, mirror[w] \in Seq(Note), leaves \in Seq(Note),
         NEW seen \in SUBSET (0 .. Len(leaves) - 1)
  PROVE  /\ Merged(w, seen) \in Seq(Note)
         /\ Len(mirror[w]) <= Len(Merged(w, seen))
         /\ \A i \in 1 .. Len(mirror[w]) : Merged(w, seen)[i] = mirror[w][i]
  <1> DEFINE size == Len(mirror[w])
             Known(i) == i < size \/ i \in seen
             IsGap(i) == ~Known(i) /\ \A j \in 0 .. i - 1 : Known(j)
             gap == CHOOSE i \in 0 .. size + Len(leaves) : IsGap(i)
  <1>1. size \in Nat /\ Len(leaves) \in Nat /\ \A i \in 1 .. size : mirror[w][i] \in Note
    OBVIOUS
  <1>2. \E i \in 0 .. size + Len(leaves) : IsGap(i)
    <2> DEFINE unknown == {i \in Nat : ~Known(i)}
    <2>1. size + Len(leaves) \in unknown
      BY <1>1
    <2>2. PICK i \in unknown : \A j \in unknown : i <= j
      <3>1. unknown \in SUBSET Nat /\ unknown # {}
        BY <2>1
      <3> HIDE DEF unknown
      <3> QED
        BY <3>1, LeastNumber
    <2>3. i \in 0 .. size + Len(leaves)
      BY <1>1, <2>1, <2>2
    <2>4. IsGap(i)
      BY <2>2, <2>3
    <2> QED
      BY <2>3, <2>4
  <1>3. gap \in 0 .. size + Len(leaves) /\ IsGap(gap)
    BY <1>2
  <1>4. Merged(w, seen) = [i \in 1 .. gap |-> IF i <= size THEN mirror[w][i] ELSE leaves[i]]
    BY DEF Merged
  <1> HIDE DEF gap
  <1>5. size <= gap /\ gap \in Nat
    BY <1>1, <1>3
  <1>6. \A i \in 1 .. gap : (IF i <= size THEN mirror[w][i] ELSE leaves[i]) \in Note
    <2> SUFFICES ASSUME NEW i \in 1 .. gap, ~(i <= size) PROVE leaves[i] \in Note
      BY <1>1
    <2>1. Known(i - 1)
      BY <1>3, <1>5
    <2>2. i - 1 \in seen
      BY <1>1, <1>5, <2>1
    <2> QED
      BY <1>1, <2>2
  <1>7. Merged(w, seen) \in [1 .. gap -> Note]
    BY <1>4, <1>6
  <1>8. Merged(w, seen) \in Seq(Note) /\ Len(Merged(w, seen)) = gap
    BY <1>5, <1>7, SeqDef
  <1> QED
    BY <1>1, <1>4, <1>5, <1>8

-----------------------------------------------------------------------------
(* What does not move the chain.                                           *)

\* A step of a wallet that leaves the chain alone: its files, its command and
\* its transactions become what the parameters say.
WalletMoves(w, m, ns, c, txs) ==
    /\ UNCHANGED <<poolVars, events>>
    /\ mirror' = [mirror EXCEPT ![w] = m]
    /\ notes' = [notes EXCEPT ![w] = ns]
    /\ cmd' = [cmd EXCEPT ![w] = c]
    /\ inflight' = [inflight EXCEPT ![w] = txs]

(***************************************************************************)
(* Such a step keeps the invariant if the new values are as the invariant  *)
(* says and a transaction that was added brings randomness not drawn yet.  *)
(***************************************************************************)
LEMMA WalletStep ==
  ASSUME CliInv, NEW w \in Wallets, NEW m \in Seq(Note), NEW ns \in Seq(StoredNote),
         NEW c, NEW txs, WalletMoves(w, m, ns, c, txs),
         \A k \in DOMAIN ns : NoteOK(leaves, nullifiers, ns[k]),
         CmdOK(leaves, nullifiers, c),
         drawn \subseteq drawn', drawn' \subseteq Rhos,
         \A tx \in txs \ inflight[w] :
            /\ TxOK(leaves, w, tx)
            /\ NewRhos(tx) \subseteq drawn' \ drawn
  PROVE  CliInv'
  <1>1. /\ UNCHANGED <<poolVars, events>>
        /\ mirror' = [mirror EXCEPT ![w] = m]
        /\ notes' = [notes EXCEPT ![w] = ns]
        /\ cmd' = [cmd EXCEPT ![w] = c]
        /\ inflight' = [inflight EXCEPT ![w] = txs]
    BY DEF WalletMoves
  <1>2. FilesType /\ DrawnOnce /\ \A v \in Wallets : WalletOK(v)
    BY DEF CliInv
  <1>3. /\ leaves' = leaves /\ nullifiers' = nullifiers /\ nextIndex' = nextIndex
        /\ TypeOK' /\ SpendInv'
    BY <1>1, SpendInvUntouched DEF CliInv, poolVars, TypeOK
  <1>4. /\ cmd'[w] = c /\ \A v \in Wallets : v # w => cmd'[v] = cmd[v]
        /\ inflight'[w] = txs /\ \A v \in Wallets : v # w => inflight'[v] = inflight[v]
        /\ notes'[w] = ns /\ \A v \in Wallets : v # w => notes'[v] = notes[v]
    BY <1>1, <1>2 DEF FilesType
  <1>5. FilesType'
    <2>1. /\ mirror' \in [Wallets -> Seq(Note)] /\ notes' \in [Wallets -> Seq(StoredNote)]
          /\ events' \subseteq 0 .. nextIndex' - 1
      BY <1>1, <1>2, <1>3 DEF FilesType
    <2>2. cmd' = [v \in Wallets |-> cmd'[v]] /\ inflight' = [v \in Wallets |-> inflight'[v]]
      BY <1>1, <1>2 DEF FilesType
    <2> QED
      BY <2>1, <2>2 DEF FilesType
  <1>6. DrawnOnce'
    <2>1. \A i \in DOMAIN leaves' : leaves'[i].rho \in drawn'
      BY <1>2, <1>3 DEF DrawnOnce
    <2>2. \A i, j \in DOMAIN leaves' : leaves'[i].rho = leaves'[j].rho => i = j
      BY <1>2, <1>3 DEF DrawnOnce
    <2>3. ASSUME NEW v \in Wallets, NEW tx \in inflight'[v]
          PROVE  /\ NewRhos(tx) \subseteq drawn'
                 /\ \A i \in DOMAIN leaves' : leaves'[i].rho \notin NewRhos(tx)
      <3>1. CASE tx \in inflight[v]
        BY <1>2, <1>3, <3>1 DEF DrawnOnce
      <3>2. CASE tx \notin inflight[v]
        <4>1. NewRhos(tx) \subseteq drawn' \ drawn
          BY <1>4, <2>3, <3>2
        <4> QED
          BY <1>2, <1>3, <4>1 DEF DrawnOnce
      <3> QED
        BY <3>1, <3>2
    <2>4. ASSUME NEW u \in Wallets, NEW v \in Wallets, NEW tx \in inflight'[u],
                 NEW ty \in inflight'[v], u # v
          PROVE  NewRhos(tx) \cap NewRhos(ty) = {}
      <3>1. CASE tx \in inflight[u] /\ ty \in inflight[v]
        BY <1>2, <2>4, <3>1 DEF DrawnOnce
      <3>2. CASE tx \notin inflight[u]
        <4>1. NewRhos(tx) \subseteq drawn' \ drawn /\ u = w
          BY <1>4, <2>4, <3>2
        <4>2. NewRhos(ty) \subseteq drawn
          BY <1>2, <1>4, <2>4, <4>1 DEF DrawnOnce
        <4> QED
          BY <4>1, <4>2
      <3>3. CASE ty \notin inflight[v]
        <4>1. NewRhos(ty) \subseteq drawn' \ drawn /\ v = w
          BY <1>4, <2>4, <3>3
        <4>2. NewRhos(tx) \subseteq drawn
          BY <1>2, <1>4, <2>4, <4>1 DEF DrawnOnce
        <4> QED
          BY <4>1, <4>2
      <3> QED
        BY <3>1, <3>2, <3>3
    <2> QED
      BY <2>1, <2>2, <2>3, <2>4 DEF DrawnOnce
  <1>7. ASSUME NEW v \in Wallets PROVE WalletOK(v)'
    <2>1. /\ \A tx \in inflight[v] : TxOK(leaves, v, tx)
          /\ \A k \in DOMAIN notes[v] : NoteOK(leaves, nullifiers, notes[v][k])
          /\ CmdOK(leaves, nullifiers, cmd[v])
      BY <1>2 DEF WalletOK
    <2>2. /\ \A tx \in inflight'[v] : TxOK(leaves, v, tx)
          /\ \A k \in DOMAIN notes'[v] : NoteOK(leaves, nullifiers, notes'[v][k])
          /\ CmdOK(leaves, nullifiers, cmd'[v])
      <3>1. CASE v = w
        BY <1>4, <2>1, <3>1
      <3>2. CASE v # w
        BY <1>4, <2>1, <3>2
      <3> QED
        BY <3>1, <3>2
    <2> QED
      BY <1>3, <2>2 DEF WalletOK
  <1> QED
    BY <1>3, <1>5, <1>6, <1>7 DEF CliInv

-----------------------------------------------------------------------------
(* The steps of a wallet that leave the chain alone.                       *)

\* The least of some numbers is one of them.
LEMMA MinIsOne ==
  ASSUME NEW I \in SUBSET Nat, I # {}
  PROVE  Min(I) \in I
  <1>1. PICK i \in I : \A j \in I : i <= j
    BY LeastNumber
  <1> QED
    BY <1>1 DEF Min

(***************************************************************************)
(* sync moves the notes of a wallet to other leaf indices and changes      *)
(* nothing else about them.                                                *)
(***************************************************************************)
LEMMA ReindexedKeeps ==
  ASSUME NEW stored \in Seq(StoredNote), NEW commitments \in Seq(Note)
  PROVE  /\ Reindexed(stored, commitments) \in Seq(StoredNote)
         /\ DOMAIN Reindexed(stored, commitments) = DOMAIN stored
         /\ \A k \in DOMAIN stored :
              /\ Reindexed(stored, commitments)[k].note = stored[k].note
              /\ Reindexed(stored, commitments)[k].spent = stored[k].spent
  <1> DEFINE new == Reindexed(stored, commitments)
             Places(k) == {i \in 1 .. Len(commitments) : commitments[i] = stored[k].note}
             Place(k) == IF Places(k) # {} THEN Min(Places(k)) ELSE 0
             After(k) == IF Place(k) = 0 THEN stored[k]
                         ELSE [stored[k] EXCEPT !.leafIndex = Place(k) - 1]
  <1>1. new = [k \in DOMAIN stored |-> After(k)]
    BY DEF Reindexed, SelectInSeq
  <1>2. ASSUME NEW k \in DOMAIN stored
        PROVE  /\ After(k) \in StoredNote
               /\ After(k).note = stored[k].note /\ After(k).spent = stored[k].spent
    <2>1. stored[k] \in StoredNote
      OBVIOUS
    <2>2. Place(k) = 0 \/ Place(k) - 1 \in Nat
      <3>1. Places(k) \in SUBSET Nat /\ Places(k) \subseteq 1 .. Len(commitments)
        OBVIOUS
      <3> HIDE DEF Places
      <3>2. Places(k) # {} => Min(Places(k)) \in Places(k)
        BY <3>1, MinIsOne
      <3> QED
        BY <3>1, <3>2
    <2> HIDE DEF Place
    <2> QED
      BY <2>1, <2>2 DEF StoredNote
  <1> HIDE DEF After
  <1>3. new \in [1 .. Len(stored) -> StoredNote]
    BY <1>1, <1>2
  <1>4. new \in Seq(StoredNote)
    BY <1>3, SeqDef
  <1> QED
    BY <1>1, <1>2, <1>4

\* A wallet that changes its command only keeps the invariant.
LEMMA CommandStep ==
  ASSUME CliInv, NEW w \in Wallets, NEW c, CmdOK(leaves, nullifiers, c),
         cmd' = [cmd EXCEPT ![w] = c],
         UNCHANGED <<poolVars, mirror, notes, inflight, events, drawn>>
  PROVE  CliInv'
  <1>1. FilesType /\ WalletOK(w)
    BY DEF CliInv
  <1>2. /\ mirror[w] \in Seq(Note) /\ notes[w] \in Seq(StoredNote)
        /\ mirror = [mirror EXCEPT ![w] = mirror[w]]
        /\ notes = [notes EXCEPT ![w] = notes[w]]
        /\ inflight = [inflight EXCEPT ![w] = inflight[w]]
    BY <1>1 DEF FilesType
  <1>3. WalletMoves(w, mirror[w], notes[w], c, inflight[w])
    BY <1>2 DEF WalletMoves
  <1>4. \A k \in DOMAIN notes[w] : NoteOK(leaves, nullifiers, notes[w][k])
    BY <1>1 DEF WalletOK
  <1> QED
    BY <1>1, <1>2, <1>3, <1>4, WalletStep DEF FilesType

\* A command with nothing to record is as the invariant says.
LEMMA PlainCommand ==
  ASSUME NEW history, NEW used, NEW c, c.pc \in {"idle", "thrown", "swap", "unshield", "wait"}
  PROVE  CmdOK(history, used, c)
  BY DEF CmdOK

(***************************************************************************)
(* A command that throws, stops waiting or is killed, and a process that is*)
(* interrupted, leave the files as they are.                               *)
(***************************************************************************)
LEMMA StopInv ==
  ASSUME CliInv, NEW w \in Wallets,
         Throw(w) \/ ThrowAtOnce(w) \/ Interrupt(w) \/ StopWaiting(w) \/ Crash(w)
  PROVE  CliInv'
  <1>1. CmdOK(leaves, nullifiers, Idle) /\ CmdOK(leaves, nullifiers, Thrown)
    BY PlainCommand DEF Idle, Thrown
  <1>2. /\ cmd' = [cmd EXCEPT ![w] = Idle] \/ cmd' = [cmd EXCEPT ![w] = Thrown]
        /\ UNCHANGED <<poolVars, mirror, notes, inflight, events, drawn>>
    BY DEF Throw, ThrowAtOnce, Interrupt, StopWaiting, Crash
  <1> QED
    BY <1>1, <1>2, CommandStep

\* Whatever became of it, a transaction that failed or expired is gone.
LEMMA GoneInv ==
  ASSUME CliInv, NEW w \in Wallets, Fail(w) \/ Expire(w)
  PROVE  CliInv'
  <1>1. FilesType /\ WalletOK(w)
    BY DEF CliInv
  <1>2. PICK tx \in inflight[w], txs \in SUBSET inflight[w] :
          /\ inflight' = [inflight EXCEPT ![w] = txs]
          /\ Answer(w, tx, Thrown)
          /\ UNCHANGED <<poolVars, mirror, notes, events, drawn>>
    <2>1. CASE Fail(w)
      BY <2>1 DEF Fail
    <2>2. CASE Expire(w)
      <3>1. PICK tx \in inflight[w] :
              /\ inflight' = [inflight EXCEPT ![w] = @ \ {tx}]
              /\ Answer(w, tx, Thrown)
              /\ UNCHANGED <<poolVars, mirror, notes, events, drawn>>
        BY <2>2 DEF Expire
      <3> QED
        BY <3>1
    <2> QED
      BY <2>1, <2>2
  <1> DEFINE c == IF cmd[w].pc = "wait" /\ cmd[w].tx = tx THEN Thrown ELSE cmd[w]
  <1>3. CmdOK(leaves, nullifiers, c)
    BY <1>1, PlainCommand DEF WalletOK, Thrown
  <1>4. cmd' = [cmd EXCEPT ![w] = c]
    BY <1>2 DEF Answer
  <1> HIDE DEF c
  <1>5. /\ mirror[w] \in Seq(Note) /\ notes[w] \in Seq(StoredNote)
        /\ mirror = [mirror EXCEPT ![w] = mirror[w]]
        /\ notes = [notes EXCEPT ![w] = notes[w]]
    BY <1>1 DEF FilesType
  <1>6. WalletMoves(w, mirror[w], notes[w], c, txs)
    BY <1>2, <1>4, <1>5 DEF WalletMoves
  <1>7. \A k \in DOMAIN notes[w] : NoteOK(leaves, nullifiers, notes[w][k])
    BY <1>1 DEF WalletOK
  <1>8. drawn \subseteq drawn' /\ drawn' \subseteq Rhos
    BY <1>1, <1>2 DEF FilesType
  <1> QED
    BY <1>2, <1>3, <1>5, <1>6, <1>7, <1>8, WalletStep

\* sync keeps the invariant, whatever its scan missed.
LEMMA SyncInv ==
  ASSUME CliInv, NEW w \in Wallets, NEW next,
         next.pc \in {"idle", "swap", "unshield"}, SyncCommand(w, next)
  PROVE  CliInv'
  <1> DEFINE c == [pc |-> "reindex", next |-> next]
  <1>1. FilesType /\ WalletOK(w) /\ TypeOK /\ nextIndex = Len(leaves)
    BY DEF CliInv, SpendInv
  <1>2. PICK m \in {Merged(w, seen) : seen \in Scans} : mirror' = [mirror EXCEPT ![w] = m]
    BY DEF SyncCommand
  <1>3. PICK seen \in Scans : m = Merged(w, seen)
    BY <1>2
  <1>4. seen \in SUBSET (0 .. Len(leaves) - 1)
    BY <1>1 DEF Scans, FilesType
  <1>5. mirror[w] \in Seq(Note) /\ notes[w] \in Seq(StoredNote) /\ leaves \in Seq(Note)
    BY <1>1 DEF FilesType, TypeOK
  <1>6. m \in Seq(Note)
    BY <1>3, <1>4, <1>5, MergedExtends
  <1>7. /\ cmd' = [cmd EXCEPT ![w] = c]
        /\ UNCHANGED <<poolVars, notes, inflight, events, drawn>>
    BY DEF SyncCommand
  <1>8. CmdOK(leaves, nullifiers, c)
    BY DEF CmdOK
  <1> HIDE DEF c
  <1>9. WalletMoves(w, m, notes[w], c, inflight[w])
    BY <1>1, <1>2, <1>7 DEF WalletMoves, FilesType
  <1>10. \A k \in DOMAIN notes[w] : NoteOK(leaves, nullifiers, notes[w][k])
    BY <1>1 DEF WalletOK
  <1>11. drawn \subseteq drawn' /\ drawn' \subseteq Rhos
    BY <1>1, <1>7 DEF FilesType
  <1> QED
    BY <1>5, <1>6, <1>8, <1>9, <1>10, <1>11, WalletStep

\* The second write of sync moves notes and changes nothing else about them.
LEMMA ReindexInv ==
  ASSUME CliInv, NEW w \in Wallets, Reindex(w)
  PROVE  CliInv'
  <1> DEFINE ns == Reindexed(notes[w], mirror[w])
             next == cmd[w].next
  <1>1. FilesType /\ WalletOK(w)
    BY DEF CliInv
  <1>2. mirror[w] \in Seq(Note) /\ notes[w] \in Seq(StoredNote)
    BY <1>1 DEF FilesType
  <1>3. /\ notes' = [notes EXCEPT ![w] = ns]
        /\ cmd' = [cmd EXCEPT ![w] = next]
        /\ UNCHANGED <<poolVars, mirror, inflight, events, drawn>>
    BY DEF Reindex
  <1>4. /\ ns \in Seq(StoredNote)
        /\ DOMAIN ns = DOMAIN notes[w]
        /\ \A k \in DOMAIN notes[w] : /\ ns[k].note = notes[w][k].note
                                      /\ ns[k].spent = notes[w][k].spent
    BY <1>2, ReindexedKeeps
  <1>5. CmdOK(leaves, nullifiers, next)
    <2>1. next.pc \in {"idle", "swap", "unshield"}
      BY <1>1 DEF WalletOK, CmdOK, Reindex
    <2> QED
      BY <2>1, PlainCommand
  <1> HIDE DEF ns, next
  <1>6. \A k \in DOMAIN ns : NoteOK(leaves, nullifiers, ns[k])
    <2> SUFFICES ASSUME NEW k \in DOMAIN ns PROVE NoteOK(leaves, nullifiers, ns[k])
      OBVIOUS
    <2>1. NoteOK(leaves, nullifiers, notes[w][k]) /\ ns[k] \in StoredNote
      BY <1>1, <1>4 DEF WalletOK
    <2> QED
      BY <1>4, <2>1 DEF NoteOK
  <1>7. WalletMoves(w, mirror[w], ns, next, inflight[w])
    BY <1>1, <1>3 DEF WalletMoves, FilesType
  <1>8. drawn \subseteq drawn' /\ drawn' \subseteq Rhos
    BY <1>1, <1>3 DEF FilesType
  <1> QED
    BY <1>2, <1>4, <1>5, <1>6, <1>7, <1>8, WalletStep

\* The note that firstUnspent finds is one that the wallet lists.
LEMMA FirstUnspentListed ==
  ASSUME CliInv, NEW w \in Wallets, FirstUnspent(w) # 0
  PROVE  NoteOK(leaves, nullifiers, notes[w][FirstUnspent(w)])
  <1> DEFINE I == {i \in 1 .. Len(notes[w]) :
                     notes[w][i].note.asset = COLLATERAL /\ ~notes[w][i].spent}
  <1>1. FirstUnspent(w) = IF I # {} THEN Min(I) ELSE 0
    BY DEF FirstUnspent, SelectInSeq
  <1>2. notes[w] \in Seq(StoredNote)
         /\ \A k \in DOMAIN notes[w] : NoteOK(leaves, nullifiers, notes[w][k])
    BY DEF CliInv, FilesType, WalletOK
  <1>3. I \in SUBSET Nat /\ I \subseteq DOMAIN notes[w]
    BY <1>2
  <1> HIDE DEF I
  <1> QED
    BY <1>1, <1>2, <1>3, MinIsOne

\* A quote carries a note of the wallet to the proof.
LEMMA SwapQuoteInv ==
  ASSUME CliInv, NEW w \in Wallets, NEW assetOut, NEW amountIn,
         SwapQuote(w, assetOut, amountIn)
  PROVE  CliInv'
  <1>1. PICK trade : LET c == [pc |-> "quoted", input |-> notes[w][FirstUnspent(w)],
                               assetOut |-> assetOut, trade |-> trade]
                     IN  cmd' = [cmd EXCEPT ![w] = c]
    BY DEF SwapQuote
  <1> DEFINE c == [pc |-> "quoted", input |-> notes[w][FirstUnspent(w)],
                   assetOut |-> assetOut, trade |-> trade]
  <1>2. NoteOK(leaves, nullifiers, c.input)
    BY FirstUnspentListed DEF SwapQuote
  <1>3. CmdOK(leaves, nullifiers, c)
    BY <1>2 DEF CmdOK
  <1>4. UNCHANGED <<poolVars, mirror, notes, inflight, events, drawn>>
    BY DEF SwapQuote
  <1> QED
    BY <1>1, <1>3, <1>4, CommandStep

(***************************************************************************)
(* One file write: what it makes the wallet list is on the chain, and what *)
(* it marks as spent is nullified.                                         *)
(***************************************************************************)
LEMMA RecordInv ==
  ASSUME CliInv, NEW w \in Wallets, Record(w)
  PROVE  CliInv'
  <1> DEFINE todo == cmd[w].todo
             write == Head(todo)
             stored == notes[w]
             m == IF write.op # "appendLeaf" THEN mirror[w]
                  ELSE Append(mirror[w], write.note)
             ns == CASE write.op = "appendLeaf" -> stored
                     [] write.op = "addNote" ->
                          Append(stored, [note |-> write.note,
                                          leafIndex |-> write.index, spent |-> FALSE])
                     [] write.op = "markSpent" ->
                          [k \in DOMAIN stored |->
                              IF stored[k].note = write.note
                                THEN [stored[k] EXCEPT !.spent = TRUE] ELSE stored[k]]
             c == IF Len(todo) = 1 THEN Idle ELSE [pc |-> "record", todo |-> Tail(todo)]
  <1>1. FilesType /\ WalletOK(w)
    BY DEF CliInv
  <1>2. mirror[w] \in Seq(Note) /\ stored \in Seq(StoredNote)
         /\ \A k \in DOMAIN stored : NoteOK(leaves, nullifiers, stored[k])
    BY <1>1 DEF FilesType, WalletOK
  <1>3. /\ cmd[w] = [pc |-> "record", todo |-> todo]
        /\ todo \in Seq(WriteSet) /\ todo # <<>>
        /\ \A k \in DOMAIN todo : WriteOK(leaves, nullifiers, todo[k])
    BY <1>1 DEF Record, WalletOK, CmdOK
  <1>4. WriteOK(leaves, nullifiers, write) /\ write \in WriteSet
    BY <1>3 DEF WriteOK
  <1>5. /\ mirror' = [mirror EXCEPT ![w] = m]
        /\ notes' = [notes EXCEPT ![w] = ns]
        /\ cmd' = [cmd EXCEPT ![w] = c]
        /\ UNCHANGED <<poolVars, inflight, events, drawn>>
    <2>1. mirror' = [mirror EXCEPT ![w] = m]
      BY <1>1 DEF Record, FilesType
    <2>2. notes' = [notes EXCEPT ![w] = ns]
      <3>1. \/ write.op = "appendLeaf" \/ write.op = "addNote" \/ write.op = "markSpent"
        BY <1>4 DEF WriteSet
      <3> QED
        BY <1>1, <3>1 DEF Record, FilesType
    <2>3. cmd' = [cmd EXCEPT ![w] = c]
      BY DEF Record
    <2> HIDE DEF m, ns, c
    <2> QED
      BY <2>1, <2>2, <2>3 DEF Record
  <1>6. CmdOK(leaves, nullifiers, c)
    <2>1. CASE Len(todo) = 1
      BY <2>1, PlainCommand DEF Idle
    <2>2. CASE Len(todo) # 1
      <3> DEFINE rest == Tail(todo)
      <3>1. /\ rest \in Seq(WriteSet) /\ rest # <<>>
            /\ \A k \in DOMAIN rest : rest[k] = todo[k + 1] /\ k + 1 \in DOMAIN todo
        <4> HIDE DEF todo
        <4>1. Len(todo) \in Nat /\ Len(todo) > 1
          <5>1. \A seq \in Seq(WriteSet) : seq # <<>> => Len(seq) \in Nat \ {0}
            BY EmptySeq
          <5>2. Len(todo) \in Nat \ {0}
            BY <1>3, <5>1
          <5>3. \A n \in Nat \ {0} : n # 1 => n \in Nat /\ n > 1
            OBVIOUS
          <5> QED
            BY <2>2, <5>2, <5>3, Zenon
        <4>2. rest \in Seq(WriteSet) /\ Len(rest) = Len(todo) - 1
          BY <1>3
        <4>3. \A k \in 1 .. Len(rest) : rest[k] = todo[k + 1]
          BY <1>3
        <4> QED
          BY <1>3, <4>1, <4>2, <4>3
      <3>2. \A k \in DOMAIN rest : WriteOK(leaves, nullifiers, rest[k])
        BY <1>3, <3>1
      <3>3. c = [pc |-> "record", todo |-> rest]
        BY <1>3, <2>2
      <3> HIDE DEF rest, c
      <3> QED
        BY <3>1, <3>2, <3>3 DEF CmdOK
    <2> QED
      BY <2>1, <2>2
  <1>7. /\ m \in Seq(Note) /\ ns \in Seq(StoredNote)
        /\ \A k \in DOMAIN ns : NoteOK(leaves, nullifiers, ns[k])
    <2> HIDE DEF todo, write
    <2>1. CASE write.op = "appendLeaf"
      <3>1. write.note \in Note
        BY <1>4 DEF WriteSet
      <3>2. ns = stored /\ m = Append(mirror[w], write.note)
        BY <2>1
      <3> QED
        BY <1>2, <3>1, <3>2
    <2>2. CASE write.op = "addNote"
      <3> DEFINE new == [note |-> write.note, leafIndex |-> write.index, spent |-> FALSE]
      <3>1. write.note \in Note /\ write.index \in Nat
        BY <1>4, <2>2 DEF WriteSet
      <3>2. ns = Append(stored, new) /\ m = mirror[w]
        BY <2>2
      <3>3. new \in StoredNote
        BY <3>1 DEF StoredNote
      <3>4. NoteOK(leaves, nullifiers, new)
        BY <1>4, <2>2, <3>3 DEF NoteOK, WriteOK
      <3> HIDE DEF new, ns, m
      <3> QED
        BY <1>2, <3>2, <3>3, <3>4
    <2>3. CASE write.op = "markSpent"
      <3> DEFINE After(k) == IF stored[k].note = write.note
                               THEN [stored[k] EXCEPT !.spent = TRUE] ELSE stored[k]
      <3>1. ns = [k \in DOMAIN stored |-> After(k)] /\ m = mirror[w]
        BY <2>3
      <3>2. ASSUME NEW k \in DOMAIN stored PROVE NoteOK(leaves, nullifiers, After(k))
        <4>1. stored[k] \in StoredNote /\ NoteOK(leaves, nullifiers, stored[k])
          BY <1>2
        <4>2. CASE stored[k].note = write.note
          <5>1. /\ After(k) \in StoredNote
                /\ After(k).note = stored[k].note
            BY <4>1, <4>2 DEF StoredNote
          <5>2. Paid(leaves, nullifiers, stored[k].note)
            BY <1>4, <2>3, <4>2 DEF WriteOK
          <5> HIDE DEF After
          <5> QED
            BY <4>1, <5>1, <5>2 DEF NoteOK
        <4>3. CASE stored[k].note # write.note
          BY <4>1, <4>3
        <4> QED
          BY <4>2, <4>3
      <3> HIDE DEF After, ns, m
      <3>3. \A k \in DOMAIN stored : After(k) \in StoredNote
        BY <3>2 DEF NoteOK
      <3>4. ns \in [1 .. Len(stored) -> StoredNote]
        BY <1>2, <3>1, <3>3
      <3>5. ns \in Seq(StoredNote)
        BY <1>2, <3>4, SeqDef
      <3> QED
        BY <1>2, <3>1, <3>2, <3>5
    <2> QED
      BY <1>4, <2>1, <2>2, <2>3 DEF WriteSet
  <1> HIDE DEF m, ns, c
  <1>8. WalletMoves(w, m, ns, c, inflight[w])
    BY <1>1, <1>5 DEF WalletMoves, FilesType
  <1>9. drawn \subseteq drawn' /\ drawn' \subseteq Rhos
    BY <1>1, <1>5 DEF FilesType
  <1> QED
    BY <1>6, <1>7, <1>8, <1>9, WalletStep

(***************************************************************************)
(* A transaction that is sent spends what the chain holds and brings       *)
(* randomness that was never drawn.                                        *)
(***************************************************************************)
LEMMA SendInv ==
  ASSUME CliInv, NEW w \in Wallets, NEW tx, Send(w, tx), TxOK(leaves, w, tx),
         drawn \subseteq drawn', drawn' \subseteq Rhos,
         NewRhos(tx) \subseteq drawn' \ drawn,
         UNCHANGED <<poolVars, mirror, notes, events>>
  PROVE  CliInv'
  <1> DEFINE c == [pc |-> "wait", tx |-> tx]
             txs == inflight[w] \cup {tx}
  <1>1. FilesType /\ WalletOK(w)
    BY DEF CliInv
  <1>2. /\ mirror[w] \in Seq(Note) /\ notes[w] \in Seq(StoredNote)
        /\ mirror = [mirror EXCEPT ![w] = mirror[w]]
        /\ notes = [notes EXCEPT ![w] = notes[w]]
        /\ \A k \in DOMAIN notes[w] : NoteOK(leaves, nullifiers, notes[w][k])
    BY <1>1 DEF FilesType, WalletOK
  <1>3. inflight' = [inflight EXCEPT ![w] = txs] /\ cmd' = [cmd EXCEPT ![w] = c]
    BY DEF Send
  <1>4. WalletMoves(w, mirror[w], notes[w], c, txs)
    BY <1>2, <1>3 DEF WalletMoves
  <1>5. CmdOK(leaves, nullifiers, c)
    BY PlainCommand
  <1>6. \A ty \in txs \ inflight[w] :
          TxOK(leaves, w, ty) /\ NewRhos(ty) \subseteq drawn' \ drawn
    OBVIOUS
  <1> HIDE DEF txs, c
  <1> QED
    BY <1>2, <1>4, <1>5, <1>6, WalletStep

\* shield draws the randomness of its note.
LEMMA ShieldCommandInv ==
  ASSUME CliInv, NEW w \in Wallets, NEW amount \in Amounts, ShieldCommand(w, amount)
  PROVE  CliInv'
  <1> DEFINE tx == ShieldTx(amount, Fresh)
  <1>1. drawn \subseteq Rhos
    BY DEF CliInv, FilesType
  <1>2. Fresh \in Rhos /\ Fresh \notin drawn
    BY <1>1 DEF ShieldCommand, Fresh
  <1>3. /\ Send(w, tx) /\ drawn' = drawn \cup {Fresh}
        /\ UNCHANGED <<poolVars, mirror, notes, events>>
    BY DEF ShieldCommand
  <1>4. TxOK(leaves, w, tx)
    BY <1>2 DEF TxOK, ShieldTx
  <1>5. NewRhos(tx) = {Fresh}
    BY DEF NewRhos, ShieldTx
  <1> HIDE DEF tx
  <1> QED
    BY <1>1, <1>2, <1>3, <1>4, <1>5, SendInv

\* unshield spends a note that the wallet lists.
LEMMA UnshieldSendInv ==
  ASSUME CliInv, NEW w \in Wallets, NEW to \in Recipients, UnshieldSend(w, to)
  PROVE  CliInv'
  <1> DEFINE n == notes[w][FirstUnspent(w)]
             tx == UnshieldTx(n.note, n.leafIndex, to)
  <1>1. /\ Send(w, tx)
        /\ UNCHANGED <<poolVars, mirror, notes, events, drawn>>
    BY DEF UnshieldSend
  <1>2. Listed(leaves, n.note)
    BY FirstUnspentListed DEF UnshieldSend, NoteOK
  <1>3. TxOK(leaves, w, tx)
    BY <1>2, CliAssumption DEF TxOK, UnshieldTx
  <1>4. NewRhos(tx) = {}
    BY DEF NewRhos, UnshieldTx
  <1>5. drawn \subseteq Rhos
    BY DEF CliInv, FilesType
  <1> HIDE DEF tx
  <1> QED
    BY <1>1, <1>3, <1>4, <1>5, SendInv

\* Two draws of randomness that was not drawn before.
LEMMA TwoFresh ==
  ASSUME drawn \subseteq Rhos, \E rho, another \in Rhos \ drawn : rho # another
  PROVE  Fresh \in Rhos \ drawn /\ FreshToo \in Rhos \ drawn /\ Fresh # FreshToo
  <1>1. PICK rho \in Rhos \ drawn, another \in Rhos \ drawn : rho # another
    OBVIOUS
  <1>2. Fresh \in Rhos /\ Fresh \notin drawn
    BY <1>1 DEF Fresh
  <1>3. \E r \in Rhos : r \notin drawn \cup {Fresh}
    BY <1>1, <1>2
  <1> QED
    BY <1>2, <1>3 DEF FreshToo

\* swap draws the randomness of two notes and spends the note it quoted for.
LEMMA SwapSendInv ==
  ASSUME CliInv, NEW w \in Wallets, SwapSend(w)
  PROVE  CliInv'
  <1> DEFINE n == cmd[w].input
             witness == [ownerSk |-> w, rhoIn |-> n.note.rho, slot |-> n.leafIndex,
                         rhoOut |-> Fresh, rhoChange |-> FreshToo, trade |-> cmd[w].trade]
             tx == SwapTx(n.note, witness, cmd[w].assetOut)
  <1>1. /\ Send(w, tx) /\ drawn' = drawn \cup {Fresh, FreshToo}
        /\ UNCHANGED <<poolVars, mirror, notes, events>>
    BY DEF SwapSend
  <1>2. drawn \subseteq Rhos /\ Listed(leaves, n.note)
    BY DEF CliInv, FilesType, WalletOK, CmdOK, SwapSend, NoteOK
  <1>3. /\ Fresh \in Rhos /\ Fresh \notin drawn
        /\ FreshToo \in Rhos /\ FreshToo \notin drawn /\ FreshToo # Fresh
    BY <1>2, TwoFresh DEF SwapSend
  <1>4. TxOK(leaves, w, tx)
    BY <1>2, <1>3 DEF TxOK, SwapTx
  <1>5. NewRhos(tx) = {Fresh, FreshToo}
    BY DEF NewRhos, SwapTx
  <1> HIDE DEF tx, witness
  <1> QED
    BY <1>1, <1>2, <1>3, <1>4, <1>5, SendInv

-----------------------------------------------------------------------------
(* What moves the chain.                                                   *)

\* The administrator's calls insert nothing and spend nothing.
LEMMA AdminInv ==
  ASSUME CliInv, Admin
  PROVE  CliInv'
  <1>1. TypeOK /\ SpendInv /\ FilesType /\ DrawnOnce /\ \A w \in Wallets : WalletOK(w)
    BY DEF CliInv
  <1>2. UNCHANGED <<mirror, notes, cmd, inflight, events, drawn>>
    BY DEF Admin
  <1>3. TypeOK' /\ SpendInv' /\ leaves' = leaves /\ nullifiers' = nullifiers
    <2>1. CASE Initialize
      BY <1>1, <2>1, InitializeType, InitializeSpendInv DEF Initialize
    <2>2. CASE \E seed \in Seeds : SeedReserves(seed[1], seed[2])
      <3>1. PICK seed \in Seeds : SeedReserves(seed[1], seed[2])
        BY <2>2
      <3>2. seed[1] \in Int /\ seed[2] \in Int
        BY PoolAssumption
      <3>3. UNCHANGED <<initialized, tree, nextIndex, knownRoots, nullifiers, leaves, spends>>
        BY <3>1 DEF SeedReserves
      <3> QED
        BY <1>1, <3>1, <3>2, <3>3, SeedReservesType, SpendInvUntouched
    <2>3. CASE \E isDenied \in BOOLEAN : SetDenied(ZERO32, isDenied)
      <3>1. UNCHANGED <<initialized, tree, nextIndex, knownRoots, nullifiers, leaves, spends>>
        BY <2>3 DEF SetDenied
      <3> QED
        BY <1>1, <2>3, <3>1, CliAssumption, SetDeniedType, SpendInvUntouched
    <2> QED
      BY <2>1, <2>2, <2>3 DEF Admin
  <1>4. nextIndex' = nextIndex
    BY <1>1, <1>3 DEF SpendInv
  <1>5. FilesType'
    BY <1>1, <1>2, <1>4 DEF FilesType
  <1>6. DrawnOnce'
    BY <1>1, <1>2, <1>3 DEF DrawnOnce
  <1>7. ASSUME NEW w \in Wallets PROVE WalletOK(w)'
    BY <1>1, <1>2, <1>3 DEF WalletOK
  <1> QED
    BY <1>3, <1>5, <1>6, <1>7 DEF CliInv

\* A history that holds the other one, with at least its nullifiers.
Grown(old, new, used, more) ==
    /\ \A i \in DOMAIN old : i \in DOMAIN new /\ new[i] = old[i]
    /\ used \subseteq more

\* What was true of a wallet's files and transactions stays true as it grows.
LEMMA GrownKeeps ==
  ASSUME NEW old, NEW new, NEW used, NEW more, Grown(old, new, used, more)
  PROVE  /\ \A note : Listed(old, note) => Listed(new, note)
         /\ \A note : Paid(old, used, note) => Paid(new, more, note)
         /\ \A n : NoteOK(old, used, n) => NoteOK(new, more, n)
         /\ \A c : CmdOK(old, used, c) => CmdOK(new, more, c)
         /\ \A w, tx : TxOK(old, w, tx) => TxOK(new, w, tx)
  <1>1. \A note : Listed(old, note) => Listed(new, note)
    BY DEF Listed, Grown
  <1>2. \A note : Paid(old, used, note) => Paid(new, more, note)
    <2> SUFFICES ASSUME NEW note, Paid(old, used, note) PROVE Paid(new, more, note)
      OBVIOUS
    <2>1. PICK i \in DOMAIN old : old[i] = note /\ NullifierAt(old, i) \in used
      BY DEF Paid
    <2>2. i \in DOMAIN new /\ new[i] = note /\ NullifierAt(new, i) \in more
      BY <2>1 DEF Grown, NullifierAt
    <2> QED
      BY <2>2 DEF Paid
  <1>3. \A n : NoteOK(old, used, n) => NoteOK(new, more, n)
    BY <1>1, <1>2 DEF NoteOK
  <1>4. \A write : WriteOK(old, used, write) => WriteOK(new, more, write)
    BY <1>1, <1>2 DEF WriteOK
  <1>5. \A c : CmdOK(old, used, c) => CmdOK(new, more, c)
    BY <1>3, <1>4 DEF CmdOK
  <1>6. \A w, tx : TxOK(old, w, tx) => TxOK(new, w, tx)
    BY <1>1 DEF TxOK
  <1> QED
    BY <1>1, <1>2, <1>3, <1>5, <1>6

(***************************************************************************)
(* The effect of a transaction: the leaves it adds have its randomness, and*)
(* the writes that its command would make are true of the new chain.       *)
(***************************************************************************)
Effect(old, new, used, more, tx, todo) ==
    /\ Grown(old, new, used, more)
    /\ \A i \in DOMAIN new \ DOMAIN old : new[i].rho \in NewRhos(tx)
    /\ \A i, j \in DOMAIN new \ DOMAIN old : new[i].rho = new[j].rho => i = j
    /\ todo \in Seq(WriteSet) /\ todo # <<>>
    /\ \A k \in DOMAIN todo : WriteOK(new, more, todo[k])

\* shield adds its note, which the wallet then lists.
LEMMA ShieldEffect ==
  ASSUME CliInv, NEW w \in Wallets, NEW tx \in inflight[w], tx.kind = "shield", Call(w, tx)
  PROVE  /\ TypeOK' /\ SpendInv'
         /\ Effect(leaves, leaves', nullifiers, nullifiers', tx, Writes(w, tx))
         /\ nextIndex < nextIndex'
         /\ leaves' = Append(leaves, ShieldCommitment(tx.amount, OwnerPk(w), tx.rho))
         /\ nullifiers' = nullifiers
  <1> DEFINE note == ShieldCommitment(tx.amount, OwnerPk(w), tx.rho)
             next == Len(mirror[w])
             todo == ShieldWrites(note, next)
  <1>1. TypeOK /\ SpendInv /\ FilesType /\ WalletOK(w)
    BY DEF CliInv
  <1>2. Shield(w, tx.amount, OwnerPk(w), tx.rho, ZERO32)
    BY DEF Call
  <1>3. /\ tx.amount \in Int /\ tx.rho \in Rhos /\ w \in Users
        /\ OwnerPk(w) \in OwnerPks /\ ZERO32 \in Refs
    BY <1>1, PoolAssumption, CliAssumption DEF WalletOK, TxOK, OwnerPks
  <1>4. TypeOK' /\ SpendInv'
    BY <1>1, <1>2, <1>3, ShieldType, ShieldSpendInv
  <1>14. /\ leaves' = Append(leaves, ShieldCommitment(tx.amount, OwnerPk(w), tx.rho))
         /\ nullifiers' = nullifiers
    BY <1>2 DEF Shield, InsertOne
  <1>5. /\ note \in Note /\ note.rho = tx.rho
        /\ leaves' = Append(leaves, note) /\ nullifiers' = nullifiers
        /\ nextIndex' = nextIndex + 1
    BY <1>2, <1>3 DEF Shield, InsertOne, ShieldConstraints, ShieldCommitment,
                      NoteCommitment, Note, Asset
  <1> DEFINE last == Len(leaves) + 1
  <1>6. /\ leaves \in Seq(Note) /\ nextIndex \in Nat
        /\ mirror[w] \in Seq(Note)
    BY <1>1 DEF TypeOK, FilesType
  <1>7. Writes(w, tx) = todo
    BY DEF Writes
  <1> HIDE DEF note
  <1>8. /\ DOMAIN leaves' = DOMAIN leaves \cup {last} /\ leaves'[last] = note
        /\ \A i \in DOMAIN leaves : leaves'[i] = leaves[i]
    BY <1>5, <1>6
  <1>9. Listed(leaves', note)
    BY <1>8 DEF Listed
  <1>10. next \in Nat
    BY <1>6
  <1> HIDE DEF next, last
  <1>11. /\ todo \in Seq(WriteSet) /\ todo # <<>>
         /\ \A k \in DOMAIN todo : WriteOK(leaves', nullifiers', todo[k])
    <2> DEFINE a == LeafWrite(note)
               b == NoteWrite(note, next)
    <2>1. /\ WriteOK(leaves', nullifiers', a) /\ WriteOK(leaves', nullifiers', b)
          /\ a \in WriteSet /\ b \in WriteSet
      BY <1>5, <1>9, <1>10 DEF LeafWrite, NoteWrite, WriteSet, WriteOK
    <2>2. todo = <<a, b>>
      BY DEF ShieldWrites
    <2> HIDE DEF todo, a, b
    <2> QED
      BY <2>1, <2>2
  <1>12. NewRhos(tx) = {tx.rho}
    BY DEF NewRhos
  <1>13. Effect(leaves, leaves', nullifiers, nullifiers', tx, todo)
    BY <1>5, <1>8, <1>11, <1>12 DEF Effect, Grown
  <1> QED
    BY <1>4, <1>5, <1>6, <1>7, <1>13, <1>14

(***************************************************************************)
(* A proof that a spend verifies is about the note that the wallet picked: *)
(* no other leaf has its randomness.  So its nullifier is that note's.     *)
(***************************************************************************)
LEMMA SpentIsPaid ==
  ASSUME DrawnOnce, NEW w, NEW input, NEW note, NEW slot, NEW used,
         Listed(leaves, input), Inserted(leaves, note, slot),
         note.rho = input.rho, note.ownerPk = OwnerPk(w),
         EncodedAs(NullifierOf(w, note.rho, slot), 0) \in used
  PROVE  Paid(leaves, used, input)
  <1>1. PICK i \in DOMAIN leaves : leaves[i] = note /\ Slot(i - 1) = slot
    BY DEF Inserted
  <1>2. PICK j \in DOMAIN leaves : leaves[j] = input
    BY DEF Listed
  <1>3. i = j
    BY <1>1, <1>2 DEF DrawnOnce
  <1>4. leaves[i].ownerPk[2] = w
    BY <1>1 DEF OwnerPk
  <1>5. NullifierAt(leaves, i) \in used
    BY <1>1, <1>4 DEF NullifierAt
  <1> QED
    BY <1>2, <1>3, <1>5 DEF Paid

\* The one nullifier that a spend adds is that of the note it spends.
SpendsOne(history, used, more, input) ==
    \E x : more = used \cup {x} /\ Paid(history, {x}, input)

\* unshield nullifies its note and adds no leaf.
LEMMA UnshieldEffect ==
  ASSUME CliInv, NEW w \in Wallets, NEW tx \in inflight[w], tx.kind = "unshield",
         Call(w, tx)
  PROVE  /\ TypeOK' /\ SpendInv'
         /\ Effect(leaves, leaves', nullifiers, nullifiers', tx, Writes(w, tx))
         /\ nextIndex' = nextIndex
         /\ leaves' = leaves /\ SpendsOne(leaves, nullifiers, nullifiers', tx.input)
  <1> DEFINE input == tx.input
             note == NoteCommitment(COLLATERAL, input.amount, OwnerPk(w), input.rho)
             todo == <<SpentWrite(input)>>
  <1>1. TypeOK /\ SpendInv /\ FilesType /\ DrawnOnce /\ WalletOK(w)
    BY DEF CliInv
  <1>2. Unshield(tx.root, tx.slot, w, input.rho, input.amount, tx.to, 0, 0)
    BY DEF Call
  <1>3. Listed(leaves, input) /\ tx.to \in Users
    BY <1>1 DEF WalletOK, TxOK
  <1>4. leaves \in Seq(Note) /\ input \in Note
    BY <1>1, <1>3 DEF TypeOK, Listed
  <1>5. input.amount \in U64 /\ input.rho \in Rhos /\ w \in SpendKeys
    BY <1>4, CliAssumption DEF Note
  <1>6. /\ tx.slot \in Slots /\ tx.root[tx.slot] = note /\ tx.root \in knownRoots
        /\ nullifiers' = nullifiers \cup {EncodedAs(NullifierOf(w, input.rho, tx.slot), 0)}
        /\ leaves' = leaves /\ nextIndex' = nextIndex
    BY <1>2 DEF Unshield, UnshieldConstraints, MerkleInclusion, MarkSpent, UnshieldNullifier
  <1>7. TypeOK' /\ SpendInv'
    BY <1>1, <1>2, <1>3, <1>5, <1>6, PoolAssumption, UnshieldType, UnshieldSpendInv
  <1>8. note.rho = input.rho /\ note.ownerPk = OwnerPk(w) /\ note \in Note
    BY <1>5 DEF NoteCommitment, Note, Asset, OwnerPks
  <1>9. Writes(w, tx) = todo
    BY DEF Writes
  <1> HIDE DEF note, input
  <1>10. Inserted(leaves, note, tx.slot)
    BY <1>1, <1>6, <1>8, EmptyAssumption DEF SpendInv
  <1> DEFINE x == EncodedAs(NullifierOf(w, input.rho, tx.slot), 0)
  <1>14. Paid(leaves, {x}, input)
    BY <1>1, <1>3, <1>8, <1>10, SpentIsPaid
  <1>11. Paid(leaves, nullifiers', input)
    BY <1>6, <1>14 DEF Paid
  <1>15. SpendsOne(leaves, nullifiers, nullifiers', input)
    BY <1>6, <1>14 DEF SpendsOne
  <1> HIDE DEF x
  <1>12. /\ todo \in Seq(WriteSet) /\ todo # <<>>
         /\ \A k \in DOMAIN todo : WriteOK(leaves', nullifiers', todo[k])
    <2> DEFINE a == SpentWrite(input)
    <2>1. WriteOK(leaves', nullifiers', a) /\ a \in WriteSet
      BY <1>4, <1>6, <1>11 DEF SpentWrite, WriteSet, WriteOK
    <2>2. todo = <<a>>
      OBVIOUS
    <2> HIDE DEF todo, a
    <2> QED
      BY <2>1, <2>2
  <1> HIDE DEF todo
  <1>13. Effect(leaves, leaves', nullifiers, nullifiers', tx, todo)
    BY <1>6, <1>12 DEF Effect, Grown
  <1> QED
    BY <1>6, <1>7, <1>9, <1>13, <1>15 DEF input

\* private_swap nullifies its note and adds the two that the wallet then lists.
LEMMA SwapEffect ==
  ASSUME CliInv, NEW w \in Wallets, NEW tx \in inflight[w], tx.kind = "swap", Call(w, tx)
  PROVE  /\ TypeOK' /\ SpendInv'
         /\ Effect(leaves, leaves', nullifiers, nullifiers', tx, Writes(w, tx))
         /\ nextIndex < nextIndex'
         /\ leaves' = leaves \o <<SwapOutCommitment(tx.assetOut + 1, tx.witness),
                                 SwapChangeCommitment(tx.witness)>>
         /\ SpendsOne(leaves, nullifiers, nullifiers', tx.input)
  <1> DEFINE input == tx.input
             witness == tx.witness
             note == NoteCommitment(COLLATERAL, witness.trade.inAmount,
                                    OwnerPk(witness.ownerSk), witness.rhoIn)
             out == SwapOutCommitment(tx.assetOut + 1, witness)
             change == SwapChangeCommitment(witness)
             next == Len(mirror[w])
             todo == SwapWrites(input, out, change, next)
  <1>1. TypeOK /\ SpendInv /\ FilesType /\ DrawnOnce /\ WalletOK(w)
    BY DEF CliInv
  <1>2. PrivateSwap(witness, tx.assetOut, 0, 0)
    BY DEF Call
  <1>3. /\ Listed(leaves, input)
        /\ witness.ownerSk = w /\ witness.rhoIn = input.rho
        /\ witness.rhoOut \in Rhos /\ witness.rhoChange \in Rhos
        /\ witness.rhoOut # witness.rhoChange
    BY <1>1 DEF WalletOK, TxOK
  <1>4. leaves \in Seq(Note) /\ input \in Note /\ nextIndex \in Nat /\ mirror[w] \in Seq(Note)
    BY <1>1, <1>3 DEF TypeOK, Listed, FilesType
  <1>5. /\ tx.assetOut \in Selectors /\ SwapConstraints(tree, tx.assetOut + 1, witness)
        /\ tree \in Tree(Note)
    BY <1>1, <1>2 DEF PrivateSwap, Selectors, ASSET_YES, ASSET_NO, TypeOK
  <1>6. witness.ownerSk \in SpendKeys /\ witness.rhoIn \in Rhos
    BY <1>3, <1>4, CliAssumption DEF Note
  <1>7. TypeOK' /\ SpendInv'
    BY <1>1, <1>2, <1>3, <1>5, <1>6, PoolAssumption, PrivateSwapType, PrivateSwapSpendInv
  <1>8. witness.slot \in Slots /\ note \in Note /\ out \in Note /\ change \in Note
    BY <1>3, <1>5, <1>6, SwapNotes
  <1>9. /\ tree[witness.slot] = note
        /\ nullifiers' = nullifiers
                         \cup {EncodedAs(NullifierOf(w, witness.rhoIn, witness.slot), 0)}
        /\ leaves' = leaves \o <<out, change>> /\ nextIndex' = nextIndex + 2
    BY <1>2, <1>3 DEF PrivateSwap, SwapConstraints, MerkleInclusion, MarkSpent,
                      SwapNullifier, InsertTwo
  <1>10. /\ note.rho = input.rho /\ note.ownerPk = OwnerPk(w)
         /\ out.rho = witness.rhoOut /\ change.rho = witness.rhoChange
    BY <1>3 DEF NoteCommitment, SwapOutCommitment, SwapChangeCommitment
  <1>11. Writes(w, tx) = todo
    BY DEF Writes
  <1>23. leaves' = leaves \o <<SwapOutCommitment(tx.assetOut + 1, tx.witness),
                              SwapChangeCommitment(tx.witness)>>
    BY <1>9
  <1>12. NewRhos(tx) = {witness.rhoOut, witness.rhoChange}
    BY DEF NewRhos
  <1> DEFINE last == Len(leaves)
  <1> HIDE DEF note, out, change
  <1>13. /\ DOMAIN leaves' = DOMAIN leaves \cup {last + 1, last + 2}
         /\ leaves'[last + 1] = out /\ leaves'[last + 2] = change
         /\ \A i \in DOMAIN leaves : leaves'[i] = leaves[i]
    BY <1>4, <1>8, <1>9
  <1>14. Listed(leaves', out) /\ Listed(leaves', change)
    BY <1>13 DEF Listed
  <1>15. Inserted(leaves, note, witness.slot)
    BY <1>1, <1>8, <1>9, EmptyAssumption DEF SpendInv
  <1> DEFINE x == EncodedAs(NullifierOf(w, witness.rhoIn, witness.slot), 0)
  <1>24. Paid(leaves, {x}, input)
    <2>1. EncodedAs(NullifierOf(w, note.rho, witness.slot), 0) \in {x}
      BY <1>3, <1>10
    <2> HIDE DEF input, witness, x
    <2> QED
      BY <1>1, <1>3, <1>10, <1>15, <2>1, SpentIsPaid
  <1>16. Paid(leaves, nullifiers', input)
    BY <1>9, <1>24 DEF Paid
  <1>25. SpendsOne(leaves, nullifiers, nullifiers', input)
    BY <1>9, <1>24 DEF SpendsOne
  <1>26. SpendsOne(leaves, nullifiers, nullifiers', tx.input)
    BY <1>25
  <1> HIDE DEF input, witness, x
  <1>17. Grown(leaves, leaves', nullifiers, nullifiers')
    BY <1>9, <1>13 DEF Grown
  <1>18. Paid(leaves', nullifiers', input)
    <2>1. Grown(leaves, leaves', nullifiers', nullifiers')
      BY <1>17 DEF Grown
    <2> QED
      BY <1>16, <2>1, GrownKeeps
  <1>19. next \in Nat /\ next + 1 \in Nat /\ last \in Nat
    BY <1>4
  <1> HIDE DEF next, last
  <1>20. /\ todo \in Seq(WriteSet) /\ todo # <<>>
         /\ \A k \in DOMAIN todo : WriteOK(leaves', nullifiers', todo[k])
    <2> DEFINE a == SpentWrite(input)
               b == LeafWrite(out)
               c == LeafWrite(change)
               d == NoteWrite(out, next)
               e == NoteWrite(change, next + 1)
               Fine(write) == write \in WriteSet /\ WriteOK(leaves', nullifiers', write)
    <2>1. Fine(a)
      BY <1>4, <1>18 DEF SpentWrite, WriteSet, WriteOK
    <2>2. Fine(b) /\ Fine(c)
      BY <1>8 DEF LeafWrite, WriteSet, WriteOK
    <2>3. Fine(d)
      BY <1>8, <1>14, <1>19 DEF NoteWrite, WriteSet, WriteOK
    <2>4. Fine(e)
      BY <1>8, <1>14, <1>19 DEF NoteWrite, WriteSet, WriteOK
    <2>5. todo = <<a, b, c, d, e>>
      BY DEF SwapWrites
    <2> HIDE DEF todo, a, b, c, d, e
    <2> QED
      BY <2>1, <2>2, <2>3, <2>4, <2>5
  <1> HIDE DEF todo
  <1>21. /\ \A i \in DOMAIN leaves' \ DOMAIN leaves : leaves'[i].rho \in NewRhos(tx)
         /\ \A i, j \in DOMAIN leaves' \ DOMAIN leaves :
              leaves'[i].rho = leaves'[j].rho => i = j
    BY <1>3, <1>10, <1>12, <1>13
  <1>22. Effect(leaves, leaves', nullifiers, nullifiers', tx, todo)
    BY <1>17, <1>20, <1>21 DEF Effect
  <1> QED
    BY <1>4, <1>7, <1>9, <1>11, <1>22, <1>23, <1>26

(***************************************************************************)
(* Others insert leaves with randomness of their own: the wallets' files   *)
(* and transactions are as good as before.                                 *)
(***************************************************************************)
LEMMA OthersGrowChain ==
  ASSUME CliInv, TypeOK', SpendInv', Grown(leaves, leaves', nullifiers, nullifiers'),
         NEW fresh \in SUBSET (Rhos \ drawn), drawn' = drawn \cup fresh,
         \A i \in DOMAIN leaves' \ DOMAIN leaves : leaves'[i].rho \in fresh,
         \A i, j \in DOMAIN leaves' \ DOMAIN leaves : leaves'[i].rho = leaves'[j].rho => i = j,
         events' \subseteq events \cup {nextIndex}, nextIndex < nextIndex',
         UNCHANGED walletVars
  PROVE  CliInv'
  <1>1. FilesType /\ DrawnOnce /\ \A v \in Wallets : WalletOK(v)
    BY DEF CliInv
  <1>2. mirror' = mirror /\ notes' = notes /\ cmd' = cmd /\ inflight' = inflight
    BY DEF walletVars
  <1>3. FilesType'
    <2>1. nextIndex \in Nat /\ nextIndex' \in Nat /\ events \subseteq 0 .. nextIndex - 1
      BY <1>1 DEF CliInv, TypeOK, FilesType
    <2>2. \A e \in events' : e \in 0 .. nextIndex' - 1
      <3> SUFFICES ASSUME NEW e \in events' PROVE e \in 0 .. nextIndex' - 1
        OBVIOUS
      <3>1. e \in 0 .. nextIndex - 1 \/ e = nextIndex
        BY <2>1
      <3>2. \A a, b \in Nat : a < b => \A d : d \in 0 .. a - 1 \/ d = a => d \in 0 .. b - 1
        OBVIOUS
      <3> QED
        BY <2>1, <3>1, <3>2, Zenon
    <2> QED
      BY <1>1, <1>2, <2>2 DEF FilesType
  <1>4. \A i \in DOMAIN leaves : i \in DOMAIN leaves' /\ leaves'[i] = leaves[i]
    BY DEF Grown
  <1>5. DrawnOnce'
    <2>1. \A i \in DOMAIN leaves' : leaves'[i].rho \in drawn'
      BY <1>1, <1>4 DEF DrawnOnce
    <2>2. ASSUME NEW i \in DOMAIN leaves', NEW j \in DOMAIN leaves',
                 leaves'[i].rho = leaves'[j].rho
          PROVE  i = j
      <3>1. CASE i \in DOMAIN leaves /\ j \in DOMAIN leaves
        BY <1>1, <1>4, <2>2, <3>1 DEF DrawnOnce
      <3>2. CASE i \notin DOMAIN leaves /\ j \notin DOMAIN leaves
        BY <2>2, <3>2
      <3>3. CASE i \in DOMAIN leaves /\ j \notin DOMAIN leaves
        BY <1>1, <1>4, <2>2, <3>3 DEF DrawnOnce
      <3>4. CASE i \notin DOMAIN leaves /\ j \in DOMAIN leaves
        BY <1>1, <1>4, <2>2, <3>4 DEF DrawnOnce
      <3> QED
        BY <3>1, <3>2, <3>3, <3>4
    <2>3. ASSUME NEW v \in Wallets, NEW tx \in inflight[v]
          PROVE  /\ NewRhos(tx) \subseteq drawn'
                 /\ \A i \in DOMAIN leaves' : leaves'[i].rho \notin NewRhos(tx)
      <3>1. /\ NewRhos(tx) \subseteq drawn
            /\ \A i \in DOMAIN leaves : leaves[i].rho \notin NewRhos(tx)
        BY <1>1 DEF DrawnOnce
      <3>2. \A i \in DOMAIN leaves' \ DOMAIN leaves : leaves'[i].rho \notin NewRhos(tx)
        BY <3>1
      <3> QED
        BY <1>4, <3>1, <3>2
    <2> QED
      BY <1>1, <1>2, <2>1, <2>2, <2>3 DEF DrawnOnce
  <1>6. ASSUME NEW v \in Wallets PROVE WalletOK(v)'
    <2>1. /\ \A tx \in inflight[v] : TxOK(leaves, v, tx)
          /\ \A k \in DOMAIN notes[v] : NoteOK(leaves, nullifiers, notes[v][k])
          /\ CmdOK(leaves, nullifiers, cmd[v])
      BY <1>1 DEF WalletOK
    <2>2. /\ \A tx \in inflight[v] : TxOK(leaves', v, tx)
          /\ \A k \in DOMAIN notes[v] : NoteOK(leaves', nullifiers', notes[v][k])
          /\ CmdOK(leaves', nullifiers', cmd[v])
      BY <2>1, GrownKeeps
    <2> QED
      BY <1>2, <2>2 DEF WalletOK
  <1> QED
    BY <1>3, <1>5, <1>6 DEF CliInv

\* A shield of another client adds its note.
LEMMA OtherShieldInv ==
  ASSUME CliInv, NEW from \in Users, NEW sk \in SpendKeys, NEW amount \in Amounts,
         drawn # Rhos, OtherShield(from, sk, amount), UNCHANGED walletVars
  PROVE  CliInv'
  <1> DEFINE note == ShieldCommitment(amount, OwnerPk(sk), Fresh)
             last == Len(leaves) + 1
  <1>1. TypeOK /\ SpendInv /\ FilesType
    BY DEF CliInv
  <1>2. Fresh \in Rhos \ drawn
    BY <1>1 DEF Fresh, FilesType
  <1>3. Shield(from, amount, OwnerPk(sk), Fresh, ZERO32)
    BY DEF OtherShield
  <1>4. amount \in Int /\ OwnerPk(sk) \in OwnerPks /\ ZERO32 \in Refs
    BY PoolAssumption, CliAssumption DEF OwnerPks
  <1>5. TypeOK' /\ SpendInv'
    BY <1>1, <1>2, <1>3, <1>4, ShieldType, ShieldSpendInv
  <1>6. /\ leaves' = Append(leaves, note) /\ note.rho = Fresh
        /\ nullifiers' = nullifiers /\ nextIndex' = nextIndex + 1
    BY <1>3 DEF Shield, InsertOne, ShieldCommitment, NoteCommitment
  <1> HIDE DEF note
  <1>7. leaves \in Seq(Note) /\ nextIndex \in Nat
    BY <1>1 DEF TypeOK
  <1>8. /\ DOMAIN leaves' = DOMAIN leaves \cup {last} /\ leaves'[last] = note
        /\ \A i \in DOMAIN leaves : leaves'[i] = leaves[i]
    BY <1>6, <1>7
  <1> HIDE DEF last
  <1>9. Grown(leaves, leaves', nullifiers, nullifiers')
    BY <1>6, <1>8 DEF Grown
  <1> DEFINE fresh == {Fresh}
  <1>10. /\ fresh \in SUBSET (Rhos \ drawn)
         /\ \A i \in DOMAIN leaves' \ DOMAIN leaves : leaves'[i].rho \in fresh
         /\ \A i, j \in DOMAIN leaves' \ DOMAIN leaves : leaves'[i].rho = leaves'[j].rho => i = j
    BY <1>2, <1>6, <1>8
  <1>11. /\ drawn' = drawn \cup fresh
         /\ events' \subseteq events \cup {nextIndex} /\ nextIndex < nextIndex'
    BY <1>6, <1>7 DEF OtherShield
  <1> HIDE DEF fresh
  <1> QED
    BY <1>5, <1>9, <1>10, <1>11, OthersGrowChain

\* A swap of another client spends its note and adds two.
LEMMA OtherSwapInv ==
  ASSUME CliInv, NEW sk \in SpendKeys, NEW slot \in Slots, NEW amountIn,
         NEW assetOut \in {ASSET_YES, ASSET_NO},
         \E rho, another \in Rhos \ drawn : rho # another,
         OtherSwap(sk, slot, assetOut, amountIn), UNCHANGED walletVars
  PROVE  CliInv'
  <1>1. TypeOK /\ SpendInv /\ FilesType
    BY DEF CliInv
  <1>2. PICK w : /\ PrivateSwap(w, assetOut, 0, 0)
                 /\ w.ownerSk = sk /\ w.rhoIn = tree[slot].rho
                 /\ w.rhoOut = Fresh /\ w.rhoChange = FreshToo
    <2> DEFINE quote == <<reserves[InLeg(assetOut)], reserves[OutLeg(assetOut)]>>
               w == [ownerSk |-> sk, rhoIn |-> tree[slot].rho, slot |-> slot,
                     rhoOut |-> Fresh, rhoChange |-> FreshToo,
                     trade |-> Trade(tree[slot].amount, amountIn,
                                     QuotedOut(amountIn, quote[1], quote[2]), quote)]
    <2>1. PrivateSwap(w, assetOut, 0, 0)
      BY DEF OtherSwap
    <2>2. /\ w.ownerSk = sk /\ w.rhoIn = tree[slot].rho
          /\ w.rhoOut = Fresh /\ w.rhoChange = FreshToo
      OBVIOUS
    <2> HIDE DEF w
    <2> QED
      BY <2>1, <2>2
  <1>3. FreshToo \in Rhos \ drawn /\ Fresh \in Rhos \ drawn /\ Fresh # FreshToo
    BY <1>1, TwoFresh DEF FilesType
  <1>4. w.rhoIn \in Rhos
    <2>1. tree[slot] \in Note
      BY <1>1 DEF OtherSwap, TypeOK, Tree
    <2> QED
      BY <1>2, <2>1 DEF Note
  <1>5. assetOut \in Selectors /\ SwapConstraints(tree, assetOut + 1, w) /\ tree \in Tree(Note)
    BY <1>1, <1>2 DEF PrivateSwap, Selectors, ASSET_YES, ASSET_NO, TypeOK
  <1>6. TypeOK' /\ SpendInv'
    BY <1>1, <1>2, <1>3, <1>4, <1>5, PoolAssumption, PrivateSwapType, PrivateSwapSpendInv
  <1> DEFINE out == SwapOutCommitment(assetOut + 1, w)
             change == SwapChangeCommitment(w)
             last == Len(leaves)
  <1>7. /\ leaves' = leaves \o <<out, change>> /\ nextIndex' = nextIndex + 2
        /\ out.rho = Fresh /\ change.rho = FreshToo
        /\ nullifiers \subseteq nullifiers'
    BY <1>2 DEF PrivateSwap, InsertTwo, MarkSpent, SwapOutCommitment,
                SwapChangeCommitment, NoteCommitment
  <1>8. leaves \in Seq(Note) /\ nextIndex \in Nat /\ out \in Note /\ change \in Note
    BY <1>1, <1>2, <1>3, <1>4, <1>5, SwapNotes DEF TypeOK
  <1> HIDE DEF out, change
  <1>9. /\ DOMAIN leaves' = DOMAIN leaves \cup {last + 1, last + 2}
        /\ leaves'[last + 1] = out /\ leaves'[last + 2] = change
        /\ \A i \in DOMAIN leaves : leaves'[i] = leaves[i]
    BY <1>7, <1>8
  <1> HIDE DEF last
  <1>10. Grown(leaves, leaves', nullifiers, nullifiers')
    BY <1>7, <1>9 DEF Grown
  <1> DEFINE fresh == {Fresh, FreshToo}
  <1>11. /\ fresh \in SUBSET (Rhos \ drawn)
         /\ \A i \in DOMAIN leaves' \ DOMAIN leaves : leaves'[i].rho \in fresh
         /\ \A i, j \in DOMAIN leaves' \ DOMAIN leaves : leaves'[i].rho = leaves'[j].rho => i = j
    BY <1>3, <1>7, <1>9
  <1>12. /\ drawn' = drawn \cup fresh
         /\ events' \subseteq events \cup {nextIndex} /\ nextIndex < nextIndex'
    BY <1>7, <1>8 DEF OtherSwap
  <1> HIDE DEF fresh
  <1> QED
    BY <1>6, <1>10, <1>11, <1>12, OthersGrowChain

\* Whatever other clients do.
LEMMA OtherInv ==
  ASSUME CliInv, Other
  PROVE  CliInv'
  <1>1. UNCHANGED walletVars
    BY DEF Other
  <1>2. PICK sk \in SpendKeys :
          \/ /\ drawn # Rhos
             /\ \E from \in Users \ Wallets, amount \in Amounts : OtherShield(from, sk, amount)
          \/ /\ \E rho, another \in Rhos \ drawn : rho # another
             /\ \E slot \in Slots, assetOut \in {ASSET_YES, ASSET_NO},
                   amountIn \in SwapAmounts :
                  OtherSwap(sk, slot, assetOut, amountIn)
    BY DEF Other
  <1> QED
    BY <1>1, <1>2, OtherShieldInv, OtherSwapInv

(***************************************************************************)
(* The ledger executes a transaction: the wallets' files say as much about *)
(* the chain as before, and the command that waits may record it.          *)
(***************************************************************************)
LEMMA ExecuteInv ==
  ASSUME CliInv, NEW w \in Wallets, Execute(w)
  PROVE  CliInv'
  <1>1. TypeOK /\ SpendInv /\ FilesType /\ DrawnOnce /\ \A v \in Wallets : WalletOK(v)
    BY DEF CliInv
  <1>2. PICK tx \in inflight[w] :
          /\ Call(w, tx)
          /\ inflight' = [inflight EXCEPT ![w] = {}]
          /\ events' = IF tx.kind = "shield" THEN events \cup {nextIndex} ELSE events
          /\ Answer(w, tx, [pc |-> "record", todo |-> Writes(w, tx)])
    BY DEF Execute
  <1>3. UNCHANGED <<mirror, notes, drawn>>
    BY DEF Execute
  <1>4. /\ TypeOK' /\ SpendInv'
        /\ Effect(leaves, leaves', nullifiers, nullifiers', tx, Writes(w, tx))
        /\ nextIndex <= nextIndex' /\ (tx.kind = "shield" => nextIndex < nextIndex')
    <2>1. nextIndex \in Nat
      BY <1>1 DEF TypeOK
    <2>2. tx.kind \in {"shield", "unshield", "swap"}
      BY <1>1 DEF WalletOK, TxOK
    <2>3. CASE tx.kind = "shield"
      <3>1. /\ TypeOK' /\ SpendInv' /\ nextIndex < nextIndex'
            /\ Effect(leaves, leaves', nullifiers, nullifiers', tx, Writes(w, tx))
        BY <1>2, <2>3, ShieldEffect
      <3> QED
        BY <2>1, <3>1 DEF TypeOK
    <2>4. CASE tx.kind = "unshield"
      BY <1>2, <2>1, <2>4, UnshieldEffect
    <2>5. CASE tx.kind = "swap"
      <3>1. /\ TypeOK' /\ SpendInv' /\ nextIndex < nextIndex'
            /\ Effect(leaves, leaves', nullifiers, nullifiers', tx, Writes(w, tx))
        BY <1>2, <2>5, SwapEffect
      <3> QED
        BY <2>1, <2>5, <3>1 DEF TypeOK
    <2> QED
      BY <2>2, <2>3, <2>4, <2>5
  <1> DEFINE todo == Writes(w, tx)
             c == IF cmd[w].pc = "wait" /\ cmd[w].tx = tx
                    THEN [pc |-> "record", todo |-> todo] ELSE cmd[w]
  <1>5. /\ cmd' = [cmd EXCEPT ![w] = c]
        /\ cmd'[w] = c /\ \A v \in Wallets : v # w => cmd'[v] = cmd[v]
    BY <1>1, <1>2 DEF Answer, FilesType
  <1>6. inflight'[w] = {} /\ \A v \in Wallets : v # w => inflight'[v] = inflight[v]
    BY <1>1, <1>2 DEF FilesType
  <1>7. FilesType'
    <2>1. mirror' \in [Wallets -> Seq(Note)] /\ notes' \in [Wallets -> Seq(StoredNote)]
          /\ drawn' \subseteq Rhos
      BY <1>1, <1>3 DEF FilesType
    <2>2. cmd' = [v \in Wallets |-> cmd'[v]] /\ inflight' = [v \in Wallets |-> inflight'[v]]
      BY <1>1, <1>2, <1>5 DEF FilesType
    <2>3. events' \subseteq 0 .. nextIndex' - 1
      <3>1. nextIndex \in Nat /\ nextIndex' \in Nat /\ events \subseteq 0 .. nextIndex - 1
        BY <1>1, <1>4 DEF TypeOK, FilesType
      <3>2. events \subseteq 0 .. nextIndex' - 1
        <4> SUFFICES ASSUME NEW e \in events PROVE e \in 0 .. nextIndex' - 1
          OBVIOUS
        <4>1. e \in 0 .. nextIndex - 1
          BY <3>1
        <4>2. nextIndex <= nextIndex'
          BY <1>4
        <4>3. \A a, b \in Nat : a <= b => 0 .. a - 1 \subseteq 0 .. b - 1
          OBVIOUS
        <4> QED
          BY <3>1, <4>1, <4>2, <4>3, Zenon
      <3>3. tx.kind = "shield" => nextIndex \in 0 .. nextIndex' - 1
        BY <1>4, <3>1
      <3> QED
        BY <1>2, <3>2, <3>3
    <2> QED
      BY <2>1, <2>2, <2>3 DEF FilesType
  <1>8. DrawnOnce'
    <2>1. /\ \A i \in DOMAIN leaves : i \in DOMAIN leaves' /\ leaves'[i] = leaves[i]
          /\ \A i \in DOMAIN leaves' \ DOMAIN leaves : leaves'[i].rho \in NewRhos(tx)
          /\ \A i, j \in DOMAIN leaves' \ DOMAIN leaves :
               leaves'[i].rho = leaves'[j].rho => i = j
      BY <1>4 DEF Effect, Grown
    <2>2. /\ NewRhos(tx) \subseteq drawn
          /\ \A i \in DOMAIN leaves : leaves[i].rho \notin NewRhos(tx)
      BY <1>1 DEF DrawnOnce
    <2>3. \A i \in DOMAIN leaves' : leaves'[i].rho \in drawn'
      BY <1>1, <1>3, <2>1, <2>2 DEF DrawnOnce
    <2>4. ASSUME NEW i \in DOMAIN leaves', NEW j \in DOMAIN leaves',
                 leaves'[i].rho = leaves'[j].rho
          PROVE  i = j
      <3>1. CASE i \in DOMAIN leaves /\ j \in DOMAIN leaves
        BY <1>1, <2>1, <2>4, <3>1 DEF DrawnOnce
      <3>2. CASE i \notin DOMAIN leaves /\ j \notin DOMAIN leaves
        BY <2>1, <2>4, <3>2
      <3>3. CASE i \in DOMAIN leaves /\ j \notin DOMAIN leaves
        BY <2>1, <2>2, <2>4, <3>3
      <3>4. CASE i \notin DOMAIN leaves /\ j \in DOMAIN leaves
        BY <2>1, <2>2, <2>4, <3>4
      <3> QED
        BY <3>1, <3>2, <3>3, <3>4
    <2>5. ASSUME NEW v \in Wallets, NEW ty \in inflight'[v]
          PROVE  /\ NewRhos(ty) \subseteq drawn'
                 /\ \A i \in DOMAIN leaves' : leaves'[i].rho \notin NewRhos(ty)
      <3>1. v # w /\ ty \in inflight[v]
        BY <1>6, <2>5
      <3>2. NewRhos(ty) \cap NewRhos(tx) = {}
        BY <1>1, <3>1 DEF DrawnOnce
      <3>3. /\ NewRhos(ty) \subseteq drawn
            /\ \A i \in DOMAIN leaves : leaves[i].rho \notin NewRhos(ty)
        BY <1>1, <3>1 DEF DrawnOnce
      <3> QED
        BY <1>3, <2>1, <3>2, <3>3
    <2>6. ASSUME NEW u \in Wallets, NEW v \in Wallets, NEW ty \in inflight'[u],
                 NEW tz \in inflight'[v], u # v
          PROVE  NewRhos(ty) \cap NewRhos(tz) = {}
      <3>1. ty \in inflight[u] /\ tz \in inflight[v]
        BY <1>6, <2>6
      <3> QED
        BY <1>1, <2>6, <3>1 DEF DrawnOnce
    <2> QED
      BY <2>3, <2>4, <2>5, <2>6 DEF DrawnOnce
  <1>9. ASSUME NEW v \in Wallets PROVE WalletOK(v)'
    <2>1. /\ \A ty \in inflight[v] : TxOK(leaves, v, ty)
          /\ \A k \in DOMAIN notes[v] : NoteOK(leaves, nullifiers, notes[v][k])
          /\ CmdOK(leaves, nullifiers, cmd[v])
      BY <1>1 DEF WalletOK
    <2>2. Grown(leaves, leaves', nullifiers, nullifiers')
      BY <1>4 DEF Effect
    <2>3. /\ \A ty \in inflight[v] : TxOK(leaves', v, ty)
          /\ \A k \in DOMAIN notes[v] : NoteOK(leaves', nullifiers', notes[v][k])
          /\ CmdOK(leaves', nullifiers', cmd[v])
      BY <2>1, <2>2, GrownKeeps
    <2>4. \A ty \in inflight'[v] : TxOK(leaves', v, ty)
      BY <1>6, <2>3
    <2>5. CmdOK(leaves', nullifiers', cmd'[v])
      <3>1. CASE v = w
        <4>1. CmdOK(leaves', nullifiers', [pc |-> "record", todo |-> todo])
          <5>1. /\ todo \in Seq(WriteSet) /\ todo # <<>>
                /\ \A k \in DOMAIN todo : WriteOK(leaves', nullifiers', todo[k])
            BY <1>4 DEF Effect
          <5> HIDE DEF todo
          <5> QED
            BY <5>1 DEF CmdOK
        <4> HIDE DEF todo
        <4> QED
          BY <1>5, <2>3, <3>1, <4>1
      <3>2. CASE v # w
        BY <1>5, <2>3, <3>2
      <3> QED
        BY <3>1, <3>2
    <2> QED
      BY <1>3, <2>3, <2>4, <2>5 DEF WalletOK
  <1> QED
    BY <1>4, <1>7, <1>8, <1>9 DEF CliInv

-----------------------------------------------------------------------------
(* The theorems.                                                           *)

\* Every step keeps the invariant.
LEMMA CliInvStep == CliInv /\ [CliNext]_cliVars => CliInv'
  <1> SUFFICES ASSUME CliInv, [CliNext]_cliVars PROVE CliInv'
    OBVIOUS
  <1>1. CASE Admin
    BY <1>1, AdminInv
  <1>2. ASSUME NEW w \in Wallets, NEW amount \in Amounts, ShieldCommand(w, amount)
        PROVE  CliInv'
    BY <1>2, ShieldCommandInv
  <1>3. ASSUME NEW w \in Wallets, NEW next \in {Idle, [pc |-> "swap"], [pc |-> "unshield"]},
               SyncCommand(w, next)
        PROVE  CliInv'
    <2>1. next.pc \in {"idle", "swap", "unshield"}
      BY DEF Idle
    <2> QED
      BY <1>3, <2>1, SyncInv
  <1>4. ASSUME NEW w \in Wallets, Client(w) PROVE CliInv'
    BY <1>4, ReindexInv, SwapQuoteInv, SwapSendInv, UnshieldSendInv, StopInv, RecordInv
       DEF Client
  <1>5. ASSUME NEW w \in Wallets,
               ThrowAtOnce(w) \/ Interrupt(w) \/ StopWaiting(w) \/ Crash(w)
        PROVE  CliInv'
    BY <1>5, StopInv
  <1>6. ASSUME NEW w \in Wallets, Ledger(w) PROVE CliInv'
    BY <1>6, ExecuteInv, GoneInv DEF Ledger
  <1>7. CASE UNCHANGED cliVars
    <2>1. UNCHANGED <<poolVars, mirror, notes, cmd, inflight, events, drawn>>
      BY <1>7 DEF cliVars
    <2>2. TypeOK' /\ SpendInv'
      BY <2>1, SpendInvUntouched DEF CliInv, poolVars, TypeOK
    <2>3. leaves' = leaves /\ nullifiers' = nullifiers /\ nextIndex' = nextIndex
      BY <2>1 DEF poolVars
    <2>4. FilesType' /\ DrawnOnce'
      BY <2>1, <2>3 DEF CliInv, FilesType, DrawnOnce
    <2>5. ASSUME NEW w \in Wallets PROVE WalletOK(w)'
      BY <2>1, <2>3 DEF CliInv, WalletOK
    <2> QED
      BY <2>2, <2>4, <2>5 DEF CliInv
  <1>8. CASE Other
    BY <1>8, OtherInv
  <1> QED
    BY <1>1, <1>2, <1>3, <1>4, <1>5, <1>6, <1>7, <1>8 DEF CliNext

\* Before the first command every file is empty.
LEMMA CliInvInit == CliInit => CliInv
  <1> SUFFICES ASSUME CliInit PROVE CliInv
    OBVIOUS
  <1>1. Init
    BY DEF CliInit
  <1>2. TypeOK
    BY <1>1, InitType
  <1>3. SpendInv
    BY <1>1, InitSpendInv
  <1>4. leaves = <<>> /\ nextIndex = 0
    BY <1>1 DEF Init
  <1>5. FilesType
    BY <1>4 DEF CliInit, FilesType
  <1>6. DrawnOnce
    BY <1>4 DEF CliInit, DrawnOnce
  <1>7. ASSUME NEW w \in Wallets PROVE WalletOK(w)
    <2>1. CmdOK(leaves, nullifiers, Idle)
      BY PlainCommand DEF Idle
    <2> QED
      BY <2>1 DEF CliInit, WalletOK
  <1> QED
    BY <1>2, <1>3, <1>5, <1>6, <1>7 DEF CliInv

\* The invariant of the wallets holds whatever happens.
LEMMA CliInvAlways == CliSpec => []CliInv
  BY CliInvInit, CliInvStep, PTL DEF CliSpec

(***************************************************************************)
(* The files and the transactions of every wallet have their types.        *)
(***************************************************************************)
THEOREM CliTypesCorrect == CliSpec => []CliTypeOK
  <1>1. CliInv => CliTypeOK
    <2> SUFFICES ASSUME CliInv PROVE CliTypeOK
      OBVIOUS
    <2>1. TypeOK /\ FilesType /\ \A w \in Wallets : WalletOK(w)
      BY DEF CliInv
    <2>2. ASSUME NEW w \in Wallets
          PROVE  /\ cmd[w].pc \in {"idle", "thrown", "reindex", "swap", "unshield",
                                "quoted", "wait", "record"}
                 /\ \A tx \in inflight[w] : tx.kind \in {"shield", "unshield", "swap"}
      BY <2>1 DEF WalletOK, CmdOK, TxOK
    <2> QED
      BY <2>1, <2>2 DEF CliTypeOK, FilesType, StoredNote
  <1> QED
    BY <1>1, CliInvAlways, PTL

\* A note is found where the chain holds it.
LEMMA OnChainIs ==
  ASSUME DrawnOnce, leaves \in Seq(Note), NEW i \in DOMAIN leaves
  PROVE  /\ OnChain(leaves[i]) = i /\ i # 0
         /\ Nullified(leaves[i]) <=> Paid(leaves, nullifiers, leaves[i])
  <1> DEFINE I == {j \in 1 .. Len(leaves) : leaves[j] = leaves[i]}
  <1>1. OnChain(leaves[i]) = IF I # {} THEN Min(I) ELSE 0
    BY DEF OnChain, SelectInSeq
  <1>2. I = {i} /\ i \in Nat \ {0}
    BY DEF DrawnOnce
  <1>3. Min(I) \in I
    BY <1>2, MinIsOne
  <1>4. OnChain(leaves[i]) = i
    BY <1>1, <1>2, <1>3
  <1>5. \A j \in DOMAIN leaves : leaves[j] = leaves[i] => j = i
    BY DEF DrawnOnce
  <1>6. Paid(leaves, nullifiers, leaves[i]) <=> NullifierAt(leaves, i) \in nullifiers
    BY <1>5 DEF Paid
  <1> QED
    BY <1>2, <1>4, <1>6 DEF Nullified, LeafNullifier, NullifierAt

(***************************************************************************)
(* Whatever is killed, timed out, expired or inserted by others, a wallet  *)
(* lists only notes that the chain holds, and marks a note as spent only   *)
(* when that note's nullifier is on the chain.                             *)
(***************************************************************************)
THEOREM SpentIsNullified == CliSpec => []SpentNotesAreNullified
  <1>1. CliInv => SpentNotesAreNullified
    <2> SUFFICES ASSUME CliInv, NEW w \in Wallets, NEW k \in DOMAIN notes[w]
                 PROVE  /\ OnChain(notes[w][k].note) # 0
                        /\ notes[w][k].spent => Nullified(notes[w][k].note)
      BY DEF SpentNotesAreNullified
    <2>1. NoteOK(leaves, nullifiers, notes[w][k]) /\ DrawnOnce /\ leaves \in Seq(Note)
      BY DEF CliInv, WalletOK, TypeOK
    <2>2. PICK i \in DOMAIN leaves : leaves[i] = notes[w][k].note
      BY <2>1 DEF NoteOK, Listed
    <2> QED
      BY <2>1, <2>2, OnChainIs DEF NoteOK
  <1> QED
    BY <1>1, CliInvAlways, PTL

\* A sequence that keeps another one's elements has it as a prefix.
LEMMA PrefixIf ==
  ASSUME NEW old \in Seq(Note), NEW new \in Seq(Note), Len(old) <= Len(new),
         \A i \in 1 .. Len(old) : new[i] = old[i]
  PROVE  IsPrefix(old, new)
  <1>1. Len(old) \in Nat /\ Len(new) \in Nat
    OBVIOUS
  <1>2. SubSeq(old, 1, Len(old)) = [i \in 1 .. Len(old) |-> old[i]]
    BY <1>1
  <1>3. SubSeq(new, 1, Len(old)) = [i \in 1 .. Len(old) |-> new[i]]
    BY <1>1
  <1>4. [i \in 1 .. Len(old) |-> old[i]] = [i \in 1 .. Len(old) |-> new[i]]
    OBVIOUS
  <1> QED
    BY <1>2, <1>3, <1>4 DEF IsPrefix

(***************************************************************************)
(* sync never truncates or drops a locally-known leaf, nor does any other  *)
(* step: a mirror only grows.                                              *)
(***************************************************************************)
THEOREM MirrorsOnlyGrow == CliSpec => MirrorOnlyGrows
  <1> DEFINE Kept == \A w \in Wallets : IsPrefix(mirror[w], mirror'[w])
  <1>1. CliInv /\ [CliNext]_cliVars => [Kept]_cliVars
    <2> SUFFICES ASSUME CliInv, CliNext, NEW v \in Wallets
                 PROVE  IsPrefix(mirror[v], mirror'[v])
      OBVIOUS
    <2>1. FilesType /\ TypeOK /\ nextIndex = Len(leaves) /\ \A w \in Wallets : WalletOK(w)
      BY DEF CliInv, SpendInv
    <2>2. mirror[v] \in Seq(Note) /\ leaves \in Seq(Note)
      BY <2>1 DEF FilesType, TypeOK
    <2>3. IsPrefix(mirror[v], mirror[v])
      BY <2>2, PrefixIf
    <2>4. ASSUME NEW w \in Wallets, NEW next, SyncCommand(w, next)
          PROVE  IsPrefix(mirror[v], mirror'[v])
      <3>1. PICK seen \in Scans : mirror' = [mirror EXCEPT ![w] = Merged(w, seen)]
        BY <2>4 DEF SyncCommand
      <3>2. seen \in SUBSET (0 .. Len(leaves) - 1)
        BY <2>1, <3>1 DEF Scans, FilesType
      <3>3. CASE v = w
        <4>1. mirror'[v] = Merged(v, seen)
          BY <2>1, <3>1, <3>3 DEF FilesType
        <4>2. /\ Merged(v, seen) \in Seq(Note)
              /\ Len(mirror[v]) <= Len(Merged(v, seen))
              /\ \A i \in 1 .. Len(mirror[v]) : Merged(v, seen)[i] = mirror[v][i]
          BY <2>2, <3>2, MergedExtends
        <4> QED
          BY <2>2, <4>1, <4>2, PrefixIf
      <3>4. CASE v # w
        BY <2>1, <2>3, <3>1, <3>4 DEF FilesType
      <3> QED
        BY <3>3, <3>4
    <2>5. ASSUME NEW w \in Wallets, Record(w) PROVE IsPrefix(mirror[v], mirror'[v])
      <3> DEFINE write == Head(cmd[w].todo)
      <3>1. CASE v = w /\ write.op = "appendLeaf"
        <4>1. /\ cmd[w].todo \in Seq(WriteSet) /\ cmd[w].todo # <<>>
          BY <2>1, <2>5 DEF Record, WalletOK, CmdOK
        <4>2. write \in WriteSet
          BY <4>1
        <4>3. write.note \in Note
          BY <3>1, <4>2 DEF WriteSet
        <4>4. mirror'[v] = Append(mirror[v], write.note)
          BY <2>1, <2>5, <3>1 DEF Record, FilesType
        <4> HIDE DEF write
        <4>5. /\ Append(mirror[v], write.note) \in Seq(Note)
              /\ Len(mirror[v]) <= Len(Append(mirror[v], write.note))
              /\ \A i \in 1 .. Len(mirror[v]) :
                    Append(mirror[v], write.note)[i] = mirror[v][i]
          BY <2>2, <4>3
        <4> QED
          BY <2>2, <4>4, <4>5, PrefixIf
      <3>2. CASE ~(v = w /\ write.op = "appendLeaf")
        <4>1. mirror'[v] = mirror[v]
          BY <2>1, <2>5, <3>2 DEF Record, FilesType
        <4> QED
          BY <2>3, <4>1
      <3> QED
        BY <3>1, <3>2
    <2>6. ASSUME UNCHANGED mirror PROVE IsPrefix(mirror[v], mirror'[v])
      BY <2>3, <2>6
    <2>7. CASE Admin
      BY <2>6, <2>7 DEF Admin
    <2>8. ASSUME NEW w \in Wallets, Client(w) PROVE IsPrefix(mirror[v], mirror'[v])
      BY <2>5, <2>6, <2>8 DEF Client, Reindex, SwapQuote, SwapSend, UnshieldSend, Throw
    <2>9. ASSUME NEW w \in Wallets, Ledger(w) PROVE IsPrefix(mirror[v], mirror'[v])
      BY <2>6, <2>9 DEF Ledger, Execute, Fail, Expire
    <2>10. ASSUME NEW w \in Wallets, NEW amount \in Amounts, ShieldCommand(w, amount)
           PROVE  IsPrefix(mirror[v], mirror'[v])
      BY <2>6, <2>10 DEF ShieldCommand
    <2>11. ASSUME NEW w \in Wallets,
                  ThrowAtOnce(w) \/ Interrupt(w) \/ StopWaiting(w) \/ Crash(w)
           PROVE  IsPrefix(mirror[v], mirror'[v])
      BY <2>6, <2>11 DEF ThrowAtOnce, Interrupt, StopWaiting, Crash
    <2>12. CASE Other
      BY <2>6, <2>12 DEF Other, walletVars
    <2> QED
      BY <2>4, <2>7, <2>8, <2>9, <2>10, <2>11, <2>12 DEF CliNext
  <1> QED
    BY <1>1, CliInvAlways, PTL DEF CliSpec, MirrorOnlyGrows
-----------------------------------------------------------------------------
(* A wallet that is alone and undisturbed.                                 *)

LoneWallet == \A v, w \in Wallets : v = w

\* The file writes a command has still to make.
Todo(c) == IF c.pc = "record" THEN c.todo ELSE <<>>

\* The leaf at a leaf index, which counts from 0.
Holds(history, index, note) == index + 1 \in DOMAIN history /\ history[index + 1] = note

(***************************************************************************)
(* The leaves that the mirror lacks are those that the writes to come will *)
(* append, one after the other and in the chain's order.                   *)
(***************************************************************************)
MirrorFollows(m, history, todo) ==
    LET behind == Len(history) - Len(m) IN
    /\ behind >= 0
    /\ \A i \in 1 .. Len(m) : m[i] = history[i]
    /\ \E first \in 1 .. Len(todo) + 1 :
         /\ first + behind <= Len(todo) + 1
         /\ \A k \in 1 .. Len(todo) :
              IF first <= k /\ k < first + behind
                THEN /\ todo[k].op = "appendLeaf"
                     /\ todo[k].note = history[Len(m) + 1 + (k - first)]
                ELSE todo[k].op # "appendLeaf"

\* Each leaf is listed or will be, and what is or will be listed is at its index.
NotesFollow(ns, history, todo) ==
    /\ \A k \in DOMAIN ns : Holds(history, ns[k].leafIndex, ns[k].note)
    /\ \A k \in DOMAIN todo :
         todo[k].op = "addNote" => Holds(history, todo[k].index, todo[k].note)
    /\ \A i \in DOMAIN history :
         \/ \E k \in DOMAIN ns : ns[k].leafIndex + 1 = i
         \/ \E k \in DOMAIN todo : todo[k].op = "addNote" /\ todo[k].index + 1 = i

Marks(todo, note) ==
    \E k \in DOMAIN todo : todo[k].op = "markSpent" /\ todo[k].note = note

\* A nullified note is marked or will be; a note still to be listed is unspent.
MarksFollow(ns, history, used, todo) ==
    /\ \A k \in DOMAIN ns :
         Paid(history, used, ns[k].note) => ns[k].spent \/ Marks(todo, ns[k].note)
    /\ \A k \in DOMAIN todo :
         todo[k].op = "addNote" => ~Paid(history, used, todo[k].note)

FilesFollow(m, ns, history, used, todo) ==
    /\ MirrorFollows(m, history, todo)
    /\ NotesFollow(ns, history, todo)
    /\ MarksFollow(ns, history, used, todo)

\* Only the transaction that the command waits for can still be executed.
OneInFlight(w) ==
    inflight[w] # {} => cmd[w].pc = "wait" /\ inflight[w] = {cmd[w].tx}

\* Nobody but this wallet has put anything on the chain.
OwnLeaves(history, w) == \A i \in DOMAIN history : history[i].ownerPk = OwnerPk(w)

UndisturbedOK(w) ==
    /\ OneInFlight(w)
    /\ OwnLeaves(leaves, w)
    /\ FilesFollow(mirror[w], notes[w], leaves, nullifiers, Todo(cmd[w]))

\* Every nullifier is that of a leaf.
NullifiersOfLeaves ==
    \A used \in nullifiers : \E i \in DOMAIN leaves : used = NullifierAt(leaves, i)

LoneInv ==
    /\ others \in Nat /\ timeouts \in Nat /\ crashes \in Nat
    /\ Undisturbed => NullifiersOfLeaves /\ \A w \in Wallets : UndisturbedOK(w)

\* When nothing is left to write, the mirror is the chain's history.
LEMMA CaughtUp ==
  ASSUME NEW m \in Seq(Note), NEW history \in Seq(Note), MirrorFollows(m, history, <<>>)
  PROVE  m = history
  <1>1. Len(m) \in Nat /\ Len(history) \in Nat /\ Len(m) = Len(history)
    BY DEF MirrorFollows
  <1>2. \A i \in 1 .. Len(m) : m[i] = history[i]
    BY DEF MirrorFollows
  <1> QED
    BY <1>1, <1>2

(***************************************************************************)
(* What is left after a write is made: the mirror with the leaf of this    *)
(* write lacks the leaves of the others.                                   *)
(***************************************************************************)
LEMMA RecordMirror ==
  ASSUME NEW m \in Seq(Note), NEW history \in Seq(Note), NEW todo \in Seq(WriteSet),
         todo # <<>>, MirrorFollows(m, history, todo), NEW new,
         new = IF Head(todo).op # "appendLeaf" THEN m ELSE Append(m, Head(todo).note)
  PROVE  MirrorFollows(new, history, Tail(todo))
  <1> DEFINE rest == Tail(todo)
             behind == Len(history) - Len(m)
  <1>1. /\ Len(m) \in Nat /\ Len(history) \in Nat
        /\ Len(todo) \in Nat /\ Len(todo) > 0
        /\ Head(todo) = todo[1] /\ todo[1] \in WriteSet
    OBVIOUS
  <1>2. /\ Len(rest) = Len(todo) - 1
        /\ \A k \in 1 .. Len(rest) : rest[k] = todo[k + 1]
    OBVIOUS
  <1>3. /\ behind >= 0
        /\ \A i \in 1 .. Len(m) : m[i] = history[i]
    BY DEF MirrorFollows
  <1>4. PICK first \in 1 .. Len(todo) + 1 :
          /\ first + behind <= Len(todo) + 1
          /\ \A k \in 1 .. Len(todo) :
               IF first <= k /\ k < first + behind
                 THEN /\ todo[k].op = "appendLeaf"
                      /\ todo[k].note = history[Len(m) + 1 + (k - first)]
                 ELSE todo[k].op # "appendLeaf"
    BY DEF MirrorFollows
  <1> HIDE DEF rest
  <1>5. CASE Head(todo).op # "appendLeaf"
    <2>1. new = m
      BY <1>5
    <2> DEFINE from == IF first = 1 THEN 1 ELSE first - 1
    <2>2. first = 1 => behind = 0
      BY <1>1, <1>3, <1>4, <1>5
    <2>3. from \in 1 .. Len(rest) + 1 /\ from + behind <= Len(rest) + 1
      BY <1>1, <1>2, <1>3, <1>4, <2>2
    <2>4. ASSUME NEW k \in 1 .. Len(rest)
          PROVE  IF from <= k /\ k < from + behind
                   THEN /\ rest[k].op = "appendLeaf"
                        /\ rest[k].note = history[Len(m) + 1 + (k - from)]
                   ELSE rest[k].op # "appendLeaf"
      <3>1. k + 1 \in 1 .. Len(todo) /\ rest[k] = todo[k + 1]
        BY <1>1, <1>2
      <3>2. from <= k /\ k < from + behind <=> first <= k + 1 /\ k + 1 < first + behind
        BY <1>1, <1>3, <2>2
      <3>3. first # 1 => (k + 1) - first = k - from
        OBVIOUS
      <3> QED
        BY <1>1, <1>3, <1>4, <2>2, <3>1, <3>2, <3>3, SMTT(60)
    <2> HIDE DEF from
    <2> QED
      BY <1>3, <2>1, <2>3, <2>4 DEF MirrorFollows, rest
  <1>6. CASE Head(todo).op = "appendLeaf"
    <2>1. first = 1 /\ behind > 0
      BY <1>1, <1>3, <1>4, <1>6
    <2>2. todo[1].note = history[Len(m) + 1]
      <3>1. Len(m) + 1 + (1 - first) = Len(m) + 1 /\ 1 \in 1 .. Len(todo)
        BY <1>1, <2>1
      <3>2. first <= 1 /\ 1 < first + behind
        BY <1>1, <2>1
      <3> HIDE DEF behind
      <3> QED
        BY <1>4, <3>1, <3>2
    <2>3. new = Append(m, todo[1].note) /\ todo[1].note \in Note
      BY <1>1, <1>6 DEF WriteSet
    <2>4. /\ Len(new) = Len(m) + 1
          /\ \A i \in 1 .. Len(new) : new[i] = history[i]
      BY <1>1, <1>3, <2>2, <2>3
    <2> DEFINE left == Len(history) - Len(new)
    <2>5. left = behind - 1 /\ left >= 0
      BY <1>1, <2>1, <2>4
    <2>6. 1 \in 1 .. Len(rest) + 1 /\ 1 + left <= Len(rest) + 1
      BY <1>1, <1>2, <1>4, <2>1, <2>5
    <2>7. ASSUME NEW k \in 1 .. Len(rest)
          PROVE  IF 1 <= k /\ k < 1 + left
                   THEN /\ rest[k].op = "appendLeaf"
                        /\ rest[k].note = history[Len(new) + 1 + (k - 1)]
                   ELSE rest[k].op # "appendLeaf"
      <3>1. k + 1 \in 1 .. Len(todo) /\ rest[k] = todo[k + 1]
        BY <1>1, <1>2
      <3>2. 1 <= k /\ k < 1 + left <=> first <= k + 1 /\ k + 1 < first + behind
        <4>1. k \in Int /\ behind \in Int
          BY <1>1
        <4> HIDE DEF behind, left
        <4> QED
          BY <2>1, <2>5, <4>1
      <3>3. Len(m) + 1 + ((k + 1) - first) = Len(new) + 1 + (k - 1)
        <4>1. k \in Int /\ Len(m) \in Int
          BY <1>1
        <4> QED
          BY <2>1, <2>4, <4>1
      <3> HIDE DEF behind, left
      <3> QED
        BY <1>4, <3>1, <3>2, <3>3
    <2> QED
      BY <2>4, <2>5, <2>6, <2>7 DEF MirrorFollows, rest
  <1> QED
    BY <1>5, <1>6

\* The notes that are listed after a write.
ListedAfter(ns, write, new) ==
    /\ write.op = "appendLeaf" => new = ns
    /\ write.op = "addNote" =>
         new = Append(ns, [note |-> write.note, leafIndex |-> write.index, spent |-> FALSE])
    /\ write.op = "markSpent" =>
         new = [k \in DOMAIN ns |-> IF ns[k].note = write.note
                                      THEN [ns[k] EXCEPT !.spent = TRUE] ELSE ns[k]]

\* The first write and the ones after it are all that is to be written.
LEMMA TodoSplits ==
  ASSUME NEW todo \in Seq(WriteSet), todo # <<>>
  PROVE  /\ Head(todo) = todo[1] /\ 1 \in DOMAIN todo /\ todo[1] \in WriteSet
         /\ \A k \in DOMAIN Tail(todo) : k + 1 \in DOMAIN todo /\ Tail(todo)[k] = todo[k + 1]
         /\ \A k \in DOMAIN todo : k # 1 => k - 1 \in DOMAIN Tail(todo)
                                            /\ Tail(todo)[k - 1] = todo[k]
  <1>1. Len(todo) \in Nat /\ Len(todo) > 0
    OBVIOUS
  <1>2. Len(Tail(todo)) = Len(todo) - 1 /\ Tail(todo) \in Seq(WriteSet)
    OBVIOUS
  <1>3. \A k \in 1 .. Len(Tail(todo)) : Tail(todo)[k] = todo[k + 1]
    OBVIOUS
  <1> QED
    BY <1>1, <1>2, <1>3

\* What each kind of write changes about the notes that are listed.
LEMMA ListedAfterWrite ==
  ASSUME NEW ns \in Seq(StoredNote), NEW write \in WriteSet, NEW new,
         ListedAfter(ns, write, new)
  PROVE  /\ \A k \in DOMAIN ns :
              /\ k \in DOMAIN new
              /\ new[k].note = ns[k].note /\ new[k].leafIndex = ns[k].leafIndex
              /\ ns[k].spent => new[k].spent
              /\ write.op = "markSpent" /\ ns[k].note = write.note => new[k].spent
         /\ \A k \in DOMAIN new : k \notin DOMAIN ns =>
              /\ write.op = "addNote"
              /\ new[k].note = write.note /\ new[k].leafIndex = write.index
         /\ write.op = "addNote" =>
              \E k \in DOMAIN new : new[k].leafIndex = write.index
  <1>1. CASE write.op = "appendLeaf"
    BY <1>1 DEF ListedAfter
  <1>2. CASE write.op = "addNote"
    <2> DEFINE note == [note |-> write.note, leafIndex |-> write.index, spent |-> FALSE]
    <2>1. new = Append(ns, note)
      BY <1>2 DEF ListedAfter
    <2>2. /\ DOMAIN new = DOMAIN ns \cup {Len(ns) + 1}
          /\ \A k \in DOMAIN ns : new[k] = ns[k]
          /\ new[Len(ns) + 1] = note
      <3>1. note \in StoredNote
        BY <1>2 DEF WriteSet, StoredNote
      <3> HIDE DEF note
      <3> QED
        BY <2>1, <3>1
    <2>3. note.note = write.note /\ note.leafIndex = write.index
      OBVIOUS
    <2> HIDE DEF note
    <2> QED
      BY <1>2, <2>2, <2>3
  <1>3. CASE write.op = "markSpent"
    <2> DEFINE After(k) == IF ns[k].note = write.note
                             THEN [ns[k] EXCEPT !.spent = TRUE] ELSE ns[k]
    <2>1. new = [k \in DOMAIN ns |-> After(k)]
      BY <1>3 DEF ListedAfter
    <2>2. ASSUME NEW k \in DOMAIN ns
          PROVE  /\ After(k).note = ns[k].note /\ After(k).leafIndex = ns[k].leafIndex
                 /\ ns[k].spent => After(k).spent
                 /\ ns[k].note = write.note => After(k).spent
      <3>1. ns[k] \in StoredNote
        OBVIOUS
      <3> QED
        BY <3>1 DEF StoredNote
    <2> HIDE DEF After
    <2> QED
      BY <1>3, <2>1, <2>2
  <1> QED
    BY <1>1, <1>2, <1>3 DEF WriteSet

\* A write moves its note from those to be listed to those that are listed.
LEMMA RecordNotes ==
  ASSUME NEW ns \in Seq(StoredNote), NEW history, NEW todo \in Seq(WriteSet), todo # <<>>,
         NotesFollow(ns, history, todo), NEW new, ListedAfter(ns, Head(todo), new)
  PROVE  NotesFollow(new, history, Tail(todo))
  <1> DEFINE write == Head(todo)
             rest == Tail(todo)
  <1>1. /\ write = todo[1] /\ 1 \in DOMAIN todo /\ write \in WriteSet
        /\ \A k \in DOMAIN rest : k + 1 \in DOMAIN todo /\ rest[k] = todo[k + 1]
        /\ \A k \in DOMAIN todo : k # 1 => k - 1 \in DOMAIN rest /\ rest[k - 1] = todo[k]
    BY TodoSplits
  <1> HIDE DEF write, rest
  <1>2. /\ \A k \in DOMAIN ns :
              /\ k \in DOMAIN new
              /\ new[k].note = ns[k].note /\ new[k].leafIndex = ns[k].leafIndex
        /\ \A k \in DOMAIN new : k \notin DOMAIN ns =>
              /\ write.op = "addNote"
              /\ new[k].note = write.note /\ new[k].leafIndex = write.index
        /\ write.op = "addNote" => \E k \in DOMAIN new : new[k].leafIndex = write.index
    BY <1>1, ListedAfterWrite DEF write
  <1>3. ASSUME NEW k \in DOMAIN new PROVE Holds(history, new[k].leafIndex, new[k].note)
    BY <1>1, <1>2 DEF NotesFollow
  <1>4. ASSUME NEW k \in DOMAIN rest, rest[k].op = "addNote"
        PROVE  Holds(history, rest[k].index, rest[k].note)
    BY <1>1, <1>4 DEF NotesFollow
  <1>5. ASSUME NEW i \in DOMAIN history
        PROVE  \/ \E k \in DOMAIN new : new[k].leafIndex + 1 = i
               \/ \E k \in DOMAIN rest : rest[k].op = "addNote" /\ rest[k].index + 1 = i
    <2>1. CASE \E k \in DOMAIN ns : ns[k].leafIndex + 1 = i
      BY <1>2, <2>1
    <2>2. CASE \E k \in DOMAIN todo : todo[k].op = "addNote" /\ todo[k].index + 1 = i
      BY <1>1, <1>2, <2>2
    <2> QED
      BY <2>1, <2>2 DEF NotesFollow
  <1> QED
    BY <1>3, <1>4, <1>5 DEF NotesFollow, rest

\* A mark that is made is one less to make.
LEMMA RecordMarks ==
  ASSUME NEW ns \in Seq(StoredNote), NEW history, NEW used,
         NEW todo \in Seq(WriteSet), todo # <<>>,
         MarksFollow(ns, history, used, todo), NEW new, ListedAfter(ns, Head(todo), new)
  PROVE  MarksFollow(new, history, used, Tail(todo))
  <1> DEFINE write == Head(todo)
             rest == Tail(todo)
  <1>1. /\ write = todo[1] /\ 1 \in DOMAIN todo /\ write \in WriteSet
        /\ \A k \in DOMAIN rest : k + 1 \in DOMAIN todo /\ rest[k] = todo[k + 1]
        /\ \A k \in DOMAIN todo : k # 1 => k - 1 \in DOMAIN rest /\ rest[k - 1] = todo[k]
    BY TodoSplits
  <1> HIDE DEF write, rest
  <1>2. /\ \A k \in DOMAIN ns :
              /\ new[k].note = ns[k].note
              /\ ns[k].spent => new[k].spent
              /\ write.op = "markSpent" /\ ns[k].note = write.note => new[k].spent
        /\ \A k \in DOMAIN new : k \notin DOMAIN ns =>
              write.op = "addNote" /\ new[k].note = write.note
    BY <1>1, ListedAfterWrite DEF write
  <1>3. ASSUME NEW k \in DOMAIN new, Paid(history, used, new[k].note)
        PROVE  new[k].spent \/ Marks(rest, new[k].note)
    <2>1. CASE k \in DOMAIN ns
      <3>1. ns[k].spent \/ Marks(todo, ns[k].note)
        BY <1>2, <1>3, <2>1 DEF MarksFollow
      <3>2. CASE Marks(todo, ns[k].note)
        <4>1. PICK l \in DOMAIN todo : todo[l].op = "markSpent" /\ todo[l].note = ns[k].note
          BY <3>2 DEF Marks
        <4>2. CASE l = 1
          BY <1>1, <1>2, <2>1, <4>1, <4>2
        <4>3. CASE l # 1
          BY <1>1, <1>2, <2>1, <4>1, <4>3 DEF Marks
        <4> QED
          BY <4>2, <4>3
      <3> QED
        BY <1>2, <2>1, <3>1, <3>2
    <2>2. CASE k \notin DOMAIN ns
      BY <1>1, <1>2, <1>3, <2>2 DEF MarksFollow
    <2> QED
      BY <2>1, <2>2
  <1>4. ASSUME NEW k \in DOMAIN rest, rest[k].op = "addNote"
        PROVE  ~Paid(history, used, rest[k].note)
    BY <1>1, <1>4 DEF MarksFollow
  <1> QED
    BY <1>3, <1>4 DEF MarksFollow, rest

\* The files after one write.
LEMMA RecordIs ==
  ASSUME FilesType, NEW w \in Wallets, Record(w)
  PROVE  /\ mirror'[w] = IF Head(cmd[w].todo).op # "appendLeaf" THEN mirror[w]
                         ELSE Append(mirror[w], Head(cmd[w].todo).note)
         /\ ListedAfter(notes[w], Head(cmd[w].todo), notes'[w])
  <1> DEFINE write == Head(cmd[w].todo)
  <1>1. mirror'[w] = IF write.op # "appendLeaf" THEN mirror[w]
                     ELSE Append(mirror[w], write.note)
    BY DEF Record, FilesType
  <1>2. write.op = "appendLeaf" => notes'[w] = notes[w]
    BY DEF Record
  <1>3. write.op = "addNote" =>
          notes'[w] = Append(notes[w], [note |-> write.note, leafIndex |-> write.index,
                                        spent |-> FALSE])
    BY DEF Record, FilesType
  <1>4. write.op = "markSpent" =>
          notes'[w] = [k \in DOMAIN notes[w] |->
                         IF notes[w][k].note = write.note
                           THEN [notes[w][k] EXCEPT !.spent = TRUE] ELSE notes[w][k]]
    BY DEF Record, FilesType
  <1> HIDE DEF write
  <1>5. ListedAfter(notes[w], write, notes'[w])
    BY <1>2, <1>3, <1>4 DEF ListedAfter
  <1> QED
    BY <1>1, <1>5 DEF write

\* What is left to write after it.
LEMMA RecordTodo ==
  ASSUME FilesType, NEW w \in Wallets, Record(w),
         cmd[w].todo \in Seq(WriteSet), cmd[w].todo # <<>>
  PROVE  /\ Todo(cmd[w]) = cmd[w].todo
         /\ Todo(cmd'[w]) = Tail(cmd[w].todo)
         /\ cmd'[w].pc \in {"idle", "record"}
  <1> DEFINE todo == cmd[w].todo
  <1>1. cmd'[w] = IF Len(todo) = 1 THEN Idle ELSE [pc |-> "record", todo |-> Tail(todo)]
    BY DEF Record, FilesType
  <1>2. Len(todo) = 1 => Tail(todo) = <<>>
    <2> HIDE DEF todo
    <2>1. todo \in Seq(WriteSet) /\ todo # <<>>
      BY DEF todo
    <2>2. ASSUME Len(todo) = 1 PROVE Len(Tail(todo)) = 0 /\ Tail(todo) \in Seq(WriteSet)
      BY <2>1, <2>2
    <2> QED
      BY <2>2, EmptySeq
  <1>3. Todo(cmd[w]) = todo
    BY DEF Todo, Record
  <1> HIDE DEF todo
  <1>4. Todo(cmd'[w]) = Tail(todo) /\ cmd'[w].pc \in {"idle", "record"}
    BY <1>1, <1>2 DEF Todo, Idle
  <1> QED
    BY <1>3, <1>4 DEF todo

\* One file write of a wallet that follows the chain.
LEMMA RecordFollows ==
  ASSUME CliInv, NEW w \in Wallets, Record(w), UndisturbedOK(w)
  PROVE  UndisturbedOK(w)'
  <1> DEFINE todo == cmd[w].todo
             write == Head(todo)
  <1>1. FilesType /\ WalletOK(w)
    BY DEF CliInv
  <1>2. /\ mirror[w] \in Seq(Note) /\ notes[w] \in Seq(StoredNote) /\ leaves \in Seq(Note)
    BY <1>1 DEF FilesType, CliInv, TypeOK
  <1>3. /\ cmd[w].pc = "record" /\ todo \in Seq(WriteSet) /\ todo # <<>>
    BY <1>1 DEF Record, WalletOK, CmdOK
  <1>4. write \in WriteSet
    BY <1>3
  <1>5. /\ mirror'[w] = IF write.op # "appendLeaf" THEN mirror[w]
                        ELSE Append(mirror[w], write.note)
        /\ ListedAfter(notes[w], write, notes'[w])
    BY <1>1, RecordIs
  <1>6. /\ Todo(cmd[w]) = todo
        /\ Todo(cmd'[w]) = Tail(todo)
        /\ cmd'[w].pc \in {"idle", "record"}
    BY <1>1, <1>3, RecordTodo
  <1>7. inflight[w] = {} /\ inflight' = inflight
    BY <1>3 DEF UndisturbedOK, OneInFlight, Record
  <1>8. leaves' = leaves /\ nullifiers' = nullifiers
    BY DEF Record, poolVars
  <1>9. FilesFollow(mirror[w], notes[w], leaves, nullifiers, todo)
    BY <1>6 DEF UndisturbedOK
  <1> HIDE DEF todo, write
  <1>10. FilesFollow(mirror'[w], notes'[w], leaves, nullifiers, Tail(todo))
    <2>1. MirrorFollows(mirror'[w], leaves, Tail(todo))
      BY <1>2, <1>3, <1>5, <1>9, RecordMirror DEF FilesFollow, write
    <2>2. NotesFollow(notes'[w], leaves, Tail(todo))
      BY <1>2, <1>3, <1>5, <1>9, RecordNotes DEF FilesFollow, write
    <2>3. MarksFollow(notes'[w], leaves, nullifiers, Tail(todo))
      BY <1>2, <1>3, <1>5, <1>9, RecordMarks DEF FilesFollow, write
    <2> QED
      BY <2>1, <2>2, <2>3 DEF FilesFollow
  <1> QED
    BY <1>6, <1>7, <1>8, <1>10 DEF UndisturbedOK, OneInFlight

(***************************************************************************)
(* A wallet that waits, thinks or gives up writes nothing: it follows the  *)
(* chain as it did.                                                        *)
(***************************************************************************)
LEMMA StillFollows ==
  ASSUME NEW w \in Wallets, UndisturbedOK(w), OneInFlight(w)',
         leaves' = leaves, nullifiers' = nullifiers,
         mirror'[w] = mirror[w], notes'[w] = notes[w], Todo(cmd'[w]) = Todo(cmd[w])
  PROVE  UndisturbedOK(w)'
  BY DEF UndisturbedOK

\* Commands that have nothing to write yet.
LEMMA NothingToDo == \A c : c.pc # "record" => Todo(c) = <<>>
  BY DEF Todo

\* A command that throws, a process that is interrupted, and a transaction that fails or expires.
LEMMA GiveUpFollows ==
  ASSUME CliInv, NEW w \in Wallets, UndisturbedOK(w),
         Throw(w) \/ ThrowAtOnce(w) \/ Interrupt(w) \/ Fail(w) \/ Expire(w)
  PROVE  UndisturbedOK(w)'
  <1>1. FilesType /\ OneInFlight(w)
    BY DEF CliInv, UndisturbedOK
  <1>2. /\ cmd[w].pc # "record"
        /\ cmd'[w] \in {Idle, Thrown} /\ inflight'[w] = {}
        /\ UNCHANGED <<poolVars, mirror, notes>>
    <2>1. CASE Throw(w)
      BY <1>1, <2>1 DEF Throw, FilesType, OneInFlight
    <2>2. CASE Fail(w)
      <3>1. PICK tx \in inflight[w] :
                 inflight' = [inflight EXCEPT ![w] = {}] /\ Answer(w, tx, Thrown)
        BY <2>2 DEF Fail
      <3>2. cmd[w].pc = "wait" /\ cmd[w].tx = tx
        BY <1>1, <3>1 DEF OneInFlight
      <3>3. UNCHANGED <<poolVars, mirror, notes>>
        BY <2>2 DEF Fail
      <3> QED
        BY <1>1, <3>1, <3>2, <3>3 DEF Answer, FilesType
    <2>3. CASE Expire(w)
      <3>1. PICK tx \in inflight[w] :
              inflight' = [inflight EXCEPT ![w] = @ \ {tx}] /\ Answer(w, tx, Thrown)
        BY <2>3 DEF Expire
      <3>2. cmd[w].pc = "wait" /\ cmd[w].tx = tx /\ inflight[w] = {tx}
        BY <1>1, <3>1 DEF OneInFlight
      <3>3. UNCHANGED <<poolVars, mirror, notes>>
        BY <2>3 DEF Expire
      <3> QED
        BY <1>1, <3>1, <3>2, <3>3 DEF Answer, FilesType
    <2>4. CASE ThrowAtOnce(w) \/ Interrupt(w)
      BY <1>1, <2>4 DEF ThrowAtOnce, Interrupt, FilesType, OneInFlight, Idle, Thrown
    <2> QED
      BY <2>1, <2>2, <2>3, <2>4
  <1>3. Todo(cmd'[w]) = Todo(cmd[w])
    BY <1>2, NothingToDo DEF Idle, Thrown
  <1>4. OneInFlight(w)'
    BY <1>2 DEF OneInFlight
  <1> QED
    BY <1>2, <1>3, <1>4, StillFollows DEF poolVars

\* A command that picks a note or sends a transaction.
LEMMA SendFollows ==
  ASSUME CliInv, NEW w \in Wallets, UndisturbedOK(w),
         \/ \E amount \in Amounts : ShieldCommand(w, amount)
         \/ \E assetOut, amountIn : SwapQuote(w, assetOut, amountIn)
         \/ SwapSend(w)
         \/ \E to \in Recipients : UnshieldSend(w, to)
  PROVE  UndisturbedOK(w)'
  <1>1. FilesType /\ OneInFlight(w)
    BY DEF CliInv, UndisturbedOK
  <1>2. /\ cmd[w].pc \in {"idle", "swap", "unshield", "quoted"}
        /\ UNCHANGED <<poolVars, mirror, notes>>
        /\ \/ cmd'[w].pc = "quoted" /\ inflight' = inflight
           \/ \E tx : Send(w, tx)
    <2>1. CASE \E amount \in Amounts : ShieldCommand(w, amount)
      BY <2>1 DEF ShieldCommand, Idle
    <2>2. CASE \E assetOut, amountIn : SwapQuote(w, assetOut, amountIn)
      <3>1. PICK assetOut, amountIn : SwapQuote(w, assetOut, amountIn)
        BY <2>2
      <3>2. cmd'[w].pc = "quoted" /\ inflight' = inflight
        BY <1>1, <3>1 DEF SwapQuote, FilesType
      <3>3. cmd[w].pc = "swap" /\ UNCHANGED <<poolVars, mirror, notes>>
        BY <3>1 DEF SwapQuote
      <3> QED
        BY <3>2, <3>3
    <2>3. CASE SwapSend(w)
      BY <2>3 DEF SwapSend
    <2>4. CASE \E to \in Recipients : UnshieldSend(w, to)
      BY <2>4 DEF UnshieldSend
    <2> QED
      BY <2>1, <2>2, <2>3, <2>4
  <1>3. inflight[w] = {}
    BY <1>1, <1>2 DEF OneInFlight
  <1>4. cmd'[w].pc \in {"quoted", "wait"} /\ OneInFlight(w)'
    <2>1. CASE cmd'[w].pc = "quoted" /\ inflight' = inflight
      BY <1>3, <2>1 DEF OneInFlight
    <2>2. ASSUME NEW tx, Send(w, tx) PROVE cmd'[w].pc = "wait" /\ OneInFlight(w)'
      <3>1. cmd'[w] = [pc |-> "wait", tx |-> tx] /\ inflight'[w] = {tx}
        BY <1>1, <1>3, <2>2 DEF Send, FilesType
      <3> QED
        BY <3>1 DEF OneInFlight
    <2> QED
      BY <1>2, <2>1, <2>2
  <1>5. Todo(cmd'[w]) = Todo(cmd[w])
    BY <1>2, <1>4, NothingToDo
  <1> QED
    BY <1>2, <1>4, <1>5, StillFollows DEF poolVars

-----------------------------------------------------------------------------
(* sync, for a wallet whose mirror is the chain.                           *)

\* The first gap is at the end of the mirror.
LEMMA MergedAlone ==
  ASSUME NEW w \in Wallets, leaves \in Seq(Note), mirror[w] = leaves,
         NEW seen \in SUBSET (0 .. Len(leaves) - 1)
  PROVE  Merged(w, seen) = leaves
  <1> DEFINE size == Len(mirror[w])
             Known(i) == i < size \/ i \in seen
             IsGap(i) == ~Known(i) /\ \A j \in 0 .. i - 1 : Known(j)
             gap == CHOOSE i \in 0 .. size + Len(leaves) : IsGap(i)
  <1>1. size = Len(leaves) /\ size \in Nat
    OBVIOUS
  <1>2. size \in 0 .. size + Len(leaves) /\ IsGap(size)
    BY <1>1
  <1>3. \A i \in 0 .. size + Len(leaves) : IsGap(i) => i = size
    <2> SUFFICES ASSUME NEW i \in 0 .. size + Len(leaves), IsGap(i), i > size PROVE FALSE
      BY <1>1
    <2>1. size \in 0 .. i - 1
      BY <1>1
    <2>2. Known(size)
      BY <2>1
    <2> QED
      BY <1>1, <2>2
  <1>4. gap = size
    <2> HIDE DEF IsGap, size
    <2> QED
      BY <1>2, <1>3
  <1>5. Merged(w, seen) = [i \in 1 .. gap |-> IF i <= size THEN mirror[w][i] ELSE leaves[i]]
    BY DEF Merged
  <1> HIDE DEF gap, size
  <1>6. Merged(w, seen) = [i \in 1 .. Len(leaves) |-> leaves[i]]
    BY <1>1, <1>4, <1>5
  <1> QED
    BY <1>6

\* Every note is found where it is listed.
LEMMA ReindexedAlone ==
  ASSUME NEW ns \in Seq(StoredNote), NEW history \in Seq(Note),
         \A k \in DOMAIN ns : Holds(history, ns[k].leafIndex, ns[k].note),
         \A i, j \in DOMAIN history : history[i].rho = history[j].rho => i = j
  PROVE  Reindexed(ns, history) = ns
  <1> DEFINE Places(k) == {i \in 1 .. Len(history) : history[i] = ns[k].note}
             Place(k) == IF Places(k) # {} THEN Min(Places(k)) ELSE 0
             After(k) == IF Place(k) = 0 THEN ns[k]
                         ELSE [ns[k] EXCEPT !.leafIndex = Place(k) - 1]
  <1>1. Reindexed(ns, history) = [k \in DOMAIN ns |-> After(k)]
    BY DEF Reindexed, SelectInSeq
  <1>2. ASSUME NEW k \in DOMAIN ns PROVE After(k) = ns[k]
    <2>1. ns[k] \in StoredNote /\ ns[k].leafIndex \in Nat
      <3>1. ns[k] \in StoredNote
        OBVIOUS
      <3> QED
        BY <3>1 DEF StoredNote
    <2>2. Places(k) = {ns[k].leafIndex + 1}
      BY DEF Holds
    <2>3. Min(Places(k)) \in Places(k)
      <3>1. Places(k) \in SUBSET Nat /\ Places(k) # {}
        BY <2>1, <2>2
      <3> HIDE DEF Places
      <3> QED
        BY <3>1, MinIsOne
    <2>4. Place(k) = ns[k].leafIndex + 1
      BY <2>2, <2>3
    <2> HIDE DEF Place
    <2>5. Place(k) # 0 /\ Place(k) - 1 = ns[k].leafIndex
      BY <2>1, <2>4
    <2> QED
      BY <2>1, <2>5 DEF StoredNote
  <1> HIDE DEF After
  <1> QED
    BY <1>1, <1>2

\* Between its commands the mirror of such a wallet is the chain.
LEMMA AllMirrored ==
  ASSUME CliInv, NEW w \in Wallets, UndisturbedOK(w), cmd[w].pc # "record"
  PROVE  mirror[w] = leaves
  <1>1. mirror[w] \in Seq(Note) /\ leaves \in Seq(Note)
    BY DEF CliInv, FilesType, TypeOK
  <1>2. MirrorFollows(mirror[w], leaves, <<>>)
    BY NothingToDo DEF UndisturbedOK, FilesFollow
  <1> QED
    BY <1>1, <1>2, CaughtUp

\* sync finds nothing to add to the mirror.
LEMMA SyncFollows ==
  ASSUME CliInv, NEW w \in Wallets, NEW next, SyncCommand(w, next), UndisturbedOK(w)
  PROVE  UndisturbedOK(w)'
  <1>1. FilesType /\ TypeOK /\ nextIndex = Len(leaves) /\ OneInFlight(w)
    BY DEF CliInv, SpendInv, UndisturbedOK
  <1>2. leaves \in Seq(Note)
    BY <1>1 DEF TypeOK
  <1>3. cmd[w] = Idle /\ cmd'[w].pc = "reindex"
    BY <1>1 DEF SyncCommand, FilesType
  <1>4. Todo(cmd'[w]) = Todo(cmd[w])
    BY <1>3, NothingToDo DEF Idle
  <1>5. mirror[w] = leaves
    BY <1>3, AllMirrored DEF Idle
  <1>6. PICK seen \in Scans : mirror' = [mirror EXCEPT ![w] = Merged(w, seen)]
    BY DEF SyncCommand
  <1>7. seen \in SUBSET (0 .. Len(leaves) - 1)
    BY <1>1 DEF Scans, FilesType
  <1>8. Merged(w, seen) = leaves
    BY <1>2, <1>5, <1>7, MergedAlone
  <1>9. mirror'[w] = mirror[w]
    BY <1>1, <1>5, <1>6, <1>8 DEF FilesType
  <1>10. OneInFlight(w)'
    BY <1>1, <1>3 DEF OneInFlight, SyncCommand, Idle
  <1> QED
    BY <1>4, <1>9, <1>10, StillFollows DEF SyncCommand, poolVars

\* And every note is at its index already.
LEMMA ReindexFollows ==
  ASSUME CliInv, NEW w \in Wallets, Reindex(w), UndisturbedOK(w)
  PROVE  UndisturbedOK(w)'
  <1>1. FilesType /\ DrawnOnce /\ TypeOK /\ WalletOK(w) /\ OneInFlight(w)
    BY DEF CliInv, UndisturbedOK
  <1>2. leaves \in Seq(Note) /\ notes[w] \in Seq(StoredNote)
    BY <1>1 DEF FilesType, TypeOK
  <1>3. cmd[w].pc = "reindex" /\ cmd'[w].pc \in {"idle", "swap", "unshield"}
    BY <1>1 DEF Reindex, FilesType, WalletOK, CmdOK
  <1>4. Todo(cmd[w]) = <<>> /\ Todo(cmd'[w]) = <<>>
    BY <1>3, NothingToDo
  <1>5. mirror[w] = leaves
    BY <1>3, AllMirrored
  <1>6. NotesFollow(notes[w], leaves, <<>>)
    BY <1>4 DEF UndisturbedOK, FilesFollow
  <1>7. Reindexed(notes[w], leaves) = notes[w]
    BY <1>1, <1>2, <1>6, ReindexedAlone DEF NotesFollow, DrawnOnce
  <1>8. notes'[w] = notes[w]
    BY <1>1, <1>5, <1>7 DEF Reindex, FilesType
  <1>9. OneInFlight(w)'
    BY <1>1, <1>3 DEF OneInFlight, Reindex
  <1> QED
    BY <1>4, <1>8, <1>9, StillFollows DEF Reindex, poolVars

-----------------------------------------------------------------------------
(* The ledger executes the transaction of a wallet that follows the chain. *)

(***************************************************************************)
(* The nullifiers that a transaction adds are of notes that its command    *)
(* will mark, and the notes it adds are not nullified.                     *)
(***************************************************************************)
LEMMA EffectMarks ==
  ASSUME NEW ns, NEW old, NEW new, NEW used, NEW more, NEW todo,
         Grown(old, new, used, more),
         \A i, j \in DOMAIN new : new[i].rho = new[j].rho => i = j,
         \A x \in used : \E i \in DOMAIN old : x = NullifierAt(old, i),
         \A x \in more \ used :
            \E i \in DOMAIN old : x = NullifierAt(old, i) /\ Marks(todo, old[i]),
         NotesFollow(ns, old, <<>>), MarksFollow(ns, old, used, <<>>),
         \A k \in DOMAIN todo : todo[k].op = "addNote" =>
            \E j \in DOMAIN new : j \notin DOMAIN old /\ todo[k].note = new[j]
  PROVE  MarksFollow(ns, new, more, todo)
  <1>1. \A i \in DOMAIN old : i \in DOMAIN new /\ new[i] = old[i]
    BY DEF Grown
  <1>2. ASSUME NEW i \in DOMAIN new, NEW x \in more, x = NullifierAt(new, i)
        PROVE  /\ i \in DOMAIN old
               /\ NullifierAt(old, i) \in used \/ Marks(todo, old[i])
    <2>1. PICK j \in DOMAIN old :
            x = NullifierAt(old, j) /\ (x \in used \/ Marks(todo, old[j]))
      BY <1>2
    <2>2. new[i].rho = x.scalar.rho /\ old[j].rho = x.scalar.rho
      BY <1>2, <2>1 DEF NullifierAt, NullifierOf, EncodedAs
    <2>3. i = j
      BY <1>1, <2>2
    <2> QED
      BY <2>1, <2>3
  <1>3. ASSUME NEW k \in DOMAIN ns, Paid(new, more, ns[k].note)
        PROVE  ns[k].spent \/ Marks(todo, ns[k].note)
    <2>1. PICK i \in DOMAIN new : new[i] = ns[k].note /\ NullifierAt(new, i) \in more
      BY <1>3 DEF Paid
    <2>2. i \in DOMAIN old /\ (NullifierAt(old, i) \in used \/ Marks(todo, old[i]))
      BY <1>2, <2>1
    <2>3. old[i] = ns[k].note
      BY <1>1, <2>1, <2>2
    <2>4. CASE NullifierAt(old, i) \in used
      <3>1. Paid(old, used, ns[k].note)
        BY <2>2, <2>3, <2>4 DEF Paid
      <3>2. ~Marks(<<>>, ns[k].note)
        BY DEF Marks
      <3> QED
        BY <3>1, <3>2 DEF MarksFollow
    <2> QED
      BY <2>2, <2>3, <2>4
  <1>4. ASSUME NEW k \in DOMAIN todo, todo[k].op = "addNote"
        PROVE  ~Paid(new, more, todo[k].note)
    <2> SUFFICES ASSUME Paid(new, more, todo[k].note) PROVE FALSE
      OBVIOUS
    <2>1. PICK i \in DOMAIN new : new[i] = todo[k].note /\ NullifierAt(new, i) \in more
      BY DEF Paid
    <2>2. PICK j \in DOMAIN new : j \notin DOMAIN old /\ todo[k].note = new[j]
      BY <1>4
    <2>3. i \in DOMAIN old
      BY <1>2, <2>1
    <2>4. i = j
      BY <2>1, <2>2
    <2> QED
      BY <2>2, <2>3, <2>4
  <1> QED
    BY <1>3, <1>4 DEF MarksFollow

\* A nullifier that is added when one note is spent is that of the note.
LEMMA SpentNullifier ==
  ASSUME NEW history, NEW used, NEW more, NEW input, SpendsOne(history, used, more, input)
  PROVE  \A x \in more \ used :
            \E i \in DOMAIN history : x = NullifierAt(history, i) /\ history[i] = input
  <1>1. PICK y : more = used \cup {y} /\ Paid(history, {y}, input)
    BY DEF SpendsOne
  <1>2. PICK i \in DOMAIN history : history[i] = input /\ NullifierAt(history, i) \in {y}
    BY <1>1 DEF Paid
  <1> QED
    BY <1>1, <1>2

\* All that follows a history without anything to write.
LEMMA NotesListed ==
  ASSUME NEW ns, NEW history, NotesFollow(ns, history, <<>>)
  PROVE  /\ \A k \in DOMAIN ns : Holds(history, ns[k].leafIndex, ns[k].note)
         /\ \A i \in DOMAIN history : \E k \in DOMAIN ns : ns[k].leafIndex + 1 = i
  BY DEF NotesFollow

\* The writes after shield: its leaf and its note are the new ones.
LEMMA ShieldFollows ==
  ASSUME NEW history \in Seq(Note), NEW ns, NotesFollow(ns, history, <<>>),
         NEW note \in Note
  PROVE  LET new == Append(history, note)
             todo == ShieldWrites(note, Len(history))
         IN  /\ MirrorFollows(history, new, todo) /\ NotesFollow(ns, new, todo)
             /\ \A k \in DOMAIN todo : todo[k].op = "addNote" =>
                  \E j \in DOMAIN new : j \notin DOMAIN history /\ todo[k].note = new[j]
  <1> DEFINE new == Append(history, note)
             todo == ShieldWrites(note, Len(history))
             size == Len(history)
             a == LeafWrite(note)
             b == NoteWrite(note, size)
  <1>1. /\ Len(new) = size + 1 /\ size \in Nat /\ new[size + 1] = note
        /\ \A i \in 1 .. size : new[i] = history[i]
        /\ DOMAIN history = 1 .. size /\ DOMAIN new = 1 .. size + 1
    OBVIOUS
  <1>2. /\ a.op = "appendLeaf" /\ a.note = note
        /\ b.op = "addNote" /\ b.note = note /\ b.index = size
    BY DEF LeafWrite, NoteWrite
  <1>3. todo = <<a, b>>
    BY DEF ShieldWrites
  <1>4. /\ \A k \in DOMAIN ns : Holds(history, ns[k].leafIndex, ns[k].note)
        /\ \A i \in DOMAIN history : \E k \in DOMAIN ns : ns[k].leafIndex + 1 = i
    BY NotesListed
  <1> HIDE DEF new, todo, size, a, b
  <1>5. Len(todo) = 2 /\ DOMAIN todo = {1, 2} /\ todo[1] = a /\ todo[2] = b
    BY <1>3
  <1>6. MirrorFollows(history, new, todo)
    <2>1. Len(new) - Len(history) = 1
      BY <1>1 DEF size
    <2>2. \A k \in 1 .. 2 :
            IF 1 <= k /\ k < 1 + 1
              THEN /\ todo[k].op = "appendLeaf"
                   /\ todo[k].note = new[Len(history) + 1 + (k - 1)]
              ELSE todo[k].op # "appendLeaf"
      <3>1. Len(history) + 1 + (1 - 1) = size + 1
        BY <1>1 DEF size
      <3>2. \A k \in 1 .. 2 : k = 1 \/ k = 2
        OBVIOUS
      <3> QED
        BY <1>1, <1>2, <1>5, <3>1, <3>2
    <2>3. 1 \in 1 .. Len(todo) + 1 /\ 1 + 1 <= Len(todo) + 1
      BY <1>5
    <2> QED
      BY <1>1, <1>5, <2>1, <2>2, <2>3 DEF MirrorFollows, size
  <1>7. NotesFollow(ns, new, todo)
    BY <1>1, <1>2, <1>4, <1>5 DEF NotesFollow, Holds
  <1>8. \A k \in DOMAIN todo : todo[k].op = "addNote" =>
           \E j \in DOMAIN new : j \notin DOMAIN history /\ todo[k].note = new[j]
    BY <1>1, <1>2, <1>5
  <1> QED
    BY <1>6, <1>7, <1>8 DEF new, todo, size

\* The write after unshield: nothing is to be appended or listed.
LEMMA UnshieldFollows ==
  ASSUME NEW history \in Seq(Note), NEW ns, NotesFollow(ns, history, <<>>), NEW input
  PROVE  LET todo == <<SpentWrite(input)>>
         IN  /\ MirrorFollows(history, history, todo) /\ NotesFollow(ns, history, todo)
             /\ Marks(todo, input)
             /\ \A k \in DOMAIN todo : todo[k].op # "addNote"
  <1> DEFINE a == SpentWrite(input)
             todo == <<a>>
  <1>1. a.op = "markSpent" /\ a.note = input
    BY DEF SpentWrite
  <1>2. Len(todo) = 1 /\ DOMAIN todo = {1} /\ todo[1] = a
    OBVIOUS
  <1>3. Len(history) - Len(history) = 0
    OBVIOUS
  <1> HIDE DEF a, todo
  <1>4. MirrorFollows(history, history, todo)
    BY <1>1, <1>2, <1>3 DEF MirrorFollows
  <1>5. NotesFollow(ns, history, todo)
    BY <1>1, <1>2, NotesListed DEF NotesFollow
  <1>6. Marks(todo, input)
    BY <1>1, <1>2 DEF Marks
  <1> QED
    BY <1>1, <1>2, <1>4, <1>5, <1>6 DEF a, todo

\* The writes after a swap: output and change, in the order of the chain.
LEMMA SwapFollows ==
  ASSUME NEW history \in Seq(Note), NEW ns, NotesFollow(ns, history, <<>>),
         NEW input, NEW out \in Note, NEW change \in Note
  PROVE  LET new == history \o <<out, change>>
             todo == SwapWrites(input, out, change, Len(history))
         IN  /\ MirrorFollows(history, new, todo) /\ NotesFollow(ns, new, todo)
             /\ Marks(todo, input)
             /\ \A k \in DOMAIN todo : todo[k].op = "addNote" =>
                  \E j \in DOMAIN new : j \notin DOMAIN history /\ todo[k].note = new[j]
  <1> DEFINE new == history \o <<out, change>>
             todo == SwapWrites(input, out, change, Len(history))
             size == Len(history)
             a == SpentWrite(input)
             b == LeafWrite(out)
             c == LeafWrite(change)
             d == NoteWrite(out, size)
             e == NoteWrite(change, size + 1)
  <1>1. /\ Len(new) = size + 2 /\ size \in Nat
        /\ new[size + 1] = out /\ new[size + 2] = change
        /\ \A i \in 1 .. size : new[i] = history[i]
        /\ DOMAIN history = 1 .. size /\ DOMAIN new = 1 .. size + 2
    OBVIOUS
  <1>2. /\ a.op = "markSpent" /\ a.note = input
        /\ b.op = "appendLeaf" /\ b.note = out
        /\ c.op = "appendLeaf" /\ c.note = change
        /\ d.op = "addNote" /\ d.note = out /\ d.index = size
        /\ e.op = "addNote" /\ e.note = change /\ e.index = size + 1
    BY DEF SpentWrite, LeafWrite, NoteWrite
  <1>3. todo = <<a, b, c, d, e>>
    BY DEF SwapWrites
  <1>4. /\ \A k \in DOMAIN ns : Holds(history, ns[k].leafIndex, ns[k].note)
        /\ \A i \in DOMAIN history : \E k \in DOMAIN ns : ns[k].leafIndex + 1 = i
    BY NotesListed
  <1> HIDE DEF new, todo, size, a, b, c, d, e
  <1>5. /\ Len(todo) = 5 /\ DOMAIN todo = {1, 2, 3, 4, 5}
        /\ todo[1] = a /\ todo[2] = b /\ todo[3] = c /\ todo[4] = d /\ todo[5] = e
    BY <1>3
  <1>6. MirrorFollows(history, new, todo)
    <2>1. Len(new) - Len(history) = 2
      BY <1>1 DEF size
    <2>2. \A k \in 1 .. 5 :
            IF 2 <= k /\ k < 2 + 2
              THEN /\ todo[k].op = "appendLeaf"
                   /\ todo[k].note = new[Len(history) + 1 + (k - 2)]
              ELSE todo[k].op # "appendLeaf"
      <3>1. Len(history) + 1 + (2 - 2) = size + 1 /\ Len(history) + 1 + (3 - 2) = size + 2
        BY <1>1 DEF size
      <3>2. \A k \in 1 .. 5 : k = 1 \/ k = 2 \/ k = 3 \/ k = 4 \/ k = 5
        OBVIOUS
      <3> QED
        BY <1>1, <1>2, <1>5, <3>1, <3>2
    <2>3. 2 \in 1 .. Len(todo) + 1 /\ 2 + 2 <= Len(todo) + 1
      BY <1>5
    <2> QED
      BY <1>1, <1>5, <2>1, <2>2, <2>3 DEF MirrorFollows, size
  <1>7. NotesFollow(ns, new, todo)
    <2>1. \A k \in DOMAIN ns : Holds(new, ns[k].leafIndex, ns[k].note)
      BY <1>1, <1>4 DEF Holds
    <2>2. \A k \in DOMAIN todo : todo[k].op = "addNote" => Holds(new, todo[k].index, todo[k].note)
      <3>1. size + 1 \in 1 .. size + 2 /\ size + 1 + 1 \in 1 .. size + 2 /\ size + 1 + 1 = size + 2
        BY <1>1
      <3>2. Holds(new, size, out) /\ Holds(new, size + 1, change)
        BY <1>1, <3>1 DEF Holds
      <3> QED
        BY <1>2, <1>5, <3>2
    <2>3. \A i \in DOMAIN new :
            \/ \E k \in DOMAIN ns : ns[k].leafIndex + 1 = i
            \/ \E k \in DOMAIN todo : todo[k].op = "addNote" /\ todo[k].index + 1 = i
      <3>1. \A i \in DOMAIN new : i \in DOMAIN history \/ i = size + 1 \/ i = size + 1 + 1
        BY <1>1
      <3> QED
        BY <1>2, <1>4, <1>5, <3>1
    <2> QED
      BY <2>1, <2>2, <2>3 DEF NotesFollow
  <1>8. Marks(todo, input)
    BY <1>2, <1>5 DEF Marks
  <1>9. \A k \in DOMAIN todo : todo[k].op = "addNote" =>
           \E j \in DOMAIN new : j \notin DOMAIN history /\ todo[k].note = new[j]
    <2>1. size + 1 \in DOMAIN new \ DOMAIN history /\ size + 2 \in DOMAIN new \ DOMAIN history
      BY <1>1
    <2> QED
      BY <1>1, <1>2, <1>5, <2>1, SMTT(60)
  <1> QED
    BY <1>6, <1>7, <1>8, <1>9 DEF new, todo, size

(***************************************************************************)
(* What a transaction does to the nullifiers: none is added, or that of    *)
(* the note it spends.                                                     *)
(***************************************************************************)
LEMMA ExecuteSpends ==
  ASSUME CliInv, NEW w \in Wallets, NEW tx \in inflight[w], Call(w, tx)
  PROVE  /\ Grown(leaves, leaves', nullifiers, nullifiers')
         /\ \/ tx.kind = "shield" /\ nullifiers' = nullifiers
            \/ /\ tx.kind \in {"unshield", "swap"}
               /\ SpendsOne(leaves, nullifiers, nullifiers', tx.input)
  <1>1. tx.kind \in {"shield", "unshield", "swap"}
    BY DEF CliInv, WalletOK, TxOK
  <1>2. CASE tx.kind = "shield"
    BY <1>2, ShieldEffect DEF Effect
  <1>3. CASE tx.kind = "unshield"
    BY <1>3, UnshieldEffect DEF Effect
  <1>4. CASE tx.kind = "swap"
    BY <1>4, SwapEffect DEF Effect
  <1> QED
    BY <1>1, <1>2, <1>3, <1>4

\* A nullifier stays that of a leaf as the chain grows.
LEMMA NullifiersStay ==
  ASSUME NullifiersOfLeaves, Grown(leaves, leaves', nullifiers, nullifiers'),
         \A x \in nullifiers' \ nullifiers : \E i \in DOMAIN leaves : x = NullifierAt(leaves, i)
  PROVE  NullifiersOfLeaves'
  <1>1. \A i \in DOMAIN leaves :
           i \in DOMAIN leaves' /\ NullifierAt(leaves', i) = NullifierAt(leaves, i)
    BY DEF Grown, NullifierAt
  <1>2. \A x \in nullifiers' : \E i \in DOMAIN leaves : x = NullifierAt(leaves, i)
    BY DEF NullifiersOfLeaves
  <1> QED
    BY <1>1, <1>2 DEF NullifiersOfLeaves

LEMMA ExecuteNullifiers ==
  ASSUME CliInv, NullifiersOfLeaves, NEW w \in Wallets, Execute(w)
  PROVE  NullifiersOfLeaves'
  <1>1. PICK tx \in inflight[w] : Call(w, tx)
    BY DEF Execute
  <1>2. \A x \in nullifiers' \ nullifiers : \E i \in DOMAIN leaves : x = NullifierAt(leaves, i)
    BY <1>1, ExecuteSpends, SpentNullifier
  <1> QED
    BY <1>1, <1>2, ExecuteSpends, NullifiersStay

\* A transaction of a wallet adds notes to the key of that wallet.
LEMMA ExecuteOwn ==
  ASSUME CliInv, NEW w \in Wallets, NEW tx \in inflight[w], Call(w, tx), OwnLeaves(leaves, w)
  PROVE  OwnLeaves(leaves', w)
  <1>1. leaves \in Seq(Note) /\ TxOK(leaves, w, tx)
    BY DEF CliInv, TypeOK, WalletOK
  <1>2. CASE tx.kind = "shield"
    <2> DEFINE note == ShieldCommitment(tx.amount, OwnerPk(w), tx.rho)
    <2>1. leaves' = Append(leaves, note)
      BY <1>2, ShieldEffect
    <2>2. note.ownerPk = OwnerPk(w)
      BY DEF ShieldCommitment, NoteCommitment
    <2> HIDE DEF note
    <2> QED
      BY <1>1, <2>1, <2>2 DEF OwnLeaves
  <1>3. CASE tx.kind = "unshield"
    BY <1>3, UnshieldEffect
  <1>4. CASE tx.kind = "swap"
    <2> DEFINE out == SwapOutCommitment(tx.assetOut + 1, tx.witness)
               change == SwapChangeCommitment(tx.witness)
    <2>1. leaves' = leaves \o <<out, change>>
      BY <1>4, SwapEffect
    <2>2. out.ownerPk = OwnerPk(w) /\ change.ownerPk = OwnerPk(w)
      BY <1>1, <1>4 DEF TxOK, SwapOutCommitment, SwapChangeCommitment, NoteCommitment
    <2> HIDE DEF out, change
    <2> QED
      BY <1>1, <2>1, <2>2 DEF OwnLeaves
  <1> QED
    BY <1>1, <1>2, <1>3, <1>4 DEF TxOK

(***************************************************************************)
(* The command that waits for the only transaction in flight goes on to    *)
(* write down all that this transaction did.                               *)
(***************************************************************************)
LEMMA ExecuteFollows ==
  ASSUME CliInv, CliInv', NullifiersOfLeaves, NEW w \in Wallets, Execute(w), UndisturbedOK(w)
  PROVE  UndisturbedOK(w)'
  <1>1. FilesType /\ TypeOK /\ WalletOK(w) /\ OneInFlight(w)
    BY DEF CliInv, UndisturbedOK
  <1>2. PICK tx \in inflight[w] :
          /\ Call(w, tx)
          /\ inflight' = [inflight EXCEPT ![w] = {}]
          /\ Answer(w, tx, [pc |-> "record", todo |-> Writes(w, tx)])
    BY DEF Execute
  <1>3. cmd[w].pc = "wait" /\ cmd[w].tx = tx
    BY <1>1, <1>2 DEF OneInFlight
  <1>4. /\ cmd'[w] = [pc |-> "record", todo |-> Writes(w, tx)] /\ inflight'[w] = {}
        /\ mirror' = mirror /\ notes' = notes
    BY <1>1, <1>2, <1>3 DEF Answer, FilesType, Execute
  <1>5. Todo(cmd[w]) = <<>> /\ Todo(cmd'[w]) = Writes(w, tx)
    BY <1>3, <1>4, NothingToDo DEF Todo
  <1> DEFINE m == mirror[w]
             ns == notes[w]
             todo == Writes(w, tx)
  <1>6. m \in Seq(Note) /\ leaves \in Seq(Note) /\ leaves' \in Seq(Note)
    BY <1>1 DEF FilesType, TypeOK, CliInv
  <1>7. /\ MirrorFollows(m, leaves, <<>>) /\ NotesFollow(ns, leaves, <<>>)
        /\ MarksFollow(ns, leaves, nullifiers, <<>>)
    BY <1>5 DEF UndisturbedOK, FilesFollow
  <1>8. m = leaves
    BY <1>6, <1>7, CaughtUp
  <1>9. /\ MirrorFollows(leaves, leaves', todo) /\ NotesFollow(ns, leaves', todo)
        /\ tx.kind \in {"unshield", "swap"} => Marks(todo, tx.input)
        /\ \A k \in DOMAIN todo : todo[k].op = "addNote" =>
             \E j \in DOMAIN leaves' : j \notin DOMAIN leaves /\ todo[k].note = leaves'[j]
    <2>1. tx.kind \in {"shield", "unshield", "swap"}
      BY <1>1 DEF WalletOK, TxOK
    <2>2. CASE tx.kind = "shield"
      <3> DEFINE note == ShieldCommitment(tx.amount, OwnerPk(w), tx.rho)
      <3>1. leaves' = Append(leaves, note)
        BY <1>2, <2>2, ShieldEffect
      <3>2. todo = ShieldWrites(note, Len(leaves))
        BY <1>8, <2>2 DEF Writes
      <3> HIDE DEF note, todo
      <3>3. note \in Note
        <4>1. leaves'[Len(leaves) + 1] = note /\ Len(leaves) + 1 \in DOMAIN leaves'
          BY <1>6, <3>1
        <4> QED
          BY <1>6, <4>1
      <3> QED
        BY <1>6, <1>7, <2>2, <3>1, <3>2, <3>3, ShieldFollows
    <2>3. CASE tx.kind = "unshield"
      <3>1. leaves' = leaves
        BY <1>2, <2>3, UnshieldEffect
      <3>2. todo = <<SpentWrite(tx.input)>>
        BY <2>3 DEF Writes
      <3> HIDE DEF todo
      <3>3. /\ MirrorFollows(leaves, leaves, todo) /\ NotesFollow(ns, leaves, todo)
            /\ Marks(todo, tx.input)
            /\ \A k \in DOMAIN todo : todo[k].op # "addNote"
        BY <1>6, <1>7, <3>2, UnshieldFollows
      <3> QED
        BY <3>1, <3>3
    <2>4. CASE tx.kind = "swap"
      <3> DEFINE out == SwapOutCommitment(tx.assetOut + 1, tx.witness)
                 change == SwapChangeCommitment(tx.witness)
      <3>1. leaves' = leaves \o <<out, change>>
        BY <1>2, <2>4, SwapEffect
      <3>2. todo = SwapWrites(tx.input, out, change, Len(leaves))
        BY <1>8, <2>4 DEF Writes
      <3> HIDE DEF out, change, todo
      <3>3. out \in Note /\ change \in Note
        <4>1. /\ leaves'[Len(leaves) + 1] = out /\ Len(leaves) + 1 \in DOMAIN leaves'
              /\ leaves'[Len(leaves) + 2] = change /\ Len(leaves) + 2 \in DOMAIN leaves'
          BY <1>6, <3>1
        <4> QED
          BY <1>6, <4>1
      <3>4. LET new == leaves \o <<out, change>>
                writes == SwapWrites(tx.input, out, change, Len(leaves))
            IN  /\ MirrorFollows(leaves, new, writes) /\ NotesFollow(ns, new, writes)
                /\ Marks(writes, tx.input)
                /\ \A k \in DOMAIN writes : writes[k].op = "addNote" =>
                     \E j \in DOMAIN new : j \notin DOMAIN leaves /\ writes[k].note = new[j]
        BY <1>6, <1>7, <3>3, SwapFollows, SMTT(60)
      <3> QED
        BY <3>1, <3>2, <3>4
    <2> QED
      BY <2>1, <2>2, <2>3, <2>4
  <1> HIDE DEF todo
  <1>10. MarksFollow(ns, leaves', nullifiers', todo)
    <2>1. \A i, j \in DOMAIN leaves' : leaves'[i].rho = leaves'[j].rho => i = j
      BY DEF CliInv, DrawnOnce
    <2>2. \A x \in nullifiers : \E i \in DOMAIN leaves : x = NullifierAt(leaves, i)
      BY DEF NullifiersOfLeaves
    <2>3. \A x \in nullifiers' \ nullifiers :
            \E i \in DOMAIN leaves : x = NullifierAt(leaves, i) /\ Marks(todo, leaves[i])
      <3>1. CASE nullifiers' = nullifiers
        BY <3>1
      <3>2. CASE /\ tx.kind \in {"unshield", "swap"}
                 /\ SpendsOne(leaves, nullifiers, nullifiers', tx.input)
        BY <1>9, <3>2, SpentNullifier
      <3> QED
        BY <1>2, <3>1, <3>2, ExecuteSpends
    <2>4. Grown(leaves, leaves', nullifiers, nullifiers')
      BY <1>2, ExecuteSpends
    <2> QED
      BY <1>7, <1>9, <2>1, <2>2, <2>3, <2>4, EffectMarks
  <1>11. FilesFollow(mirror'[w], notes'[w], leaves', nullifiers', Todo(cmd'[w]))
    BY <1>4, <1>5, <1>8, <1>9, <1>10 DEF FilesFollow, todo
  <1>12. OwnLeaves(leaves', w)
    BY <1>2, ExecuteOwn DEF UndisturbedOK
  <1> QED
    BY <1>4, <1>11, <1>12 DEF UndisturbedOK, OneInFlight

-----------------------------------------------------------------------------
(* The theorem about a lone wallet.                                        *)

\* The administrator inserts nothing and spends nothing.
LEMMA AdminKeepsChain ==
  ASSUME CliInv, Admin
  PROVE  leaves' = leaves /\ nullifiers' = nullifiers
  BY DEF Admin, Initialize, SeedReserves, SetDenied

LEMMA LoneInvStep ==
  ASSUME LoneWallet, CliInv, CliInv', LoneInv, [CliNext]_cliVars
  PROVE  LoneInv'
  <1>1. others \in Nat /\ timeouts \in Nat /\ crashes \in Nat
    BY DEF LoneInv
  <1>2. ASSUME leaves' = leaves, nullifiers' = nullifiers, NullifiersOfLeaves
        PROVE  NullifiersOfLeaves'
    BY <1>2 DEF NullifiersOfLeaves
  <1>3. ASSUME UNCHANGED <<others, timeouts, crashes>>, Undisturbed'
        PROVE  NullifiersOfLeaves /\ \A w \in Wallets : UndisturbedOK(w)
    BY <1>3 DEF LoneInv, Undisturbed
  <1>4. ASSUME Admin \/ UNCHANGED cliVars PROVE LoneInv'
    <2>1. /\ leaves' = leaves /\ nullifiers' = nullifiers
          /\ UNCHANGED <<mirror, notes, cmd, inflight, others, timeouts, crashes>>
      <3>1. CASE Admin
        BY <3>1, AdminKeepsChain DEF Admin
      <3>2. CASE UNCHANGED cliVars
        BY <3>2 DEF cliVars, poolVars
      <3> QED
        BY <1>4, <3>1, <3>2
    <2>2. ASSUME Undisturbed', NEW w \in Wallets PROVE UndisturbedOK(w)'
      BY <1>3, <2>1, <2>2 DEF UndisturbedOK, OneInFlight
    <2> QED
      BY <1>1, <1>2, <1>3, <2>1, <2>2 DEF LoneInv
  <1>5. ASSUME NEW v \in Wallets,
               \/ \E amount \in Amounts : ShieldCommand(v, amount)
               \/ \E next \in {Idle, [pc |-> "swap"], [pc |-> "unshield"]} : SyncCommand(v, next)
               \/ Client(v) \/ ThrowAtOnce(v) \/ Interrupt(v) \/ Fail(v) \/ Expire(v)
        PROVE  LoneInv'
    <2>1. /\ leaves' = leaves /\ nullifiers' = nullifiers
          /\ UNCHANGED <<others, timeouts, crashes>>
      <3>1. CASE Client(v)
        BY <3>1 DEF Client, Reindex, SwapQuote, SwapSend, UnshieldSend, Throw, Record, poolVars
      <3>2. CASE ~Client(v)
        BY <1>5, <3>2 DEF ShieldCommand, SyncCommand, ThrowAtOnce, Interrupt, Fail, Expire,
                          poolVars
      <3> QED
        BY <3>1, <3>2
    <2>2. ASSUME Undisturbed', NEW w \in Wallets PROVE UndisturbedOK(w)'
      <3>1. w = v /\ UndisturbedOK(v)
        BY <1>3, <2>1, <2>2 DEF LoneWallet
      <3>2. UndisturbedOK(v)'
        BY <1>5, <3>1, SendFollows, SyncFollows, ReindexFollows, GiveUpFollows, RecordFollows
           DEF Client
      <3> QED
        BY <3>1, <3>2
    <2> QED
      BY <1>1, <1>2, <1>3, <2>1, <2>2, SMTT(60) DEF LoneInv
  <1>6. ASSUME NEW v \in Wallets, Execute(v) PROVE LoneInv'
    <2>1. UNCHANGED <<others, timeouts, crashes>>
      BY <1>6 DEF Execute
    <2>2. ASSUME Undisturbed', NEW w \in Wallets PROVE NullifiersOfLeaves' /\ UndisturbedOK(w)'
      <3>1. w = v /\ UndisturbedOK(v) /\ NullifiersOfLeaves
        BY <1>3, <2>1, <2>2 DEF LoneWallet
      <3>2. UndisturbedOK(v)' /\ NullifiersOfLeaves'
        BY <1>6, <3>1, ExecuteFollows, ExecuteNullifiers
      <3> QED
        BY <3>1, <3>2
    <2> QED
      BY <1>1, <2>1, <2>2 DEF LoneInv
  <1>7. ASSUME NEW v \in Wallets, StopWaiting(v) \/ Crash(v) PROVE LoneInv'
    <2>1. others' \in Nat /\ timeouts' \in Nat /\ crashes' \in Nat /\ ~Undisturbed'
      BY <1>1, <1>7 DEF StopWaiting, Crash, Undisturbed
    <2> QED
      BY <2>1 DEF LoneInv
  <1>8. ASSUME Other PROVE LoneInv'
    <2>1. others' \in Nat /\ timeouts' \in Nat /\ crashes' \in Nat /\ ~Undisturbed'
      BY <1>1, <1>8 DEF Other, Undisturbed
    <2> QED
      BY <2>1 DEF LoneInv
  <1>9. \/ Admin \/ UNCHANGED cliVars \/ Other
         \/ \E v \in Wallets :
              \/ \/ \E amount \in Amounts : ShieldCommand(v, amount)
                 \/ \E next \in {Idle, [pc |-> "swap"], [pc |-> "unshield"]} :
                      SyncCommand(v, next)
                 \/ Client(v) \/ ThrowAtOnce(v) \/ Interrupt(v) \/ Fail(v) \/ Expire(v)
              \/ Execute(v)
              \/ StopWaiting(v) \/ Crash(v)
    BY DEF CliNext, Ledger
  <1> QED
    BY <1>4, <1>5, <1>6, <1>7, <1>8, <1>9

\* Nothing is on the chain yet, and nothing in the files.
LEMMA LoneInvInit == CliInit => LoneInv
  <1> SUFFICES ASSUME CliInit PROVE LoneInv
    OBVIOUS
  <1>1. leaves = <<>> /\ nullifiers = {} /\ others = 0 /\ timeouts = 0 /\ crashes = 0
    BY DEF CliInit, Init
  <1>2. ASSUME NEW w \in Wallets PROVE UndisturbedOK(w)
    <2>1. cmd[w] = Idle /\ inflight[w] = {} /\ mirror[w] = <<>> /\ notes[w] = <<>>
      BY DEF CliInit
    <2>2. Todo(cmd[w]) = <<>>
      BY <2>1, NothingToDo DEF Idle
    <2>3. MirrorFollows(<<>>, <<>>, <<>>)
      BY DEF MirrorFollows
    <2>4. NotesFollow(<<>>, <<>>, <<>>) /\ MarksFollow(<<>>, <<>>, nullifiers, <<>>)
      BY DEF NotesFollow, MarksFollow
    <2> QED
      BY <1>1, <2>1, <2>2, <2>3, <2>4 DEF UndisturbedOK, OneInFlight, OwnLeaves, FilesFollow
  <1> QED
    BY <1>1, <1>2 DEF LoneInv, NullifiersOfLeaves

\* With nothing left to write, the files agree with the chain.
LEMMA FollowsMatches ==
  ASSUME CliInv, NEW w \in Wallets, UndisturbedOK(w), Resting(w)
  PROVE  WalletMatchesChain(w)
  <1>1. FilesType /\ TypeOK /\ DrawnOnce /\ WalletOK(w)
    BY DEF CliInv
  <1>2. mirror[w] \in Seq(Note) /\ leaves \in Seq(Note) /\ notes[w] \in Seq(StoredNote)
    BY <1>1 DEF FilesType, TypeOK
  <1>3. Todo(cmd[w]) = <<>>
    BY NothingToDo DEF Resting, Running, Idle, Thrown
  <1>4. /\ MirrorFollows(mirror[w], leaves, <<>>) /\ NotesFollow(notes[w], leaves, <<>>)
        /\ MarksFollow(notes[w], leaves, nullifiers, <<>>)
    BY <1>3 DEF UndisturbedOK, FilesFollow
  <1>5. mirror[w] = leaves
    BY <1>2, <1>4, CaughtUp
  <1>6. /\ \A k \in DOMAIN notes[w] :
              Holds(leaves, notes[w][k].leafIndex, notes[w][k].note)
        /\ \A i \in DOMAIN leaves :
              \E k \in DOMAIN notes[w] : notes[w][k].leafIndex + 1 = i
    BY <1>4, NotesListed
  <1>7. {i \in DOMAIN leaves : leaves[i].ownerPk = OwnerPk(w)}
          = {notes[w][k].leafIndex + 1 : k \in DOMAIN notes[w]}
    <2>1. \A i \in DOMAIN leaves : leaves[i].ownerPk = OwnerPk(w)
      BY DEF UndisturbedOK, OwnLeaves
    <2> QED
      BY <1>6, <2>1 DEF Holds
  <1>8. ASSUME NEW k \in DOMAIN notes[w]
        PROVE  /\ leaves[notes[w][k].leafIndex + 1] = notes[w][k].note
               /\ notes[w][k].spent <=> Nullified(notes[w][k].note)
    <2> DEFINE n == notes[w][k]
               i == n.leafIndex + 1
    <2>1. i \in DOMAIN leaves /\ leaves[i] = n.note
      BY <1>6 DEF Holds
    <2>2. Nullified(n.note) <=> Paid(leaves, nullifiers, n.note)
      BY <1>1, <1>2, <2>1, OnChainIs
    <2>3. n.spent => Paid(leaves, nullifiers, n.note)
      BY <1>1 DEF WalletOK, NoteOK
    <2>4. Paid(leaves, nullifiers, n.note) => n.spent
      <3>1. ~Marks(<<>>, n.note)
        BY DEF Marks
      <3> QED
        BY <1>4, <3>1 DEF MarksFollow
    <2>5. n.spent \in BOOLEAN
      <3>1. n \in StoredNote
        BY <1>2
      <3> QED
        BY <3>1 DEF StoredNote
    <2> QED
      BY <2>1, <2>2, <2>3, <2>4, <2>5
  <1> QED
    BY <1>5, <1>7, <1>8 DEF WalletMatchesChain

(***************************************************************************)
(* store.ts:107-110, for a wallet that is the only one: while no other     *)
(* client acts and no command is cut short, its files agree with the chain *)
(* whenever no command runs and no transaction is in flight, whatever scans*)
(* miss, expires or fails.                                                 *)
(***************************************************************************)
THEOREM LoneWalletMatches == LoneWallet /\ CliSpec => []RestingWalletMatchesChain
  <1> SUFFICES ASSUME LoneWallet PROVE CliSpec => []RestingWalletMatchesChain
    OBVIOUS
  <1>1. LoneInv /\ CliInv => RestingWalletMatchesChain
    BY FollowsMatches DEF LoneInv, RestingWalletMatchesChain
  <1>2. LoneInv /\ CliInv /\ CliInv' /\ [CliNext]_cliVars => LoneInv'
    BY LoneInvStep
  <1> QED
    BY <1>1, <1>2, LoneInvInit, CliInvAlways, PTL DEF CliSpec

-----------------------------------------------------------------------------
(* The two files of a wallet.                                              *)

(***************************************************************************)
(* What the writes to come make of a mirror, and that a note among them is *)
(* listed after all leaves are appended, at the place of its own.          *)
(***************************************************************************)
WillHold(m, final, todo) ==
    /\ MirrorFollows(m, final, todo)
    /\ \A k \in DOMAIN todo : todo[k].op = "addNote" =>
         /\ Holds(final, todo[k].index, todo[k].note)
         /\ \A j \in DOMAIN todo : todo[j].op = "appendLeaf" => j < k

AllHeld(m, ns) == \A k \in DOMAIN ns : Holds(m, ns[k].leafIndex, ns[k].note)

ListedOK(w) ==
    /\ AllHeld(mirror[w], notes[w])
    /\ \E final \in Seq(Note) : WillHold(mirror[w], final, Todo(cmd[w]))

\* Nothing to write leaves the mirror as it is.
LEMMA NothingHolds ==
  ASSUME NEW m \in Seq(Note)
  PROVE  \E final \in Seq(Note) : WillHold(m, final, <<>>)
  <1>1. Len(m) - Len(m) = 0 /\ Len(m) \in Nat
    OBVIOUS
  <1>2. MirrorFollows(m, m, <<>>)
    BY <1>1 DEF MirrorFollows
  <1>3. WillHold(m, m, <<>>)
    BY <1>2 DEF WillHold
  <1> QED
    BY <1>3

\* A mirror that grows holds what it held.
LEMMA HeldByMore ==
  ASSUME NEW m \in Seq(Note), NEW more \in Seq(Note), NEW ns, AllHeld(m, ns),
         Len(m) <= Len(more), \A i \in 1 .. Len(m) : more[i] = m[i]
  PROVE  AllHeld(more, ns)
  <1>1. Len(m) \in Nat /\ Len(more) \in Nat
    OBVIOUS
  <1>2. \A i \in DOMAIN m : i \in DOMAIN more /\ more[i] = m[i]
    BY <1>1
  <1> QED
    BY <1>2 DEF AllHeld, Holds

\* A step that writes no file keeps what the files say of each other.
LEMMA CommandKeepsListed ==
  ASSUME FilesType, NEW v \in Wallets, NEW w \in Wallets, ListedOK(w),
         UNCHANGED <<mirror, notes>>, NEW c, c.pc # "record" \/ c = cmd[v],
         cmd' = [cmd EXCEPT ![v] = c]
  PROVE  ListedOK(w)'
  <1>1. mirror[w] \in Seq(Note)
    BY DEF FilesType
  <1>2. cmd'[w] = cmd[w] \/ cmd'[w].pc # "record"
    BY DEF FilesType
  <1>3. Todo(cmd'[w]) = Todo(cmd[w]) \/ Todo(cmd'[w]) = <<>>
    BY <1>2, NothingToDo
  <1>4. \E final \in Seq(Note) : WillHold(mirror[w], final, Todo(cmd'[w]))
    BY <1>1, <1>3, NothingHolds DEF ListedOK
  <1> QED
    BY <1>4 DEF ListedOK

\* The first write of sync: the mirror grows.
LEMMA SyncKeepsListed ==
  ASSUME CliInv, NEW w \in Wallets, NEW next, SyncCommand(w, next), ListedOK(w)
  PROVE  ListedOK(w)'
  <1>1. FilesType /\ TypeOK /\ nextIndex = Len(leaves)
    BY DEF CliInv, SpendInv
  <1>2. PICK seen \in Scans : mirror' = [mirror EXCEPT ![w] = Merged(w, seen)]
    BY DEF SyncCommand
  <1> DEFINE m == Merged(w, seen)
  <1>3. seen \in SUBSET (0 .. Len(leaves) - 1)
    BY <1>1 DEF Scans, FilesType
  <1>4. mirror[w] \in Seq(Note) /\ leaves \in Seq(Note)
    BY <1>1 DEF FilesType, TypeOK
  <1>5. /\ m \in Seq(Note) /\ Len(mirror[w]) <= Len(m)
        /\ \A i \in 1 .. Len(mirror[w]) : m[i] = mirror[w][i]
    BY <1>3, <1>4, MergedExtends
  <1>6. mirror'[w] = m /\ notes'[w] = notes[w] /\ cmd'[w].pc = "reindex"
    BY <1>1, <1>2 DEF FilesType, SyncCommand
  <1> HIDE DEF m
  <1>7. AllHeld(m, notes[w])
    BY <1>4, <1>5, HeldByMore DEF ListedOK
  <1>8. \E final \in Seq(Note) : WillHold(m, final, Todo(cmd'[w]))
    BY <1>5, <1>6, NothingHolds, NothingToDo
  <1> QED
    BY <1>6, <1>7, <1>8 DEF ListedOK

\* The second write of sync: a note goes where the mirror has it, or stays.
LEMMA ReindexKeepsListed ==
  ASSUME CliInv, NEW w \in Wallets, Reindex(w), ListedOK(w)
  PROVE  ListedOK(w)'
  <1> DEFINE m == mirror[w]
             stored == notes[w]
             Places(k) == {i \in 1 .. Len(m) : m[i] = stored[k].note}
             Place(k) == IF Places(k) # {} THEN Min(Places(k)) ELSE 0
             After(k) == IF Place(k) = 0 THEN stored[k]
                         ELSE [stored[k] EXCEPT !.leafIndex = Place(k) - 1]
  <1>1. FilesType /\ WalletOK(w)
    BY DEF CliInv
  <1>2. m \in Seq(Note) /\ stored \in Seq(StoredNote)
    BY <1>1 DEF FilesType
  <1>3. mirror' = mirror /\ notes'[w] = Reindexed(stored, m) /\ cmd'[w].pc # "record"
    BY <1>1 DEF Reindex, FilesType, WalletOK, CmdOK
  <1>4. Reindexed(stored, m) = [k \in DOMAIN stored |-> After(k)]
    BY DEF Reindexed, SelectInSeq
  <1>5. ASSUME NEW k \in DOMAIN stored PROVE Holds(m, After(k).leafIndex, After(k).note)
    <2>1. stored[k] \in StoredNote
      BY <1>2
    <2>2. CASE Places(k) = {}
      BY <2>2 DEF ListedOK, AllHeld
    <2>3. CASE Places(k) # {}
      <3>1. Places(k) \in SUBSET Nat
        OBVIOUS
      <3>2. Min(Places(k)) \in Places(k)
        <4> HIDE DEF Places
        <4> QED
          BY <2>3, <3>1, MinIsOne
      <3>3. Place(k) \in 1 .. Len(m) /\ m[Place(k)] = stored[k].note
        BY <2>3, <3>2
      <3>4. Len(m) \in Nat /\ DOMAIN m = 1 .. Len(m)
        BY <1>2
      <3> HIDE DEF Place, m, stored
      <3>5. Place(k) # 0 /\ Place(k) - 1 + 1 = Place(k)
        BY <3>3, <3>4
      <3>6. After(k).leafIndex = Place(k) - 1 /\ After(k).note = stored[k].note
        BY <2>1, <3>5 DEF StoredNote
      <3> HIDE DEF After
      <3> QED
        BY <3>3, <3>4, <3>5, <3>6 DEF Holds
    <2> QED
      BY <2>2, <2>3
  <1> HIDE DEF After, m, stored
  <1>6. AllHeld(m, Reindexed(stored, m))
    BY <1>4, <1>5 DEF AllHeld
  <1>7. \E final \in Seq(Note) : WillHold(m, final, Todo(cmd'[w]))
    BY <1>2, <1>3, NothingHolds, NothingToDo
  <1> QED
    BY <1>3, <1>6, <1>7 DEF ListedOK, m, stored

\* A note that is listed next is in the mirror already.
LEMMA NextIsHeld ==
  ASSUME NEW m \in Seq(Note), NEW final \in Seq(Note), NEW todo \in Seq(WriteSet),
         todo # <<>>, WillHold(m, final, todo), Head(todo).op = "addNote"
  PROVE  Holds(m, Head(todo).index, Head(todo).note)
  <1> DEFINE behind == Len(final) - Len(m)
  <1>1. Len(m) \in Nat /\ Len(final) \in Nat /\ Len(todo) \in Nat
    OBVIOUS
  <1>2. Head(todo) = todo[1] /\ 1 \in DOMAIN todo /\ DOMAIN todo = 1 .. Len(todo)
    BY TodoSplits
  <1>3. behind >= 0 /\ \A i \in 1 .. Len(m) : m[i] = final[i]
    BY DEF WillHold, MirrorFollows
  <1>4. \A j \in DOMAIN todo : todo[j].op # "appendLeaf"
    <2> SUFFICES ASSUME NEW j \in DOMAIN todo, todo[j].op = "appendLeaf" PROVE FALSE
      OBVIOUS
    <2>1. j < 1
      BY <1>2 DEF WillHold
    <2> QED
      BY <1>2, <2>1
  <1>5. PICK first \in 1 .. Len(todo) + 1 :
          /\ first + behind <= Len(todo) + 1
          /\ \A k \in 1 .. Len(todo) :
               IF first <= k /\ k < first + behind
                 THEN /\ todo[k].op = "appendLeaf"
                      /\ todo[k].note = final[Len(m) + 1 + (k - first)]
                 ELSE todo[k].op # "appendLeaf"
    BY DEF WillHold, MirrorFollows
  <1>6. behind = 0
    <2> SUFFICES ASSUME behind > 0 PROVE FALSE
      BY <1>1, <1>3
    <2>1. first \in 1 .. Len(todo) /\ first <= first /\ first < first + behind
      BY <1>1, <1>5
    <2> HIDE DEF behind
    <2> QED
      BY <1>2, <1>4, <1>5, <2>1
  <1>7. Len(m) = Len(final) /\ DOMAIN m = 1 .. Len(m) /\ DOMAIN final = 1 .. Len(final)
    BY <1>1, <1>6
  <1>8. Holds(final, Head(todo).index, Head(todo).note)
    BY <1>2 DEF WillHold
  <1> QED
    BY <1>3, <1>7, <1>8 DEF Holds

\* One file write of a command.
LEMMA RecordKeepsListed ==
  ASSUME CliInv, CliInv', NEW w \in Wallets, Record(w), ListedOK(w)
  PROVE  ListedOK(w)'
  <1> DEFINE todo == cmd[w].todo
             write == Head(todo)
             m == mirror[w]
             ns == notes[w]
  <1>1. FilesType /\ WalletOK(w)
    BY DEF CliInv
  <1>2. m \in Seq(Note) /\ ns \in Seq(StoredNote) /\ mirror'[w] \in Seq(Note)
    BY <1>1 DEF FilesType, CliInv
  <1>3. cmd[w].pc = "record" /\ todo \in Seq(WriteSet) /\ todo # <<>>
    BY <1>1 DEF Record, WalletOK, CmdOK
  <1>4. /\ mirror'[w] = IF write.op # "appendLeaf" THEN m ELSE Append(m, write.note)
        /\ ListedAfter(ns, write, notes'[w])
    BY <1>1, RecordIs
  <1>5. Todo(cmd[w]) = todo /\ Todo(cmd'[w]) = Tail(todo)
    BY <1>1, <1>3, RecordTodo
  <1> HIDE DEF todo, m, ns
  <1>6. PICK final \in Seq(Note) : WillHold(m, final, todo)
    BY <1>5 DEF ListedOK, m
  <1>7. /\ write = todo[1] /\ write \in WriteSet
        /\ \A k \in DOMAIN Tail(todo) : k + 1 \in DOMAIN todo /\ Tail(todo)[k] = todo[k + 1]
    BY <1>3, TodoSplits
  <1>8. WillHold(mirror'[w], final, Tail(todo))
    <2>1. MirrorFollows(mirror'[w], final, Tail(todo))
      BY <1>2, <1>3, <1>4, <1>6, RecordMirror DEF WillHold
    <2>2. ASSUME NEW k \in DOMAIN Tail(todo), Tail(todo)[k].op = "addNote"
          PROVE  /\ Holds(final, Tail(todo)[k].index, Tail(todo)[k].note)
                 /\ \A j \in DOMAIN Tail(todo) : Tail(todo)[j].op = "appendLeaf" => j < k
      <3>1. Holds(final, Tail(todo)[k].index, Tail(todo)[k].note)
        BY <1>6, <1>7, <2>2 DEF WillHold
      <3>2. ASSUME NEW j \in DOMAIN Tail(todo), Tail(todo)[j].op = "appendLeaf" PROVE j < k
        <4>1. j + 1 < k + 1
          BY <1>6, <1>7, <2>2, <3>2 DEF WillHold
        <4>2. j \in Nat /\ k \in Nat
          <5>1. Tail(todo) \in Seq(WriteSet)
            BY <1>3
          <5>2. DOMAIN Tail(todo) \subseteq Nat
            BY <5>1
          <5> QED
            BY <5>2
        <4> QED
          BY <4>1, <4>2
      <3> QED
        BY <3>1, <3>2
    <2> QED
      BY <2>1, <2>2 DEF WillHold
  <1>9. AllHeld(mirror'[w], ns)
    <2>1. Len(m) <= Len(mirror'[w]) /\ \A i \in 1 .. Len(m) : mirror'[w][i] = m[i]
      <3>1. CASE write.op # "appendLeaf"
        BY <1>2, <1>4, <3>1
      <3>2. CASE write.op = "appendLeaf"
        <4>1. write.note \in Note
          BY <1>7, <3>2 DEF WriteSet
        <4>2. mirror'[w] = Append(m, write.note)
          BY <1>4, <3>2
        <4> HIDE DEF write
        <4> QED
          BY <1>2, <4>1, <4>2
      <3> QED
        BY <3>1, <3>2
    <2> QED
      BY <1>2, <2>1, HeldByMore DEF ListedOK, m, ns
  <1>10. AllHeld(mirror'[w], notes'[w])
    <2> SUFFICES ASSUME NEW k \in DOMAIN notes'[w]
                 PROVE  Holds(mirror'[w], notes'[w][k].leafIndex, notes'[w][k].note)
      BY DEF AllHeld
    <2> HIDE DEF write
    <2>1. CASE k \in DOMAIN ns
      <3>1. notes'[w][k].note = ns[k].note /\ notes'[w][k].leafIndex = ns[k].leafIndex
        BY <1>2, <1>4, <1>7, <2>1, ListedAfterWrite
      <3> QED
        BY <1>9, <2>1, <3>1 DEF AllHeld
    <2>2. CASE k \notin DOMAIN ns
      <3>1. /\ write.op = "addNote"
            /\ notes'[w][k].note = write.note /\ notes'[w][k].leafIndex = write.index
        BY <1>2, <1>4, <1>7, <2>2, ListedAfterWrite
      <3>2. Holds(m, write.index, write.note)
        BY <1>2, <1>3, <1>6, <3>1, NextIsHeld DEF write
      <3>3. mirror'[w] = m
        BY <1>4, <3>1
      <3> QED
        BY <3>1, <3>2, <3>3
    <2> QED
      BY <2>1, <2>2
  <1> QED
    BY <1>2, <1>5, <1>8, <1>10 DEF ListedOK

\* Any mirror is listed by some notes, so the writes of a command extend it.
LEMMA SomeList ==
  ASSUME NEW m \in Seq(Note)
  PROVE  \E ns : NotesFollow(ns, m, <<>>)
  <1> DEFINE ns == [k \in 1 .. Len(m) |-> [leafIndex |-> k - 1, note |-> m[k]]]
  <1>1. DOMAIN m = 1 .. Len(m) /\ Len(m) \in Nat
    OBVIOUS
  <1>2. \A k \in 1 .. Len(m) : ns[k].leafIndex = k - 1 /\ ns[k].note = m[k] /\ k - 1 + 1 = k
    OBVIOUS
  <1>3. DOMAIN ns = 1 .. Len(m)
    OBVIOUS
  <1> HIDE DEF ns
  <1>4. NotesFollow(ns, m, <<>>)
    BY <1>1, <1>2, <1>3 DEF NotesFollow, Holds
  <1> QED
    BY <1>4

\* The writes after a transaction extend the mirror of their own wallet.
LEMMA WritesHold ==
  ASSUME CliInv, CliInv', NEW w \in Wallets, NEW tx \in inflight[w], Call(w, tx)
  PROVE  \E final \in Seq(Note) : WillHold(mirror[w], final, Writes(w, tx))
  <1> DEFINE m == mirror[w]
             todo == Writes(w, tx)
  <1>1. m \in Seq(Note) /\ leaves \in Seq(Note) /\ leaves' \in Seq(Note)
    BY DEF CliInv, FilesType, TypeOK
  <1>2. PICK ns : NotesFollow(ns, m, <<>>)
    BY <1>1, SomeList
  <1>3. tx.kind \in {"shield", "unshield", "swap"}
    BY DEF CliInv, WalletOK, TxOK
  <1>4. CASE tx.kind = "shield"
    <2> DEFINE note == ShieldCommitment(tx.amount, OwnerPk(w), tx.rho)
               final == Append(m, note)
               a == LeafWrite(note)
               b == NoteWrite(note, Len(m))
    <2>1. leaves' = Append(leaves, note)
      BY <1>4, ShieldEffect
    <2>2. todo = ShieldWrites(note, Len(m))
      BY <1>4 DEF Writes
    <2>3. todo = <<a, b>> /\ a.op = "appendLeaf" /\ b.op = "addNote"
      BY <2>2 DEF ShieldWrites, LeafWrite, NoteWrite
    <2> HIDE DEF note, todo, m
    <2>4. note \in Note
      <3>1. leaves'[Len(leaves) + 1] = note /\ Len(leaves) + 1 \in DOMAIN leaves'
        BY <1>1, <2>1
      <3> QED
        BY <1>1, <3>1
    <2>5. MirrorFollows(m, final, todo) /\ NotesFollow(ns, final, todo) /\ final \in Seq(Note)
      BY <1>1, <1>2, <2>2, <2>4, ShieldFollows
    <2> HIDE DEF final, a, b
    <2>6. DOMAIN todo = {1, 2} /\ todo[1] = a /\ todo[2] = b
      BY <2>3
    <2>7. \A j, k \in DOMAIN todo :
            todo[k].op = "addNote" /\ todo[j].op = "appendLeaf" => j < k
      BY <2>3, <2>6
    <2>8. WillHold(m, final, todo)
      BY <2>5, <2>7 DEF WillHold, NotesFollow
    <2> QED
      BY <2>5, <2>8 DEF m, todo
  <1>5. CASE tx.kind = "unshield"
    <2> DEFINE a == SpentWrite(tx.input)
    <2>1. todo = <<a>> /\ a.op = "markSpent"
      BY <1>5 DEF Writes, SpentWrite
    <2>2. MirrorFollows(m, m, todo)
      <3> HIDE DEF m, todo
      <3> QED
        BY <1>1, <1>2, <2>1, UnshieldFollows
    <2> HIDE DEF todo, m, a
    <2>3. DOMAIN todo = {1} /\ todo[1] = a
      BY <2>1
    <2>4. WillHold(m, m, todo)
      BY <2>1, <2>2, <2>3 DEF WillHold
    <2> QED
      BY <1>1, <2>4 DEF m, todo
  <1>6. CASE tx.kind = "swap"
    <2> DEFINE out == SwapOutCommitment(tx.assetOut + 1, tx.witness)
               change == SwapChangeCommitment(tx.witness)
               final == m \o <<out, change>>
               a == SpentWrite(tx.input)
               b == LeafWrite(out)
               c == LeafWrite(change)
               d == NoteWrite(out, Len(m))
               e == NoteWrite(change, Len(m) + 1)
    <2>1. leaves' = leaves \o <<out, change>>
      BY <1>6, SwapEffect
    <2>2. todo = SwapWrites(tx.input, out, change, Len(m))
      BY <1>6 DEF Writes
    <2>3. /\ todo = <<a, b, c, d, e>>
          /\ a.op = "markSpent" /\ b.op = "appendLeaf" /\ c.op = "appendLeaf"
          /\ d.op = "addNote" /\ e.op = "addNote"
      BY <2>2 DEF SwapWrites, SpentWrite, LeafWrite, NoteWrite
    <2> HIDE DEF out, change, todo, m
    <2>4. out \in Note /\ change \in Note
      <3>1. /\ leaves'[Len(leaves) + 1] = out /\ Len(leaves) + 1 \in DOMAIN leaves'
            /\ leaves'[Len(leaves) + 2] = change /\ Len(leaves) + 2 \in DOMAIN leaves'
        BY <1>1, <2>1
      <3> QED
        BY <1>1, <3>1
    <2>5. LET writes == SwapWrites(tx.input, out, change, Len(m))
          IN  MirrorFollows(m, final, writes) /\ NotesFollow(ns, final, writes)
      BY <1>1, <1>2, <2>4, SwapFollows, SMTT(60)
    <2>6. final \in Seq(Note)
      BY <1>1, <2>4
    <2> HIDE DEF final, a, b, c, d, e
    <2>7. /\ DOMAIN todo = {1, 2, 3, 4, 5}
          /\ todo[1] = a /\ todo[2] = b /\ todo[3] = c /\ todo[4] = d /\ todo[5] = e
      BY <2>3
    <2>8. \A j, k \in DOMAIN todo :
            todo[k].op = "addNote" /\ todo[j].op = "appendLeaf" => j < k
      BY <2>3, <2>7
    <2>9. WillHold(m, final, todo)
      BY <2>2, <2>5, <2>8 DEF WillHold, NotesFollow
    <2> QED
      BY <2>6, <2>9 DEF m, todo
  <1> QED
    BY <1>3, <1>4, <1>5, <1>6

\* The transaction of a command that waits is executed.
LEMMA ExecuteKeepsListed ==
  ASSUME CliInv, CliInv', NEW v \in Wallets, NEW w \in Wallets, Execute(v), ListedOK(w)
  PROVE  ListedOK(w)'
  <1>1. FilesType
    BY DEF CliInv
  <1>2. PICK tx \in inflight[v] :
          Call(v, tx) /\ Answer(v, tx, [pc |-> "record", todo |-> Writes(v, tx)])
    BY DEF Execute
  <1>3. mirror' = mirror /\ notes' = notes
    BY DEF Execute
  <1>4. \/ cmd'[w] = cmd[w]
        \/ w = v /\ cmd'[w] = [pc |-> "record", todo |-> Writes(v, tx)]
    BY <1>1, <1>2 DEF Answer, FilesType
  <1>5. \E final \in Seq(Note) : WillHold(mirror[w], final, Todo(cmd'[w]))
    <2>1. CASE cmd'[w] = cmd[w]
      BY <2>1 DEF ListedOK
    <2>2. CASE w = v /\ cmd'[w] = [pc |-> "record", todo |-> Writes(v, tx)]
      <3>1. Todo(cmd'[w]) = Writes(v, tx)
        BY <2>2 DEF Todo
      <3> QED
        BY <1>2, <2>2, <3>1, WritesHold
    <2> QED
      BY <1>4, <2>1, <2>2
  <1> QED
    BY <1>3, <1>5 DEF ListedOK

\* Every step keeps what the files of a wallet say of each other.
LEMMA ListedStep ==
  ASSUME CliInv, CliInv', CliNext, NEW w \in Wallets, ListedOK(w)
  PROVE  ListedOK(w)'
  <1>1. FilesType
    BY DEF CliInv
  <1>2. CASE Admin \/ Other
    <2>1. UNCHANGED <<mirror, notes, cmd>>
      BY <1>2 DEF Admin, Other, walletVars
    <2> QED
      BY <2>1 DEF ListedOK
  <1>3. ASSUME NEW v \in Wallets, NEW c, UNCHANGED <<mirror, notes>>,
               c.pc # "record" \/ c = cmd[v], cmd' = [cmd EXCEPT ![v] = c]
        PROVE  ListedOK(w)'
    BY <1>1, <1>3, CommandKeepsListed
  <1>4. ASSUME NEW v \in Wallets,
               Throw(v) \/ ThrowAtOnce(v) \/ Interrupt(v) \/ StopWaiting(v) \/ Crash(v)
        PROVE  ListedOK(w)'
    <2>1. /\ UNCHANGED <<mirror, notes>>
          /\ cmd' = [cmd EXCEPT ![v] = Idle] \/ cmd' = [cmd EXCEPT ![v] = Thrown]
      BY <1>4 DEF Throw, ThrowAtOnce, Interrupt, StopWaiting, Crash
    <2>2. Idle.pc # "record" /\ Thrown.pc # "record"
      BY DEF Idle, Thrown
    <2> QED
      BY <1>3, <2>1, <2>2
  <1>5. ASSUME NEW v \in Wallets, NEW tx, Send(v, tx), UNCHANGED <<mirror, notes>>
        PROVE  ListedOK(w)'
    <2> DEFINE c == [pc |-> "wait", tx |-> tx]
    <2>1. cmd' = [cmd EXCEPT ![v] = c] /\ c.pc # "record"
      BY <1>5 DEF Send
    <2> HIDE DEF c
    <2> QED
      BY <1>3, <1>5, <2>1
  <1>6. ASSUME NEW v \in Wallets, NEW amount \in Amounts, ShieldCommand(v, amount)
        PROVE  ListedOK(w)'
    BY <1>5, <1>6 DEF ShieldCommand
  <1>7. ASSUME NEW v \in Wallets, NEW next, SyncCommand(v, next) PROVE ListedOK(w)'
    <2>1. CASE v = w
      BY <1>7, <2>1, SyncKeepsListed
    <2>2. CASE v # w
      <3>1. mirror'[w] = mirror[w] /\ notes'[w] = notes[w] /\ cmd'[w] = cmd[w]
        BY <1>1, <1>7, <2>2 DEF SyncCommand, FilesType
      <3> QED
        BY <3>1 DEF ListedOK
    <2> QED
      BY <2>1, <2>2
  <1>8. ASSUME NEW v \in Wallets, Reindex(v) PROVE ListedOK(w)'
    <2>1. CASE v = w
      BY <1>8, <2>1, ReindexKeepsListed
    <2>2. CASE v # w
      <3>1. mirror'[w] = mirror[w] /\ notes'[w] = notes[w] /\ cmd'[w] = cmd[w]
        BY <1>1, <1>8, <2>2 DEF Reindex, FilesType
      <3> QED
        BY <3>1 DEF ListedOK
    <2> QED
      BY <2>1, <2>2
  <1>9. ASSUME NEW v \in Wallets, Record(v) PROVE ListedOK(w)'
    <2>1. CASE v = w
      BY <1>9, <2>1, RecordKeepsListed
    <2>2. CASE v # w
      <3>1. /\ cmd[v].todo \in Seq(WriteSet) /\ cmd[v].todo # <<>>
        BY <1>9 DEF Record, CliInv, WalletOK, CmdOK
      <3>2. Head(cmd[v].todo).op \in {"appendLeaf", "addNote", "markSpent"}
        <4>1. Head(cmd[v].todo) \in WriteSet
          BY <3>1
        <4> QED
          BY <4>1 DEF WriteSet
      <3>3. mirror'[w] = mirror[w] /\ notes'[w] = notes[w] /\ cmd'[w] = cmd[w]
        BY <1>1, <1>9, <2>2, <3>2 DEF Record, FilesType
      <3> QED
        BY <3>3 DEF ListedOK
    <2> QED
      BY <2>1, <2>2
  <1>10. ASSUME NEW v \in Wallets, NEW assetOut, NEW amountIn, SwapQuote(v, assetOut, amountIn)
         PROVE  ListedOK(w)'
    <2>1. PICK trade : LET c == [pc |-> "quoted", input |-> notes[v][FirstUnspent(v)],
                                 assetOut |-> assetOut, trade |-> trade]
                       IN  cmd' = [cmd EXCEPT ![v] = c]
      BY <1>10 DEF SwapQuote
    <2> DEFINE c == [pc |-> "quoted", input |-> notes[v][FirstUnspent(v)],
                     assetOut |-> assetOut, trade |-> trade]
    <2>2. cmd' = [cmd EXCEPT ![v] = c] /\ c.pc # "record" /\ UNCHANGED <<mirror, notes>>
      BY <1>10, <2>1 DEF SwapQuote
    <2> HIDE DEF c
    <2> QED
      BY <1>3, <2>2
  <1>11. ASSUME NEW v \in Wallets, SwapSend(v) PROVE ListedOK(w)'
    BY <1>5, <1>11 DEF SwapSend
  <1>12. ASSUME NEW v \in Wallets, NEW to, UnshieldSend(v, to) PROVE ListedOK(w)'
    BY <1>5, <1>12 DEF UnshieldSend
  <1>13. ASSUME NEW v \in Wallets, Fail(v) \/ Expire(v) PROVE ListedOK(w)'
    <2>1. PICK tx : Answer(v, tx, Thrown)
      BY <1>13 DEF Fail, Expire
    <2> DEFINE c == IF cmd[v].pc = "wait" /\ cmd[v].tx = tx THEN Thrown ELSE cmd[v]
    <2>2. cmd' = [cmd EXCEPT ![v] = c]
      BY <2>1 DEF Answer
    <2>3. c.pc # "record" \/ c = cmd[v]
      BY DEF Thrown
    <2>4. UNCHANGED <<mirror, notes>>
      BY <1>13 DEF Fail, Expire
    <2> HIDE DEF c
    <2> QED
      BY <1>3, <2>2, <2>3, <2>4
  <1>14. ASSUME NEW v \in Wallets, Client(v) PROVE ListedOK(w)'
    BY <1>4, <1>8, <1>9, <1>10, <1>11, <1>12, <1>14 DEF Client
  <1>15. ASSUME NEW v \in Wallets, Ledger(v) PROVE ListedOK(w)'
    BY <1>13, <1>15, ExecuteKeepsListed DEF Ledger
  <1> QED
    BY <1>2, <1>4, <1>6, <1>7, <1>14, <1>15 DEF CliNext

\* Nothing is listed yet.
LEMMA ListedInit == CliInit => \A w \in Wallets : ListedOK(w)
  <1> SUFFICES ASSUME CliInit, NEW w \in Wallets PROVE ListedOK(w)
    OBVIOUS
  <1>1. mirror[w] = <<>> /\ notes[w] = <<>> /\ cmd[w] = Idle
    BY DEF CliInit
  <1>2. Todo(cmd[w]) = <<>>
    BY <1>1, NothingToDo DEF Idle
  <1>3. \E final \in Seq(Note) : WillHold(mirror[w], final, <<>>)
    <2>1. mirror[w] \in Seq(Note)
      BY <1>1
    <2> QED
      BY <2>1, NothingHolds
  <1> QED
    BY <1>1, <1>2, <1>3 DEF ListedOK, AllHeld

(***************************************************************************)
(* Whatever is killed between two writes, fails, expires or is inserted by *)
(* others: a note that a wallet lists is in its mirror, at the index that  *)
(* it is listed with.                                                      *)
(***************************************************************************)
THEOREM ListedAreMirrored == CliSpec => []ListedNotesAreMirrored
  <1> DEFINE AllListed == \A w \in Wallets : ListedOK(w)
  <1>1. AllListed /\ CliInv => ListedNotesAreMirrored
    <2> SUFFICES ASSUME AllListed, CliInv, NEW w \in Wallets, NEW k \in DOMAIN notes[w]
                 PROVE  /\ notes[w][k].leafIndex < Len(mirror[w])
                        /\ mirror[w][notes[w][k].leafIndex + 1] = notes[w][k].note
      BY DEF ListedNotesAreMirrored
    <2>1. mirror[w] \in Seq(Note) /\ notes[w] \in Seq(StoredNote)
      BY DEF CliInv, FilesType
    <2>2. notes[w][k] \in StoredNote
      BY <2>1
    <2>3. Holds(mirror[w], notes[w][k].leafIndex, notes[w][k].note)
      BY DEF ListedOK, AllHeld
    <2>4. Len(mirror[w]) \in Nat /\ DOMAIN mirror[w] = 1 .. Len(mirror[w])
      BY <2>1
    <2>5. notes[w][k].leafIndex \in Nat
      BY <2>2 DEF StoredNote
    <2> QED
      BY <2>3, <2>4, <2>5 DEF Holds
  <1>2. AllListed /\ CliInv /\ CliInv' /\ [CliNext]_cliVars => AllListed'
    <2> SUFFICES ASSUME AllListed, CliInv, CliInv', [CliNext]_cliVars, NEW w \in Wallets
                 PROVE  ListedOK(w)'
      OBVIOUS
    <2>1. CASE CliNext
      BY <2>1, ListedStep
    <2>2. CASE UNCHANGED cliVars
      BY <2>2 DEF cliVars, ListedOK
    <2> QED
      BY <2>1, <2>2
  <1>3. CliInit => AllListed
    BY ListedInit
  <1> HIDE DEF AllListed
  <1> QED
    BY <1>1, <1>2, <1>3, CliInvAlways, PTL DEF CliSpec
=============================================================================
