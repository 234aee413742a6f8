------------------------------ MODULE ShieldCli -----------------------------
(***************************************************************************)
(* cli/src: the wallets of the command line, over the pool contract.       *)
(*                                                                         *)
(* A wallet is two files, leaves.json and notes.json, and at most one      *)
(* command at a time.  A command reads the chain, proves, sends a          *)
(* transaction, waits for it, and then records it in one file write after  *)
(* the other; it can be killed between any two of them.  Transactions take *)
(* effect when the ledger executes them, whatever became of the command.   *)
(* Other clients use the same pool.                                        *)
(***************************************************************************)
EXTENDS ShieldedPool
LOCAL INSTANCE SequencesExt

CONSTANTS
    Wallets,        \* the wallets; others hold the rest of SpendKeys and Users
    ZERO32,         \* the screening reference that the CLI always passes
    SwapAmounts,    \* values of `swap --amount`
    Recipients,     \* values of `unshield --to`
    ScanMisses,     \* whether a scan may miss events
    MaxOthers,      \* bound on the calls of other clients
    MaxTimeouts,    \* bound on commands that stop waiting for a transaction
    MaxCrashes,     \* bound on commands that are killed
    MaxDisturbances \* bound on the three together

\* A wallet is named by its spending key and owns one Stellar account.
ASSUME CliAssumption ==
    /\ Wallets \subseteq SpendKeys \cap Users
    /\ ZERO32 \in Refs
    /\ SwapAmounts \subseteq Nat \ {0} /\ Recipients \subseteq Users
    /\ ScanMisses \in BOOLEAN
    /\ MaxOthers \in Nat /\ MaxTimeouts \in Nat /\ MaxCrashes \in Nat
    /\ MaxDisturbances \in Nat

VARIABLES
    mirror,     \* leaves.json of each wallet
    notes,      \* notes.json of each wallet
    cmd,        \* the running command of each wallet
    inflight,   \* transactions of each wallet that the ledger may still execute
    events,     \* indices of the leaves that shield events report
    drawn,      \* randomness used so far: randFr never repeats
    others, timeouts, crashes   \* how many there were

walletVars == <<mirror, notes, cmd, inflight>>
cliVars == <<poolVars, mirror, notes, cmd, inflight, events, drawn,
             others, timeouts, crashes>>

Idle == [pc |-> "idle"]

(***************************************************************************)
(* The process of a command that threw: index.ts:689-692 prints and sets   *)
(* the exit code, but only a command that succeeds closes the worker pool  *)
(* that "keeps Node alive" (prover.ts:280-283, crypto.ts:4-7).             *)
(***************************************************************************)
Thrown == [pc |-> "thrown"]

CliInit ==
    /\ Init
    /\ mirror = [w \in Wallets |-> <<>>]
    /\ notes = [w \in Wallets |-> <<>>]
    /\ cmd = [w \in Wallets |-> Idle]
    /\ inflight = [w \in Wallets |-> {}]
    /\ events = {}
    /\ drawn = {}
    /\ others = 0 /\ timeouts = 0 /\ crashes = 0

-----------------------------------------------------------------------------
(* Transactions.                                                           *)

ShieldTx(amount, rho) == [kind |-> "shield", amount |-> amount, rho |-> rho]

UnshieldTx(note, slot, to) ==
    [kind |-> "unshield", input |-> note, root |-> tree, slot |-> slot, to |-> to]

SwapTx(note, witness, assetOut) ==
    [kind |-> "swap", input |-> note, root |-> tree, witness |-> witness,
     assetOut |-> assetOut]

(***************************************************************************)
(* What the ledger does with a transaction.  A swap is proved for the root *)
(* of its time and verified with the current one.  The CLI passes a fee of *)
(* 0 and nullifiers as toBE32 writes them, below the modulus.              *)
(***************************************************************************)
Call(w, tx) ==
    \/ /\ tx.kind = "shield"
       /\ Shield(w, tx.amount, OwnerPk(w), tx.rho, ZERO32)
    \/ /\ tx.kind = "unshield"
       /\ Unshield(tx.root, tx.slot, w, tx.input.rho, tx.input.amount, tx.to, 0, 0)
    \/ /\ tx.kind = "swap"
       /\ tx.root = tree
       /\ PrivateSwap(tx.witness, tx.assetOut, 0, 0)

\* prepareTransaction simulates a call and throws unless it succeeds.
Simulates(w, tx) == ENABLED Call(w, tx)

\* The file writes that follow a successful transaction, in order; `next` is
\* the length of the mirror, which appendLeaf returns.
LeafWrite(note) == [op |-> "appendLeaf", note |-> note]
NoteWrite(note, index) == [op |-> "addNote", note |-> note, index |-> index]
SpentWrite(note) == [op |-> "markSpent", note |-> note]

\* Mutant: the note is recorded before its leaf.
ShieldWritesNoteFirst(note, next) == <<NoteWrite(note, next), LeafWrite(note)>>

ShieldWrites(note, next) == <<LeafWrite(note), NoteWrite(note, next)>>

\* Mutant: the two leaves are recorded in the wrong order.
SwapWritesReversed(input, out, change, next) ==
    <<SpentWrite(input), LeafWrite(change), LeafWrite(out),
      NoteWrite(change, next), NoteWrite(out, next + 1)>>

\* Mutant: the change is not recorded.
SwapWritesWithoutChange(input, out, change, next) ==
    <<SpentWrite(input), LeafWrite(out), NoteWrite(out, next)>>

SwapWrites(input, out, change, next) ==
    <<SpentWrite(input), LeafWrite(out), LeafWrite(change),
      NoteWrite(out, next), NoteWrite(change, next + 1)>>

Writes(w, tx) ==
    CASE tx.kind = "shield" ->
           ShieldWrites(ShieldCommitment(tx.amount, OwnerPk(w), tx.rho), Len(mirror[w]))
      [] tx.kind = "unshield" -> <<SpentWrite(tx.input)>>
      [] tx.kind = "swap" ->
           SwapWrites(tx.input, SwapOutCommitment(tx.assetOut + 1, tx.witness),
                      SwapChangeCommitment(tx.witness), Len(mirror[w]))

-----------------------------------------------------------------------------
(* The wallet's files.                                                     *)

\* scanShieldLeaves looks back 17000 ledgers and reads 2000 events: the oldest
\* and the newest ones may be missing from what it returns.
Scans ==
    IF ScanMisses
      THEN {{i \in events : first <= i /\ i < last} : first, last \in 0 .. nextIndex}
      ELSE {events}

\* Mutant: indices without a known leaf are skipped over.
MergedWithHoles(w, seen) ==
    [i \in DOMAIN leaves \cup DOMAIN mirror[w] |->
        IF i \in DOMAIN mirror[w] THEN mirror[w][i]
        ELSE IF i - 1 \in seen THEN leaves[i] ELSE Empty]

\* Mutant: the mirror is rebuilt from the events alone.
MergedFromEvents(w, seen) ==
    LET gap == CHOOSE i \in 0 .. Len(leaves) :
                 i \notin seen /\ \A j \in 0 .. i - 1 : j \in seen
    IN  SubSeq(leaves, 1, gap)

(***************************************************************************)
(* Shield events fill the indices the mirror lacks; leaves of swaps are in *)
(* no event.  Only the part up to the first gap is kept, and what the      *)
(* mirror already holds is never replaced.                                 *)
(***************************************************************************)
Merged(w, seen) ==
    LET Known(i) == i < Len(mirror[w]) \/ i \in seen
        gap == CHOOSE i \in 0 .. Len(mirror[w]) + Len(leaves) :
                 ~Known(i) /\ \A j \in 0 .. i - 1 : Known(j)
    IN  [i \in 1 .. gap |-> IF i <= Len(mirror[w]) THEN mirror[w][i] ELSE leaves[i]]

\* A note's index is where its commitment first occurs in the mirror.
Reindexed(stored, commitments) ==
    [k \in DOMAIN stored |->
        LET index == SelectInSeq(commitments, LAMBDA c : c = stored[k].note) IN
        IF index = 0 THEN stored[k] ELSE [stored[k] EXCEPT !.leafIndex = index - 1]]

\* firstUnspent(COLLATERAL): its place in notes.json, or 0.
FirstUnspent(w) ==
    SelectInSeq(notes[w], LAMBDA n : n.note.asset = COLLATERAL /\ ~n.spent)

(***************************************************************************)
(* buildTree, pathFor and the circuit's membership constraint: the mirror's*)
(* siblings of the note lead from the note to the current root.            *)
(***************************************************************************)
PathLeadsToRoot(w, n) ==
    /\ n.leafIndex < Len(mirror[w])
    /\ Len(mirror[w]) <= Capacity
    /\ tree = [s \in Slots |-> IF s = n.leafIndex THEN n.note
                               ELSE IF s < Len(mirror[w]) THEN mirror[w][s + 1]
                               ELSE Empty]

-----------------------------------------------------------------------------
(* Commands, one step per await after which the chain may have moved.      *)

Fresh == CHOOSE rho \in Rhos : rho \notin drawn
FreshToo == CHOOSE rho \in Rhos : rho \notin drawn \cup {Fresh}

Send(w, tx) ==
    /\ Simulates(w, tx)
    /\ inflight' = [inflight EXCEPT ![w] = @ \cup {tx}]
    /\ cmd' = [cmd EXCEPT ![w] = [pc |-> "wait", tx |-> tx]]

\* The `shield` command: no sync, no read of the tree.
ShieldCommand(w, amount) ==
    /\ cmd[w] = Idle
    /\ drawn # Rhos
    /\ Send(w, ShieldTx(amount, Fresh))
    /\ drawn' = drawn \cup {Fresh}
    /\ UNCHANGED <<poolVars, mirror, notes, events, others, timeouts, crashes>>

\* The `sync` command, and the sync that `swap` and `unshield` start with:
\* saveLeaves and then saveNotes.
SyncCommand(w, next) ==
    /\ cmd[w] = Idle
    /\ \E merged \in {Merged(w, seen) : seen \in Scans} :
         mirror' = [mirror EXCEPT ![w] = merged]
    /\ cmd' = [cmd EXCEPT ![w] = [pc |-> "reindex", next |-> next]]
    /\ UNCHANGED <<poolVars, notes, inflight, events, drawn,
                   others, timeouts, crashes>>

Reindex(w) ==
    /\ cmd[w].pc = "reindex"
    /\ notes' = [notes EXCEPT ![w] = Reindexed(@, mirror[w])]
    /\ cmd' = [cmd EXCEPT ![w] = @.next]
    /\ UNCHANGED <<poolVars, mirror, inflight, events, drawn,
                   others, timeouts, crashes>>

\* `swap` picks its note, reads the reserves and quotes the trade.
SwapQuote(w, assetOut, amountIn) ==
    LET n == notes[w][FirstUnspent(w)]
        reserveIn == reserves[InLeg(assetOut)]
        reserveOut == reserves[OutLeg(assetOut)] IN
    /\ cmd[w] = [pc |-> "swap"]
    /\ FirstUnspent(w) # 0
    /\ QuoteExists(n.note.amount, amountIn, reserveIn, reserveOut)
    /\ cmd' = [cmd EXCEPT ![w] =
         [pc |-> "quoted", input |-> n, assetOut |-> assetOut,
          trade |-> Trade(n.note.amount, amountIn,
                          QuotedOut(amountIn, reserveIn, reserveOut),
                          <<reserveIn, reserveOut>>)]]
    /\ UNCHANGED <<poolVars, mirror, notes, inflight, events, drawn,
                   others, timeouts, crashes>>

\* `swap` reads the root, proves and sends.
SwapSend(w) ==
    /\ cmd[w].pc = "quoted"
    /\ \E rho, other \in Rhos \ drawn : rho # other
    /\ LET n == cmd[w].input
           witness == [ownerSk |-> w, rhoIn |-> n.note.rho, slot |-> n.leafIndex,
                       rhoOut |-> Fresh, rhoChange |-> FreshToo, trade |-> cmd[w].trade]
       IN  /\ PathLeadsToRoot(w, n)
           /\ Send(w, SwapTx(n.note, witness, cmd[w].assetOut))
    /\ drawn' = drawn \cup {Fresh, FreshToo}
    /\ UNCHANGED <<poolVars, mirror, notes, events, others, timeouts, crashes>>

\* `unshield` picks its note, reads the root, proves and sends.
UnshieldSend(w, to) ==
    LET n == notes[w][FirstUnspent(w)] IN
    /\ cmd[w] = [pc |-> "unshield"]
    /\ FirstUnspent(w) # 0
    /\ PathLeadsToRoot(w, n)
    /\ Send(w, UnshieldTx(n.note, n.leafIndex, to))
    /\ UNCHANGED <<poolVars, mirror, notes, events, drawn, others, timeouts, crashes>>

\* Mutant: submit polls without a deadline.
ThrowWithoutDeadline(w) ==
    /\ \/ cmd[w].pc \in {"swap", "unshield"}
       \/ cmd[w].pc = "quoted" /\ ~ENABLED SwapSend(w)
    /\ cmd' = [cmd EXCEPT ![w] = Thrown]
    /\ UNCHANGED <<poolVars, mirror, notes, inflight, events, drawn,
                   others, timeouts, crashes>>

(***************************************************************************)
(* A command that cannot go on throws.  Before the proof it may always:    *)
(* the options can name an amount that is refused.                         *)
(***************************************************************************)
Throw(w) ==
    /\ \/ cmd[w].pc \in {"swap", "unshield"}
       \/ cmd[w].pc = "quoted" /\ ~ENABLED SwapSend(w)
       \/ cmd[w].pc = "wait" /\ cmd[w].tx \notin inflight[w]
    /\ cmd' = [cmd EXCEPT ![w] = Thrown]
    /\ UNCHANGED <<poolVars, mirror, notes, inflight, events, drawn,
                   others, timeouts, crashes>>

\* A scan or a simulation fails before anything is sent or written.
ThrowAtOnce(w) ==
    /\ cmd[w] = Idle
    /\ cmd' = [cmd EXCEPT ![w] = Thrown]
    /\ UNCHANGED <<poolVars, mirror, notes, inflight, events, drawn,
                   others, timeouts, crashes>>

\* The user ends the process of a command that threw; nothing else does.
Interrupt(w) ==
    /\ cmd[w] = Thrown
    /\ cmd' = [cmd EXCEPT ![w] = Idle]
    /\ UNCHANGED <<poolVars, mirror, notes, inflight, events, drawn,
                   others, timeouts, crashes>>

CanDisturb == others + timeouts + crashes < MaxDisturbances

\* The next file write; the command ends after the last one.
Record(w) ==
    /\ cmd[w].pc = "record"
    /\ LET write == Head(cmd[w].todo) IN
       /\ mirror' = IF write.op # "appendLeaf" THEN mirror
                    ELSE [mirror EXCEPT ![w] = Append(@, write.note)]
       /\ notes' = CASE write.op = "appendLeaf" -> notes
                     [] write.op = "addNote" ->
                          [notes EXCEPT ![w] = Append(@, [note |-> write.note,
                              leafIndex |-> write.index, spent |-> FALSE])]
                     [] write.op = "markSpent" ->
                          [notes EXCEPT ![w] = [k \in DOMAIN @ |->
                              IF @[k].note = write.note THEN [@[k] EXCEPT !.spent = TRUE]
                              ELSE @[k]]]
    /\ cmd' = [cmd EXCEPT ![w] =
         IF Len(@.todo) = 1 THEN Idle
         ELSE [pc |-> "record", todo |-> Tail(@.todo)]]
    /\ UNCHANGED <<poolVars, inflight, events, drawn,
                   others, timeouts, crashes>>

\* submit polls for 90 s; the transaction stays valid for 120 s.
StopWaiting(w) ==
    /\ cmd[w].pc = "wait"
    /\ timeouts < MaxTimeouts /\ CanDisturb
    /\ timeouts' = timeouts + 1
    /\ cmd' = [cmd EXCEPT ![w] = Thrown]
    /\ UNCHANGED <<poolVars, mirror, notes, inflight, events, drawn,
                   others, crashes>>

Crash(w) ==
    /\ cmd[w] \notin {Idle, Thrown}
    /\ crashes < MaxCrashes /\ CanDisturb
    /\ crashes' = crashes + 1
    /\ cmd' = [cmd EXCEPT ![w] = Idle]
    /\ UNCHANGED <<poolVars, mirror, notes, inflight, events, drawn,
                   others, timeouts>>

-----------------------------------------------------------------------------
(* The ledger.  Transactions of one account that wait together carry the   *)
(* same sequence number, so at most one of them is ever executed.          *)

\* The command that waits for tx, if any, goes on as `next`.
Answer(w, tx, next) ==
    cmd' = [cmd EXCEPT ![w] = IF @.pc = "wait" /\ @.tx = tx THEN next ELSE @]

Execute(w) ==
    /\ \E tx \in inflight[w] :
         /\ Call(w, tx)
         /\ inflight' = [inflight EXCEPT ![w] = {}]
         /\ events' = IF tx.kind = "shield" THEN events \cup {nextIndex} ELSE events
         /\ Answer(w, tx, [pc |-> "record", todo |-> Writes(w, tx)])
    /\ UNCHANGED <<mirror, notes, drawn, others, timeouts, crashes>>

\* Mutant: the status of the transaction is not looked at.
FailRecorded(w) ==
    /\ \E tx \in inflight[w] :
         /\ ~ENABLED Call(w, tx)
         /\ inflight' = [inflight EXCEPT ![w] = {}]
         /\ Answer(w, tx, [pc |-> "record", todo |-> Writes(w, tx)])
    /\ UNCHANGED <<poolVars, mirror, notes, events, drawn, others, timeouts, crashes>>

\* The call fails on the ledger: nothing but the sequence number changes.
Fail(w) ==
    /\ \E tx \in inflight[w] :
         /\ ~ENABLED Call(w, tx)
         /\ inflight' = [inflight EXCEPT ![w] = {}]
         /\ Answer(w, tx, Thrown)
    /\ UNCHANGED <<poolVars, mirror, notes, events, drawn, others, timeouts, crashes>>

\* Mutant: a transaction that is never found counts as a success.
ExpireRecorded(w) ==
    /\ \E tx \in inflight[w] :
         /\ inflight' = [inflight EXCEPT ![w] = @ \ {tx}]
         /\ Answer(w, tx, [pc |-> "record", todo |-> Writes(w, tx)])
    /\ UNCHANGED <<poolVars, mirror, notes, events, drawn, others, timeouts, crashes>>

\* The transaction is never included; submit finds nothing and throws.
Expire(w) ==
    /\ \E tx \in inflight[w] :
         /\ inflight' = [inflight EXCEPT ![w] = @ \ {tx}]
         /\ Answer(w, tx, Thrown)
    /\ UNCHANGED <<poolVars, mirror, notes, events, drawn, others, timeouts, crashes>>

(***************************************************************************)
(* Other clients, whose keys and accounts no wallet has, shield and swap   *)
(* what is theirs, at the reserves of the moment.                          *)
(***************************************************************************)
OtherShield(from, sk, amount) ==
    /\ Shield(from, amount, OwnerPk(sk), Fresh, ZERO32)
    /\ drawn' = drawn \cup {Fresh}
    /\ events' = events \cup {nextIndex}

OtherSwap(sk, slot, assetOut, amountIn) ==
    LET note == tree[slot]
        quote == <<reserves[InLeg(assetOut)], reserves[OutLeg(assetOut)]>> IN
    /\ note # Empty
    /\ QuoteExists(note.amount, amountIn, quote[1], quote[2])
    /\ PrivateSwap([ownerSk |-> sk, rhoIn |-> note.rho, slot |-> slot,
                    rhoOut |-> Fresh, rhoChange |-> FreshToo,
                    trade |-> Trade(note.amount, amountIn,
                                    QuotedOut(amountIn, quote[1], quote[2]), quote)],
                   assetOut, 0, 0)
    /\ drawn' = drawn \cup {Fresh, FreshToo}
    /\ UNCHANGED events

Other ==
    /\ others < MaxOthers /\ CanDisturb
    /\ others' = others + 1
    /\ \E sk \in SpendKeys \ Wallets :
         \/ /\ drawn # Rhos
            /\ \E from \in Users \ Wallets, amount \in Amounts : OtherShield(from, sk, amount)
         \/ /\ \E rho, another \in Rhos \ drawn : rho # another
            /\ \E slot \in Slots, assetOut \in {ASSET_YES, ASSET_NO},
                  amountIn \in SwapAmounts :
                 OtherSwap(sk, slot, assetOut, amountIn)
    /\ UNCHANGED <<walletVars, timeouts, crashes>>

Admin ==
    /\ \/ Initialize
       \/ \E seed \in Seeds : SeedReserves(seed[1], seed[2])
       \/ \E isDenied \in BOOLEAN : SetDenied(ZERO32, isDenied)
    /\ UNCHANGED <<mirror, notes, cmd, inflight, events, drawn,
                   others, timeouts, crashes>>

Client(w) ==
    \/ Reindex(w)
    \/ \E assetOut \in {ASSET_YES, ASSET_NO}, amountIn \in SwapAmounts :
         SwapQuote(w, assetOut, amountIn)
    \/ SwapSend(w)
    \/ \E to \in Recipients : UnshieldSend(w, to)
    \/ Throw(w)
    \/ Record(w)

Ledger(w) == Execute(w) \/ Fail(w) \/ Expire(w)

CliNext ==
    \/ Admin
    \/ Other
    \/ \E w \in Wallets :
         \/ \E amount \in Amounts : ShieldCommand(w, amount)
         \/ \E next \in {Idle, [pc |-> "swap"], [pc |-> "unshield"]} : SyncCommand(w, next)
         \/ Client(w)
         \/ ThrowAtOnce(w)
         \/ Interrupt(w)
         \/ StopWaiting(w)
         \/ Crash(w)
         \/ Ledger(w)

CliSpec == CliInit /\ [][CliNext]_cliVars

(***************************************************************************)
(* A running command goes on, and a transaction is executed or expires.    *)
(* Nothing makes the user interrupt a process.                             *)
(***************************************************************************)
FairCliSpec ==
    CliSpec /\ \A w \in Wallets : WF_cliVars(Client(w)) /\ WF_cliVars(Ledger(w))
-----------------------------------------------------------------------------
(* Properties.                                                             *)

CliTypeOK ==
    /\ TypeOK
    /\ mirror \in [Wallets -> Seq(Note)]
    /\ notes \in [Wallets -> Seq([note : Note, leafIndex : Nat, spent : BOOLEAN])]
    /\ \A w \in Wallets :
         /\ cmd[w].pc \in {"idle", "thrown", "reindex", "swap", "unshield",
                           "quoted", "wait", "record"}
         /\ \A tx \in inflight[w] : tx.kind \in {"shield", "unshield", "swap"}
    /\ events \subseteq 0 .. nextIndex - 1
    /\ drawn \subseteq Rhos

\* The leaf of a note on the chain is at this place of `leaves`.
OnChain(note) == SelectInSeq(leaves, LAMBDA leaf : leaf = note)
Nullified(note) == EncodedAs(LeafNullifier(OnChain(note)), 0) \in nullifiers

(***************************************************************************)
(* Whatever is killed, timed out or inserted by others, a wallet lists only*)
(* notes that the chain holds, and marks one as spent only when its        *)
(* nullifier is on the chain: a note is never given up for nothing.        *)
(***************************************************************************)
SpentNotesAreNullified ==
    \A w \in Wallets : \A k \in DOMAIN notes[w] :
        /\ OnChain(notes[w][k].note) # 0
        /\ notes[w][k].spent => Nullified(notes[w][k].note)

(***************************************************************************)
(* index.ts:101-107: the mirror is the only record of the leaves of swaps, *)
(* and "never truncates or drops a locally-known leaf".                    *)
(***************************************************************************)
MirrorOnlyGrows ==
    [][\A w \in Wallets : IsPrefix(mirror[w], mirror'[w])]_cliVars

(***************************************************************************)
(* The two files agree in what a spend is proved from, also between two    *)
(* writes and whatever was killed there (index.ts:378-388, 528-549,        *)
(* 127-141): a listed note is in the mirror, at the index it is listed     *)
(* with, which may be an index that the chain does not give it.            *)
(***************************************************************************)
ListedNotesAreMirrored ==
    \A w \in Wallets : \A k \in DOMAIN notes[w] :
        /\ notes[w][k].leafIndex < Len(mirror[w])
        /\ mirror[w][notes[w][k].leafIndex + 1] = notes[w][k].note

(***************************************************************************)
(* Every command either writes all it has to write or reports its failure, *)
(* whatever the ledger does with its transaction, also when an older       *)
(* transaction takes the sequence number away from it.  That the process   *)
(* goes away is not claimed: after a failure it does not (Thrown).         *)
(***************************************************************************)
Running(w) == cmd[w] \notin {Idle, Thrown}

CommandsSettle == \A w \in Wallets : Running(w) ~> ~Running(w)

Resting(w) == ~Running(w) /\ inflight[w] = {}

\* No other client acted and no command was cut short so far.
Undisturbed == others = 0 /\ timeouts = 0 /\ crashes = 0

(***************************************************************************)
(* store.ts:107-110: when one wallet is "the only actor inserting" and no  *)
(* command of it is cut short, its files agree with the chain whenever no  *)
(* command runs, whatever a scan missed: all leaves in order, every note of*)
(* its own at its true index, spent iff nullified.  So the next spend can  *)
(* be proved.                                                              *)
(***************************************************************************)
WalletMatchesChain(w) ==
    /\ mirror[w] = leaves
    /\ {i \in DOMAIN leaves : leaves[i].ownerPk = OwnerPk(w)}
         = {notes[w][k].leafIndex + 1 : k \in DOMAIN notes[w]}
    /\ \A k \in DOMAIN notes[w] :
         /\ leaves[notes[w][k].leafIndex + 1] = notes[w][k].note
         /\ notes[w][k].spent <=> Nullified(notes[w][k].note)

RestingWalletMatchesChain ==
    Undisturbed => \A w \in Wallets : Resting(w) => WalletMatchesChain(w)

(***************************************************************************)
(* The same as a promise: what a lone wallet has put on the chain is       *)
(* eventually on its disk, unless others act or a command is cut short.    *)
(***************************************************************************)
WalletCatchesUp ==
    \A w \in Wallets : ~WalletMatchesChain(w) ~> WalletMatchesChain(w) \/ ~Undisturbed

(***************************************************************************)
(* index.ts:375-377 says of a shielded note: "Its TRUE leaf index (and the *)
(* full leaf mirror needed to build a Merkle path) is established          *)
(* authoritatively by `sync`, which reads the on-chain shield events -     *)
(* robust even when other clients also inserted."                          *)
(***************************************************************************)
SyncEstablishesIndices ==
    \A w \in Wallets :
        cmd[w].pc \in {"swap", "unshield"} /\ spends = <<>> =>
            /\ IsPrefix(mirror[w], leaves)
            /\ \A k \in DOMAIN notes[w] :
                 notes[w][k].leafIndex = OnChain(notes[w][k].note) - 1

(***************************************************************************)
(* index.ts:573 describes unshield: "Spend a collateral note and pay it    *)
(* out to a Stellar address."  It must pick a note that pays when the      *)
(* wallet holds one; the contract refuses an amount of 0.                  *)
(***************************************************************************)
UnshieldPicksPayableNote ==
    \A w \in Wallets :
        (\E k \in DOMAIN notes[w] : /\ notes[w][k].note.asset = COLLATERAL
                                    /\ ~notes[w][k].spent
                                    /\ notes[w][k].note.amount > 0)
          => notes[w][FirstUnspent(w)].note.amount > 0

(***************************************************************************)
(* store.ts:45 says of the flag `spent`: "Whether the note has been spent  *)
(* (nullified)."  submit stops waiting after 90 s and the transaction is   *)
(* valid for 120 s.                                                        *)
(***************************************************************************)
SpentFlagsMatchChain ==
    \A w \in Wallets : Resting(w) =>
        \A k \in DOMAIN notes[w] : notes[w][k].spent <=> Nullified(notes[w][k].note)
=============================================================================
