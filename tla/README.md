# Formal verification of the Syzy shielded pool

TLA+ specifications, TLC model checks and TLAPS proofs for the shielded pool of this
repository: a Soroban contract that holds a collateral token against private notes, the
circuits whose proofs the contract accepts, and the command line that builds those proofs.

## The system

| part | state it keeps | operations |
|---|---|---|
| `contracts/shielded_pool/src/lib.rs` | config (set once), YES/NO reserves, nullifiers, deny list, accrued fees | `init`, `seed_reserves`, `set_denied`, `withdraw_fees`, `shield`, `unshield`, `private_swap`, views |
| `contracts/shielded_pool/src/merkle.rs` | frontier, root, next index, every root there ever was | `init`, `insert` |
| `circuits/*.circom` | none: each is a relation between public inputs and a witness | `shield`, `unshield`, `private_swap` |
| `contracts/groth16_verifier` | a verifying key per circuit name | `set_vk`, `verify` |
| `cli/src/crypto.ts`, `prover.ts` | an in-memory copy of the note tree | `insert`, `pathFor`, the three prove functions |
| `cli/src/index.ts`, `store.ts`, `chain.ts` | `leaves.json` (mirror of the leaves), `notes.json` (own notes and spent flags) | `shield`, `swap`, `unshield`, `sync` |
| `cli/src/notes.ts` | encrypted note file, cached tree | `sync`, `addNote`, `markSpent` (no command uses it yet) |
| `cli/src/api.ts` | none | calls to a relay backend outside the repository |
| `contracts/shielded_pool/src/poseidon/` | none | `poseidon2_be` over the Montgomery field of `field.rs`; `poseidon_probe` holds a copy |
| encoders, ceremony, scripts | none | pure functions, build and deployment steps |

A command of the CLI reads events, root and reserves from the chain, builds a Merkle path in
its own copy of the tree, proves, sends a transaction that calls one contract entrypoint, polls
for the result, and then updates two JSON files one write after the other. The contract
asks the verifier contract for a verdict on the proof and moves the token through the token
contract. An invocation is atomic: a panic anywhere reverts all of it. So the interleavings of
this system are those of whole contract calls with the *steps between the awaits and file
writes of the clients*.

Where it is hard:

- a swap inserts two leaves in one call and only its last root is returned; swap leaves are in
  no event, so a wallet's mirror is the only record of them;
- the tree has no check against its capacity; a client's tree has one;
- soundness of the swap rests on range checks in a field where nothing is ordered;
- the hash is hand-written limb arithmetic with carries that no test vector is sure to reach, and
  the contract's roots are worth nothing unless it is the hash of the circuits;
- a proof is checked against a *positional* list of public inputs that the pool builds again from its
  arguments and its state, under a key that may have been replaced;
- spent notes are keyed by the 32 bytes of a nullifier, proofs speak of the scalar that these bytes stand
  for modulo the order of the field;
- one note, one nullifier: the leaf index comes from the path bits, and contract, circuit and
  client must agree on their order;
- roots and reserves change between a client's read and the execution of its transaction;
- a transaction outlives the command that sent it (valid 120 s, polled for 90 s), and a command
  can be killed between two of its file writes;
- a command that throws leaves its worker pool open, which keeps its process alive until the user ends it;
- several clients insert into one tree, although the store assumes a single one.

`PROJECT.json` lists each hazard at its line with the properties that cover it.

What makes each part correct: every spend consumes an inserted leaf, and no other spend with a nullifier
written in the same way consumes it (contract, circuits); the pool can pay every unspent collateral note,
up to a shortfall whose two causes are named and counted (contract); the reserves change by
exact trades only (contract, circuit); the known roots are those of the insertion history
(tree); a client path authenticates under the contract's root (client tree, circuit); the contract's hash
is the reference hash, and each field operation is exact (Poseidon, field); a call passes the verifier
exactly when its claim was proved under the key that is set (pool, verifier); a wallet's
files agree with each other and with the chain, and a note is never marked spent unless it is (CLI).

## Modules

| module | models | notes |
|---|---|---|
| `NoteLedger` | the promise of the pool | abstract specification without trees, nullifiers or proofs; implemented by `ShieldedPool` |
| `CommitmentTree` | what a root of `merkle.rs` stands for | a root IS the function from slots to leaves; `InsertLeaf` reuses slots past the capacity |
| `CommitmentLog` | the promise of the note tree | abstract specification, implemented by `IncrementalMerkle` |
| `ClientTree` | `class MerkleTree`, `pathFor`, `pathIndicesToLeafIndex`, the walk of `MerkleInclusion` | a hash is the pair that was hashed |
| `IncrementalMerkle` | `merkle.rs` `init` and `insert`, with the client's tree beside it | frontier, zeros, root as nested pairs; refinement mapping `Log` |
| `SwapTrade` | the integer trade of a swap, and the quote of the CLI | |
| `SwapCircuit` | the constraints of `private_swap.circom` over the field | every assignment of the free signals is an initial state |
| `Notes` | note scheme and the three statements | a commitment is a record, the scalar of a nullifier is (key, rho, leaf index) |
| `ShieldedPool` | the seven entrypoints of `lib.rs` | one action each, enabled when the call succeeds; refinement mapping `Promised` |
| `ShieldCli` | wallets and other clients over `ShieldedPool` | extends it and reuses its entrypoint actions in the ledger's `Execute` |
| `Fr` | `field.rs` limb by limb | operators only; limb width and modulus are constants |
| `Montgomery` | the promise of `Fr::mul`: the Montgomery loop over whole numbers | abstract specification, implemented by `FrMul` |
| `FrMul` | the loop of `Fr::mul` with its accumulator of five limbs | refinement mapping `Loop` |
| `PoseidonReference` | the hash of circuits and clients (circomlib, external) | abstract specification, implemented by `Poseidon` |
| `Poseidon` | `poseidon2_be`, one round a step, over `Fr` | refinement mapping `Reference` |
| `Groth16Verifier` | `set_vk`, `verify`, `negate_g1_bytes` | pairing groups are additive groups of order `Q` |
| `ProofGate` | public inputs of the three proved entrypoints, from prover to verifier | extends `Groth16Verifier` |
| `Sums` | sums over a function and over a sequence | no code: what `Solvent` and the verifier's sums add up with |
| `ShieldedPoolProofs`, `MerkleProofs`, `SumProofs`, `SwapCircuitProofs`, `MontgomeryProofs`, `FieldProofs`, `ShieldCliProofs`, `ProofGateProofs` | theorems | |
| `MCShieldedPool`, `MCShieldCli`, `MCPoseidon`, `MCProofGate` | values of constants | |

How state and actions correspond to the code:

- **ShieldedPool.** `initialized`, `reserves`, `denied`, `fees`, `nullifiers` are the keys of
  `DataKey`; `tree`, `nextIndex`, `knownRoots` those of `MerkleKey`; `token` is the external
  token. Five history variables (`leaves`, `spends`, `seeded`, `swappedIn`, `swapFees`) are written and
  never read by the actions; the properties refer to them. The guards of an action are
  the panics of the entrypoint, the proof check included: `UnshieldConstraints` and its
  siblings say that a witness exists and `UnshieldNullifier`, `SwapOutCommitment`, ... say which
  public inputs it yields. Authorisation (`require_auth`) is left to the caller: each call is made
  by the account it names. `UnshieldCall` also offers roots that a client built ahead of the chain,
  and `PrivateSwapCall` stale reserves, a bad selector and every witness for an existing leaf.
  `unshield` does not bind its `recipient_field` to the recipient, and the model pays any
  recipient, as the code does.
- **Bytes of nullifiers.** An argument of 32 bytes is a scalar and a *lap*, the number of times that the order of the
  field was added to it (`EncodedAs`). `nullifiers` holds bytes, because `DataKey::Nullifier` is keyed by them; the proof
  check sees the scalar alone, as the verifier does. Lap 0 is what the CLI writes, `Laps` are those that callers use, and
  since 2^256 is more than five times the order of BN254, a scalar has at least five of them. The contract does not refuse the others:
  `NotesSpentOnce` is violated (`pool_nullifier`), and what does hold is stated for each encoding (`SpendsAreBacked`), with claims
  in place of notes (`NoteLedger`), or up to the notes spent again (`Uncovered` in `Solvent` and `NotesWithdrawable`).
  Roots need no laps, as they are compared with roots that the contract computed, and the hash
  reduces the bytes of commitments (`from_be_bytes`, covered by `BytesRoundTrip`).
- **The reserves carry no token.** `seed_reserves` moves nothing, and position notes cannot be
  withdrawn; `Solvent` is therefore about collateral notes, fees and the collateral that swaps
  moved into the reserves. The fee of a swap is accrued but taken from nobody, so `Solvent`
  counts the fees that swaps accrued (`swapFees`) on the side of the assets. Once withdrawn, they strand
  notes of the same amount, which is the slack of `NotesWithdrawable`.
- **ShieldCli.** `mirror` and `notes` are the two files, `cmd` the running command with
  what it has read so far, `inflight` the transactions that may still be executed, `events`
  the leaf indices that shield events report. `SyncCommand`, `Reindex`, `SwapQuote`, `SwapSend`, `UnshieldSend`
  are the stretches of a command between two awaits or file writes: a sync writes `leaves.json` in the first of them
  and `notes.json` in the second. `Record` performs one file write of a command whose transaction was executed;
  `StopWaiting` is the 90 s deadline, `Crash` a kill. `Throw`, `ThrowAtOnce` and every failure lead to `Thrown`: `index.ts:689-692` sets
  an exit code and leaves the worker pool open (`prover.ts:280-283`), so the process stays, does nothing, and ends only by
  `Interrupt`. `Other` is a shield or a swap of another client at the reserves of the moment; `Admin` seeds and denies. `Execute`, `Fail` and `Expire` are the
  ledger. Reading the root, proving and simulating are one step: a change in between makes the
  simulation fail, or leaves an unshield whose older root is still known, which is the same as
  executing it later. Transactions of one account that wait together carry the same sequence
  number, so executing one discards the others. Randomness is a fresh model value.
- **Field.** An element is a 4-tuple of limbs, lowest first, in Montgomery form. `Mac`, `Adc` and `Sbb` return the
  halves of a double word; `AddProduct` and `CancelLowLimb` are the two inner loops of `mul`, wrapping additions
  included. `FrMul` takes one limb of the second operand a step and admits first operands that
  are not reduced, because `from_be_bytes` passes such. `Poseidon` makes one step of each round.
- **Verifier.** `vk` is the key table. The prover, the pool's state and a proof in flight
  are variables of `ProofGate`; in every state every call of `Calls` is put to `Verdict`. Arguments
  of 32 bytes are numbers up to `Byte^Width`, more than `Q`, and `FrFromBytes` reduces them as `Fr::from_bytes` does. Any caller sets
  any key for any circuit (`RegisterKey`), also one with another number of inputs, under which `verify` panics.
- **Hashes** are injective constructors everywhere but in `Poseidon`: no collisions, no preimages.

## Runs

| run | module / config | shows |
|---|---|---|
| `pool` | `MCShieldedPool` / `Pool.cfg` | all pool properties over slots that are used twice, nullifiers of two encodings and fees at their limit, and the refinement of `NoteLedger`; 122,605 states |
| `swap_circuit` | `SwapCircuit` / `SwapCircuit.cfg` | soundness and completeness of the constraints, provability of quotes; 322,102 states |
| `merkle` | `IncrementalMerkle` / `Merkle.cfg` | refinement of `CommitmentLog`, paths, soundness of inclusion, client root equals contract root up to capacity; 1,093 states |
| `cli_faults` | `MCShieldCli` / `CliFaults.cfg` | one wallet beside other clients, a crash, a timeout, scans that miss events: agreement with the chain, catching up, every command succeeds or throws; 194,636 states |
| `field` | `FrMul` / `Field.cfg` | `mul`, `add`, `sub` and the byte conversions for every pair of operands; 195,072 states |
| `poseidon` | `MCPoseidon` / `Poseidon.cfg` | all 65 rounds implement the reference hash; 2,814 states |
| `verifier` | `MCProofGate` / `ProofGate.cfg` | keys rotate, tree and reserves move on, and every near miss of a proved call is tried; 48,706 states |
| `pool_swap_fee` | `MCShieldedPool` / `PoolSwapFee.cfg` | **violation**: swap fees are accrued without backing |
| `pool_nullifier` | `MCShieldedPool` / `PoolNullifier.cfg` | **violation**: one leaf backs two spends whose nullifiers are other bytes of one scalar |
| `cli_two_wallets` | `MCShieldCli` / `CliTwoWallets.cfg` | **violation**: sync does not establish the true index |
| `cli_zero_change` | `MCShieldCli` / `CliZeroChange.cfg` | **violation**: a change note of 0 hides payable notes |
| `cli_timeout` | `MCShieldCli` / `CliTimeout.cfg` | **violation**: a late unshield stays unspent on disk |

The properties of the passing runs, each stated above its definition:

- pool: `SpendsAreBacked` (no spend out of nothing, one spend for each encoding of a nullifier), `Solvent`, `LegsAccounted`,
  `NotesWithdrawable`, `RootsAreHistory`, `NothingForgotten`, `ReservesMoveByTrade`, and `ImplementsLedger`: every
  step of the contract is a step of `NoteLedger`, where each claim on a note, one for each encoding, is honoured once;
- circuit: `AcceptedTradesAreExact`, `ExactTradesAccepted`, `QuotesAreProvable`;
- tree: `ImplementsLog` (refinement), `ClientPathsAuthenticate`, `InclusionIsSound`, `ClientMirrorsUpToCapacity`
  (the client's root is the contract's until its tree is full; past the capacity the contract goes on with
  slot 0 while the client throws, so it does not go on with a root of its own);
- wallets: `SpentNotesAreNullified`, `ListedNotesAreMirrored` and `MirrorOnlyGrows` whatever is killed, late, missed or
  inserted by others; `CommandsSettle` (a command succeeds or throws; the process of one that threw is another matter, see
  `Thrown`); `RestingWalletMatchesChain` and `WalletCatchesUp` for a wallet that is the only client and none of whose commands
  was cut short (`Undisturbed`): after a crash between two writes the files do differ from the chain, and other clients'
  swaps leave no trace in any event;
- field: `ImplementsMontgomery` (the limbs compute the whole-number loop), `LoopInvariant`,
  `ProductIsCanonical`, `AddSubExact`, `BytesRoundTrip`;
- Poseidon: `ImplementsReference`, `LanesReduced`;
- verifier: `OnlyProvedClaimsPass` and `ProvedClaimsPass` (soundness and completeness of the way from
  arguments to verdict), `NegationsAgree`.

An operator commented as a mutant next to a definition is that definition with a plausible bug;
a run with it in place must violate the property it is paired with in `PROJECT.json`.
That shows that no property holds for want of a behaviour that could break it.

### Bounds, and why they are enough

- **Pool.** Two slots and four leaves (`MaxLeaves`): every slot is used twice, a swap straddles the end, and
  spends prove against roots of both rounds. 64-bit range checks end at `MaxU64 = 4`, i128 at `MaxI128 = 5`: a trade
  that is exact (2,2) -> (4,1), amounts that are too large, a seed above the range checks (5), and a fee sum that would
  overflow all occur; the release profile panics on overflow (`contracts/Cargo.toml`). Randomness repeats on
  purpose (two values), so equal commitments in different slots occur. Swaps ask for a fee of 0 or 5
  (`SwapFees`): 5 is the whole of i128, so that a second fee of any amount is refused. A nullifier has two encodings
  (`Laps = {0, 1}`), enough for a spend and its repetition; the theorems are for any set of laps. The notes and the accrued fees
  together exceed the tokens by just the fees of swaps and the notes spent again; that either excess exists at all is what
  `pool_swap_fee` and `pool_nullifier` show, on four slots.
- **Circuit.** `MaxU64 = 3`, field of 11 elements: more than the product of two checked values, as
  in BN254, and small enough that wrapped differences are most of the field.
- **Merkle.** Depth 2 with six leaves: two more than fit, so that the first two slots are reused.
- **CLI.** Randomness bounds the commands (one value per shield, two per swap; six values in `cli_faults`, enough for a shield and a
  swap of the wallet and one of each by another client while the wallet's swap is quoted or in flight). `MaxOthers`,
  `MaxTimeouts`, `MaxCrashes` bound each kind of disturbance and `MaxDisturbances` their sum: two in a behaviour, so that every two of them
  meet at every step of a command. One crash and one timeout suffice to separate a command from its transaction at every step.
  The admin seeds either of two pairs of reserves at any moment, and another client's swap moves them too, between a quote and its transaction. A scan returns any
  interval of the events: the lookback drops the oldest, the page limit the newest.
- **Field.** Four limbs of two bits (`Byte = 2`, `W = 2`) and modulus 127, every first operand below 256 and every
  second one below 127. 2P is close to R, so the fifth limb and the carry out of it do occur; under a
  smaller modulus, as 47, the bit whose loss the mutant of `CancelLowLimb` models is never set.
- **Poseidon.** All 8 + 57 rounds with 195 generic constants below 127 and inputs on both sides of the modulus.
  The tables of `constants.rs` themselves are numbers that only the repository's test vectors check.
- **Verifier.** `Q = 32749` and bytes up to 32767, so that the small scalars of the calls have a second encoding; two keys per circuit
  whose elements have no accidental relation, each set for each circuit; seven values of the
  prover's randomness at the edges of the bytes, and calls that differ from what is
  proved in one argument (the other encoding of its scalar included), or in two exchanged ones. `TwoTo128 = 1024` separates a negative i128 from its residue,
  and a shield of 257 from what a shorter encoding would leave of it.

Runs with a violation need no mutant; the comment above their property quotes the statement they refute.

### Fairness

`FairCliSpec` assumes that a running command takes its next step (the process runs unless it is
killed; a command that threw is not running) and that a pending transaction is executed, fails or expires (its time bound is 120 s).
Nothing is assumed about users starting commands or ending a process that threw, about other clients or about the admin. The contract modules
state safety only: nothing obliges anybody to call it.

## Proofs

All theorems hold for all values of the constants that meet the named assumptions.

`ShieldedPoolProofs`:

- `TypeCorrect`: `Spec => []TypeOK`. One lemma per entrypoint; the swap needs that the reserves
  after an exact trade and the change are in range.
- `OneSpendPerEncoding`: `Spec => []SpendsAreBacked`. `SpendsAreBacked` is not inductive: it says nothing
  about trees and nullifiers. `SpendInv` adds that every slot of every known root was filled by an
  insertion at an index that maps to this slot, that the stored nullifiers are exactly those of the spends, each of them bytes
  for the scalar of its note and slot, and that no two are the same bytes. A spend then finds its leaf through the
  root, and its nullifier, being fresh, tells it from all earlier spends of the same lap. This covers trees past
  their capacity. That the lap cannot be left out is what `pool_nullifier` shows.
- `NothingIsForgotten`: `Spec => NothingForgotten`; `init` is the step that resets the
  index, and can only run when nothing was inserted, a fact taken from `SpendInv`.
- `RootsAlwaysHistory`: `Spec => []RootsAreHistory`. The tree after n + 1 insertions is `InsertLeaf` of the tree
  after n, in each of three cases for a slot: it is the one just filled (`NextSlot`), it was filled before, or it is
  still empty; a swap applies this twice, and the root in between is missing from both sides.
- `ReservesOnlyTrade`: `Spec => ReservesMoveByTrade`. Needs `FreshStorage`: before `init` the storage is empty, so that `init`,
  which sets reserves, fees and tree without looking at them, changes nothing.
- `PoolImplementsLedger`: `Spec => ImplementsLedger`. Initial states map to initial states, and one
  lemma per entrypoint shows a step of the ledger or a stutter. That a withdrawal or an exchange uses a claim
  that is still open is where `SpendInv` is used. A claim is an entry and a lap; with one lap (`Laps = {0}`) this is the ledger in
  which a note is spent once.
- `AlwaysSolvent`: `Spec => []Solvent`. `Solvent` is inductive together with `TypeOK` and `SpendInv`. What is owed is the
  sum over the unspent collateral leaves (`Owed`): a spend takes one term out of it (`SpendPays`), an insertion puts at most one
  in (`OwedAppend`), and each entrypoint adds no more to the debts than it gains (`StaysSolvent`). A spend whose scalar
  was nullified before takes no term out; it is one of the `Repeats`, and its note is added to `Uncovered` instead. That the leaf of every
  other spend was still among the terms is `SpendInv`.
- `NotesAlwaysWithdrawable`: `Spec => []NotesWithdrawable`. Each unspent note is a term of that sum, and is in the root of
  its own insertion (`RootsAreHistory`).
- `LegsAlwaysAccounted`: `Spec => []LegsAccounted`, by the same sums over the leaves of a position.

`SumProofs`: no theorem of the pool, but what the others count and induct with. The induction theorems of the library cannot
be instantiated here, so induction over the naturals is stated for a *set* (`Induction`: a set with 0
and with every successor is all of `Nat`) and derived from the least number of a set that is not empty. From it: the sum
function exists, obeys its recursion, and changes by one term when one term changes, enters or leaves.

`SwapCircuitProofs`: `TypeCorrect`, `RangeChecksForceExactTrades`, `NoExactTradeRefused` and `QuotesAlwaysProvable`, for every
field in which a product and a sum of two 64-bit values do not wrap (`FieldAssumption`; BN254 has 254 bits). The
argument: a range-checked difference did not wrap, so it is ordered; products and sums of checked values are exact. A
quote is provable because flooring leaves a remainder below the divisor, which passes the same checks.

`MerkleProofs`, for every depth (`DepthAssumption`) and any number of insertions:

- `TreeImplementsLog`: `Spec => ImplementsLog`. A frontier is wrong about most of its entries; what is inductive
  (`FrontierInv`) is that the root is the whole tree over its contents (`Subtree`), and that at each level where the *next*
  leaf is under a right child, the cached node is the left sibling. `InsertedSubtrees` then follows one walk upwards:
  left of it the subtrees stay, on it they are what the walk computes, right of it they are empty. The next index has at each
  level the same ancestor or the one after it (`HalvedNext`), or the tree starts again at slot 0; an index past the capacity
  has the low bits of its slot (`SlotBits`).
- `InclusionAlwaysSound`: `Spec => []InclusionIsSound`, where elements range over the nodes that the contract computes; from `PathBindsSlot`, which is about any root and any elements: the
  bits that sum up to an index are the bits of that index (`IndexBits`), and pairs are injective.
- `PathsAlwaysAuthenticate`: `Spec => []ClientPathsAuthenticate`. Up to the capacity the contents are the log (`LogInv`), and the
  levels that `pathFor` rebuilds are the subtrees over it, as far as they go (`LevelNodesOfTree`).
- `ClientAlwaysMirrors`: `Spec => []ClientMirrorsUpToCapacity`. Client and contract share walk and cache; what is left is
  that the client's tree is a fold over the log (`BuildTreeAppend`).

Each recursive function needs a proof that its recursion has a solution, by induction over its levels; these are the
lemmas named `...Recursion` at the head of the module.

`ShieldCliProofs`: `CliTypesCorrect`, `SpentIsNullified`, `ListedAreMirrored` and `MirrorsOnlyGrow`, for every number of wallets, other
clients, crashes and timeouts, and `LoneWalletMatches`. That a note marked spent is nullified is not inductive: the mark is written after the transaction, from a
list drawn up when its events were read. `CliInv` says what every such list is worth:

- `DrawnOnce`: randomness is drawn once, so the leaves of the chain differ from each other and from what pending
  transactions will insert; hence a note is found in the chain in one place, and its index never changes;
- `TxOK`: what a pending transaction spends is on the chain and its witness is its sender's, whichever command sent it;
- `NoteOK`, `WriteOK`: what is in `notes.json`, and what a command is about to write there, names a leaf of the chain, and a
  mark that is there or to come is of a note whose nullifier is stored;
- the pool's own `TypeOK` and `SpendInv`, because the ledger executes the entrypoints of `ShieldedPool`.

A crash drops a list, which keeps it true; nothing that is nullified ever ceases to be. That a mirror only grows also needs
that a command's `Merged` mirror starts with the one on disk (`MergedExtends`), which holds for any set of events seen.

`ListedAreMirrored`: `CliSpec => []ListedNotesAreMirrored`. The invariant says of every note that a command is about to list that its leaf is
at that index of the mirror or will be by the writes before it (`WillHold`), so that a command killed at any of them
leaves no note without its leaf: the order of the writes is what it rests on. A sync extends the mirror first and then sets indices
to where the mirror has the note, so neither half of it breaks the agreement.

`LoneWalletMatches`: `LoneWallet /\ CliSpec => []RestingWalletMatchesChain`, where `LoneWallet` says that there is one wallet
(`store.ts:107-110`, "the only actor inserting"; another wallet's leaves are missing from the mirror, with what follows in `cli_two_wallets`). A resting wallet
says nothing of the steps before, so the invariant `LoneInv` says of a wallet at every moment, until a command is cut short,
and while no other client acts, what its files still lack:

- `OneInFlight`: only the transaction that the command waits for can be executed;
- `MirrorFollows`: the leaves missing from the mirror are those that the command's next `appendLeaf` writes append, in order;
- `NotesFollow`: every leaf is listed, or about to be, at its own index;
- `MarksFollow`: every nullified note is marked, or about to be, and no note about to be listed is nullified;
- `NullifiersOfLeaves`: every nullifier is that of a leaf, so executing a call nullifies its input and nothing else.

With nothing missing, a sync changes nothing whichever events its scan misses (`SyncFollows`), and a call that is executed
leaves exactly its own writes to be made (`ExecuteFollows`).

`MontgomeryProofs`: `LoopIsInvariant`, `TopLimbStaysABit` and `MulIsCanonical`, for every modulus, digit size and
operand that meet `Parameters`. The invariant is `weight * t = a * used + q * P` with `q < weight`, where `used` are the
digits that were used, and `t < a + P`. After the last digit `weight = R`, so `R * t < 2 * R * P` and one subtraction is
enough, for a first operand that is not reduced as well.

`FieldProofs`, about `FrMul`: `LimbsImplementMontgomery`, `LimbsKeepLoopInvariant`, `LimbsAreCanonical` and `AddAndSubAreExact`, the
same of the code's limbs, and `BytesAlwaysRoundTrip`, for every limb width and modulus that meet `FrAssumption` (the
`Parameters` of `Montgomery` follow from it, `LoopParameters`):

- both halves of the loop of `mul` are one shape of carry chain (`Ripple`), whose five limbs and overflow bit are exactly
  the sum (`RippleExact`, by splitting each double word into halves);
- the limb that the second half shifts out is zero, because `INV` makes the sum a multiple of the limb size, so the
  shift is an exact division;
- by the loop invariant the accumulator stays below `a + P`, less than `2 * R`, so the addition that puts the
  two overflow bits into the fifth limb does not wrap, and after the last digit it is below `2 * P`, which fits in four limbs;
- type correctness of the limbs with `LoopInvariant` is therefore inductive (`MulInv`), and each step of `FrMul` maps to
  a step of `Montgomery`;
- a sum of two reduced elements is below `R`, where one subtraction reduces it; a difference that borrowed
  is off by `R`, and adding `P` drops a carry of exactly `R`;
- `from_be_bytes` and `to_be_bytes` undo each other modulo `P`: four words of bytes are four digits (`WordOfBytes`,
  `WordsAreLimbs`), a whole `mul` multiplies up to a factor `R` (`MulExact`), and that factor can be cancelled, because `INV` gives
  an inverse of the limb size modulo `P` (`InverseExists`, `CancelR`).

`FieldProofs`, about `Poseidon`: `HashImplementsReference`, `HashSpec => ImplementsReference`, and `LanesStayReduced`, for every modulus, limb
width, number of rounds, matrix and round constants, and every two inputs, reduced or not (`FrAssumption`,
`PoseidonAssumption`). The invariant is that every lane is reduced (`HashInv`). A limb tuple *stands for* a
number when its value is congruent to that number times `R` (`StandsFor`); each operation of the code keeps this
relation to the operation of the reference (`MulStandsFor`, `AddStandsFor`, `Pow5StandsFor`, `SubstitutionStandsFor`,
`MixStandsFor`), hence so does a round (`RoundMaps`), and the digest's bytes are the reference's number (`ReturnDigestMaps`).
What is left to trust is the tables themselves, and that the reference is the hash of circuits and clients.

`ProofGateProofs`, for every order of the groups, number of bytes of a coordinate, keys, calls and statements. A proof
in flight is an honest one of its statement under a key of its circuit, while any key may be set (`GateInv`,
inductive; the three properties follow from it in each state):

- `ProvedClaimsAlwaysPass`: `Spec => []ProvedClaimsPass`. Past its guards every amount and reserve is at least 0, so
  `i128_to_fr_be` is the identity on it, and with the `+ 1` of the asset the scalars of the inputs are the signals of the claim, in their
  order, whichever bytes were passed (`InputsAreSignals`, `VkXOfScalars`). An honest proof satisfies the pairing equation exactly when the two sums over the inputs are equal
  (`HonestEquation`): `delta` cancels against the prover's inverse of it, and what is left is a multiple of `gamma`, which is
  invertible.
- `OnlyProvedClaimsEverPass`: `Spec => []OnlyProvedClaimsPass`. An accepted proof was made under the key that is set
  (`OtherKeyRefuses`), whatever circuit that key was meant for; `verify` counted as many inputs as this key has, so the circuit is
  the same one (`Arity`); the sums are equal by `HonestEquation`, hence the scalars of the inputs are the signals proved
  (`SameKeySameInputs`), and signals determine a statement (`SignalsDetermine`). The theorem binds scalars and not bytes, as the
  code does.
- `NegationsAlwaysAgree`: `Spec => []NegationsAgree`. The borrow out of a byte says whether the part of the modulus
  up to there is smaller than that of the coordinate (`BorrowAt`): this solves the recursion (`BorrowAtSolves`), nothing else
  does (`BorrowsAgree`), and with it each byte is that of the difference (`DigitOfDifference`, `ComplementIsDifference`). Only 0
  has no byte but 0 (`ZeroFromBytes`), which is where the largest power has to reach the modulus.

The verifier needs one assumption that is cryptography and not arithmetic. `SoundnessAssumption`, used by `OnlyProvedClaimsEverPass`
alone, stands for the soundness of Groth16 and the randomness of the setup: among the calls and
statements that are tried, inputs that have the same sum under a key are the same scalars, and no honest proof under one key satisfies the equation
under another. There are such relations between some numbers, in the code's groups too, but nobody finds them; TLC evaluates
the assumption for the keys, calls and statements of the run. It says nothing of the order and the encoding of inputs, of the guards or
of the circuit that a key is set for: these are what the theorem adds. A forged proof is outside of the model: proofs are made by `HonestPoints`.

Assumptions: `CapacityAssumption`, `EmptyAssumption`, `MaxU64Assumption`, `PoolAssumption`, `CliAssumption`,
`DepthAssumption`, `FieldAssumption`, `FrAssumption`, `PoseidonAssumption`, `VerifierAssumption`, `GateAssumption` and
`SoundnessAssumption`; TLC evaluates them in the runs.

Model-checked only: liveness under fairness (`CommandsSettle`, `WalletCatchesUp`), which with ENABLED is out of the prover's reach.
Every other property of the passing runs is a theorem.

## Not modelled

- *Encrypted notes store* (`cli/src/notes.ts`): no command uses it.
- *Relay path* (`cli/src/api.ts`, `--relayer`): the backend is not in the repository.
- *Two commands at once on the same wallet's files*: the store assumes one actor (`store.ts:107-110`) and promises nothing else.
- *Commands that change no note*: `init`, `balance`, `markets`, `viewing-key`.
- *Numbers of `constants.rs`*: parameters of `Poseidon`.
- *The curve*: pairing, subgroup checks and encodings of points belong to the host.
- *Ceremony, deployment, fixtures, configuration*: straight-line scripts and constants.
- `poseidon_probe` is a measurement tool whose arithmetic is a copy of the pool's.
- Overflow of the 32-bit leaf index is far beyond any run.

## Plan

1. *Done:* pool, circuits, tree, CLI; type invariant and no-double-spend proved.
2. *Done:* `NoteLedger` and its refinement, proved; roots and reserves proved; field, Poseidon and verifier
   modelled; Montgomery's loop and the limbs that implement it proved; scans that miss events.
3. *Done:* solvency and withdrawability of notes, the accounts of the legs, the note tree for every depth,
   the safety of the wallets, a lone wallet's agreement with the chain, and Poseidon with its field down to the
   bytes, proved.
4. *Done:* the verifier: soundness and completeness of the way from arguments to verdict, and both negations, proved.
   Nullifiers by their bytes, keys of any length, other clients, syncs in two writes and processes that outlive their
   command, in the models and in the theorems.
5. *Open:* `NotesStore` and two processes on one wallet's files, should a command come to use them; the relayer, should its
   backend become part of the repository.
