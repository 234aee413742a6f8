------------------------------ MODULE ProofGate ------------------------------
(***************************************************************************)
(* How a statement gets from a prover to the verifier: the prover (snarkjs *)
(* and circuits/*.circom) makes a proof of named signals in the order of   *)
(* the circuit; the pool (shielded_pool/src/lib.rs) builds the public      *)
(* inputs again from the arguments of the call and its own state; the      *)
(* verifier holds a key that may have been replaced in between.            *)
(***************************************************************************)
EXTENDS Groth16Verifier

CONSTANTS
    KeysFor,    \* the verifying keys set for each circuit
    Calls,      \* the pool's calls tried in every state, by circuit: arguments
    Statements, \* what is proved, by circuit: sets of records of signals
    Blinds,     \* the prover's choices of A
    Chains,     \* the states [root, yes, no] of the pool
    TwoTo128    \* number of values of an i128

SHIELD == "shield"
UNSHIELD == "unshield"
PRIVSWAP == "privswap"
ASSET_YES == 0
ASSET_NO == 1
YES == 1        \* asset ids of the note scheme
NO == 2

VARIABLES
    chain,      \* the pool's state that enters public inputs
    proof       \* the proof in the caller's hands, or NoProof

gateVars == <<vk, chain, proof>>

NoProof == <<>>

I128 == -(TwoTo128 \div 2) .. (TwoTo128 \div 2) - 1
Reserve == {v \in I128 : v >= 0}

\* Mutant: the highest bits are lost.
I128ToFrLow(v) == v % (TwoTo128 \div 4)

\* The scalar that i128_to_fr_be's 16 two's-complement bytes stand for.
I128ToFr(v) == v % TwoTo128

\* The public signals of a circuit, in the order of their declaration.
PublicSignals(circuit, s) ==
    CASE circuit = SHIELD -> <<s.amount, s.commitment>>
      [] circuit = UNSHIELD ->
            <<s.root, s.nullifier, s.withdrawAmount, s.recipient>>
      [] circuit = PRIVSWAP ->
            <<s.root, s.nullifierIn, s.outCommitment, s.changeCommitment,
              s.reserveInBefore, s.reserveOutBefore,
              s.reserveInAfter, s.reserveOutAfter, s.assetOut>>

ShieldInputs(c) == <<I128ToFr(c.amount), c.commitment>>

UnshieldInputs(c) ==
    <<c.root, c.nullifier, I128ToFr(c.withdrawAmount), c.recipientField>>

\* The statements of each circuit, and the arguments of each entrypoint.
StatementType(circuit) ==
    CASE circuit = SHIELD -> [amount : Scalar, commitment : Scalar]
      [] circuit = UNSHIELD ->
            [root : Scalar, nullifier : Scalar, withdrawAmount : Scalar, recipient : Scalar]
      [] circuit = PRIVSWAP ->
            [root : Scalar, nullifierIn : Scalar,
             outCommitment : Scalar, changeCommitment : Scalar,
             reserveInBefore : Scalar, reserveOutBefore : Scalar,
             reserveInAfter : Scalar, reserveOutAfter : Scalar, assetOut : Scalar]

\* No entrypoint checks that 32 bytes are below the modulus.
CallType(circuit) ==
    CASE circuit = SHIELD -> [amount : I128, commitment : Bytes32]
      [] circuit = UNSHIELD ->
            [root : Bytes32, nullifier : Bytes32, withdrawAmount : I128, recipientField : Bytes32]
      [] circuit = PRIVSWAP ->
            [nullifierIn : Bytes32, outCommitment : Bytes32, changeCommitment : Bytes32,
             reserveInBefore : I128, reserveOutBefore : I128,
             reserveInAfter : I128, reserveOutAfter : I128, assetOut : Nat]

\* Mutant: the selector itself is pushed.
SwapInputsSelector(now, c) ==
    <<now.root, c.nullifierIn, c.outCommitment, c.changeCommitment,
      I128ToFr(c.reserveInBefore), I128ToFr(c.reserveOutBefore),
      I128ToFr(c.reserveInAfter), I128ToFr(c.reserveOutAfter), c.assetOut>>

SwapInputs(now, c) ==
    <<now.root, c.nullifierIn, c.outCommitment, c.changeCommitment,
      I128ToFr(c.reserveInBefore), I128ToFr(c.reserveOutBefore),
      I128ToFr(c.reserveInAfter), I128ToFr(c.reserveOutAfter), c.assetOut + 1>>

PublicInputs(circuit, now, c) ==
    CASE circuit = SHIELD -> ShieldInputs(c)
      [] circuit = UNSHIELD -> UnshieldInputs(c)
      [] circuit = PRIVSWAP -> SwapInputs(now, c)

\* The reserves as <<in, out>> for the leg that is received.
ReservesFor(now, assetOut) ==
    IF assetOut = ASSET_YES THEN <<now.no, now.yes>> ELSE <<now.yes, now.no>>

\* The checks of each entrypoint on values that are encoded.
Admitted(circuit, now, c) ==
    CASE circuit = SHIELD -> c.amount > 0
      [] circuit = UNSHIELD -> c.withdrawAmount > 0
      [] circuit = PRIVSWAP ->
            /\ c.assetOut \in {ASSET_YES, ASSET_NO}
            /\ c.reserveInAfter >= 0 /\ c.reserveOutAfter >= 0
            /\ <<c.reserveInBefore, c.reserveOutBefore>> = ReservesFor(now, c.assetOut)

-----------------------------------------------------------------------------

\* The inverse of delta modulo Q, which a prover's key stands in for.
DeltaInverse == [key \in VKeys |-> CHOOSE d \in Scalar : (d * key.delta) % Q = 1]

\* An honest proof under a key (external: snarkjs).
HonestPoints(key, signals, blind) ==
    LET rest == (blind - key.alpha * key.beta - VkX(key, signals) * key.gamma) % Q
    IN  [a |-> blind, b |-> 1, c |-> (rest * DeltaInverse[key]) % Q]

\* A key has an element for each public signal, and one more.
ASSUME GateAssumption ==
    /\ Circuits = {SHIELD, UNSHIELD, PRIVSWAP}
    /\ TwoTo128 \in Nat /\ 1 < TwoTo128 /\ TwoTo128 < Q
    /\ Blinds \subseteq Scalar
    /\ Chains \subseteq [root : Scalar, yes : Reserve, no : Reserve]
    /\ \A circuit \in Circuits :
         /\ Calls[circuit] \subseteq CallType(circuit)
         /\ Statements[circuit] \subseteq StatementType(circuit)
         /\ KeysFor[circuit] \subseteq VKeys
         /\ \A key \in KeysFor[circuit], statement \in Statements[circuit] :
              Len(key.ic) = Len(PublicSignals(circuit, statement)) + 1

\* The scalars that public inputs are to the verifier.
Scalars(inputs) == [i \in 1 .. Len(inputs) |-> FrFromBytes(inputs[i])]

InputsOf(circuit) == {PublicInputs(circuit, now, c) : now \in Chains, c \in Calls[circuit]}

(***************************************************************************)
(* What the soundness of Groth16 and the randomness of the setup stand for *)
(* (external): the parameters of keys have no accidental relations among   *)
(* the calls and statements that are tried, so that under one key the      *)
(* sum over them determines the scalars, and a proof made under one key is *)
(* none under another, whichever circuit that one was set for.             *)
(***************************************************************************)
ASSUME SoundnessAssumption ==
    \A circuit \in Circuits :
      \A key \in KeysFor[circuit], statement \in Statements[circuit] :
        LET signals == PublicSignals(circuit, statement)
        IN  /\ \A inputs \in InputsOf(circuit) :
                 VkX(key, inputs) = VkX(key, signals) => Scalars(inputs) = signals
            /\ \A other \in Circuits :
                 \A current \in VKeys, inputs \in InputsOf(other), blind \in Blinds :
                   /\ Len(inputs) + 1 = Len(current.ic)
                   /\ Equation(current, HonestPoints(key, signals, blind), inputs)
                   => current = key

Prove(circuit, statement, key, blind) ==
    /\ proof' = [circuit |-> circuit, statement |-> statement, key |-> key,
                 points |-> HonestPoints(key, PublicSignals(circuit, statement), blind)]
    /\ UNCHANGED <<vk, chain>>

\* Any caller sets any key, one of another circuit too.
RegisterKey(circuit, key) ==
    /\ SetVk(circuit, key)
    /\ UNCHANGED <<chain, proof>>

\* Other callers move the tree and the reserves on.
ChainMoves(next) ==
    /\ chain' = next
    /\ UNCHANGED <<vk, proof>>

\* What an entrypoint makes of a call with the proof; it writes nothing so far.
Verdict(circuit, c) ==
    LET inputs == PublicInputs(circuit, chain, c)
    IN  IF ~Admitted(circuit, chain, c) THEN "refused"
        ELSE IF VerifyPanics(circuit, inputs) THEN "panic"
        ELSE IF Verify(circuit, proof.points, inputs) THEN "accepted"
        ELSE "ProofInvalid"

Init ==
    /\ VerifierInit
    /\ chain \in Chains
    /\ proof = NoProof

Next ==
    \/ \E circuit \in Circuits, key \in VKeys : RegisterKey(circuit, key)
    \/ \E next \in Chains : ChainMoves(next)
    \/ \E circuit \in Circuits :
          \E statement \in Statements[circuit], key \in KeysFor[circuit], blind \in Blinds :
              Prove(circuit, statement, key, blind)

Spec == Init /\ [][Next]_gateVars

-----------------------------------------------------------------------------

\* What a call claims, in the scalars that the circuit speaks of.
Claim(circuit, now, c) ==
    CASE circuit = SHIELD ->
            [amount |-> c.amount, commitment |-> FrFromBytes(c.commitment)]
      [] circuit = UNSHIELD ->
            [root |-> FrFromBytes(c.root), nullifier |-> FrFromBytes(c.nullifier),
             withdrawAmount |-> c.withdrawAmount, recipient |-> FrFromBytes(c.recipientField)]
      [] circuit = PRIVSWAP ->
            [root |-> now.root, nullifierIn |-> FrFromBytes(c.nullifierIn),
             outCommitment |-> FrFromBytes(c.outCommitment),
             changeCommitment |-> FrFromBytes(c.changeCommitment),
             reserveInBefore |-> c.reserveInBefore,
             reserveOutBefore |-> c.reserveOutBefore,
             reserveInAfter |-> c.reserveInAfter,
             reserveOutAfter |-> c.reserveOutAfter,
             assetOut |-> IF c.assetOut = ASSET_YES THEN YES ELSE NO]

\* The proof at hand is one of the call's claim under the key that is set.
ProvesClaim(circuit, c) ==
    /\ proof.circuit = circuit
    /\ proof.key = vk[circuit]
    /\ proof.statement = Claim(circuit, chain, c)

(***************************************************************************)
(* A call gets past verify only with a proof, under the key set now and    *)
(* not under one that was replaced, of its circuit, the current root and   *)
(* leg, and its public arguments: the amounts as they are, the 32-byte     *)
(* ones modulo the order (groth16_verifier lib.rs:87).  Which of the byte  *)
(* strings of a scalar they are is nothing that the proof binds.           *)
(***************************************************************************)
OnlyProvedClaimsPass ==
    proof # NoProof => \A circuit \in Circuits : \A c \in Calls[circuit] :
        Verdict(circuit, c) = "accepted" => ProvesClaim(circuit, c)

(***************************************************************************)
(* Every admitted call with a proof of its claim under the current key is  *)
(* accepted: the pool lists the inputs in the order of the circuit and     *)
(* encodes them as the circuit does (lib.rs:327-331 for the asset).        *)
(***************************************************************************)
ProvedClaimsPass ==
    proof # NoProof => \A circuit \in Circuits : \A c \in Calls[circuit] :
        ProvesClaim(circuit, c) => Verdict(circuit, c) \in {"accepted", "refused"}

(***************************************************************************)
(* negate_g1_bytes "performs the identical canonical field negation"       *)
(* (lib.rs:135) to the Neg that verify uses, the point at infinity too.    *)
(***************************************************************************)
NegationsAgree ==
    proof # NoProof =>
        NegateG1Bytes(BytesOf(proof.points.a)) = BytesOf(Neg(proof.points.a))
=============================================================================
