----------------------------- MODULE NoteLedger -----------------------------
(***************************************************************************)
(* What the pool promises, without trees, roots, nullifiers or proofs:     *)
(* deposits and exchanges mint notes, each claim on a note is honoured at  *)
(* most once, and tokens leave the vault only against such a claim or as   *)
(* fees that were accrued.  With one claim per note this is the promise    *)
(* that a note is spent once.                                              *)
(***************************************************************************)
EXTENDS Integers

CONSTANTS
    Entry,          \* notes and the slots they are minted into
    Claims,         \* the ways to ask for the same note
    Collateral,     \* the asset that can be withdrawn
    Positions       \* the assets that an exchange pays out

VARIABLES
    minted,     \* every entry so far
    spent,      \* the claims on them that are gone
    vault,      \* tokens held
    accrued     \* the part of them owed to the admin

ledgerVars == <<minted, spent, vault, accrued>>

Init == minted = {} /\ spent = {} /\ vault = 0 /\ accrued = 0

Deposit ==
    \E e \in Entry :
        /\ e.note.asset = Collateral
        /\ e.note.amount > 0
        /\ minted' = minted \cup {e}
        /\ vault' = vault + e.note.amount
        /\ UNCHANGED <<spent, accrued>>

\* A claim that is still open.
Open(e, c) == e \in minted /\ [entry |-> e, claim |-> c] \notin spent

Honour(e, c) == spent' = spent \cup {[entry |-> e, claim |-> c]}

\* A note is paid out in full, less a fee that stays.
Withdraw ==
    \E e \in minted, c \in Claims :
        /\ Open(e, c)
        /\ e.note.asset = Collateral
        /\ Honour(e, c)
        /\ accrued <= accrued' /\ accrued' <= accrued + e.note.amount
        /\ vault' = vault - (e.note.amount - (accrued' - accrued))
        /\ UNCHANGED minted

\* A note becomes a position and change that it covers.
Exchange ==
    \E e \in minted, c \in Claims : \E position, change \in minted' :
        /\ Open(e, c)
        /\ e.note.asset = Collateral
        /\ position.note.asset \in Positions
        /\ change.note.asset = Collateral
        /\ change.note.amount <= e.note.amount
        /\ minted' = minted \cup {position, change}
        /\ Honour(e, c)
        /\ accrued <= accrued'
        /\ UNCHANGED vault

PayAccrued ==
    /\ accrued > 0
    /\ vault' = vault - accrued
    /\ accrued' = 0
    /\ UNCHANGED <<minted, spent>>

Next == Deposit \/ Withdraw \/ Exchange \/ PayAccrued

Spec == Init /\ [][Next]_ledgerVars
=============================================================================
