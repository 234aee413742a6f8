----------------------------- MODULE SwapCircuit ----------------------------
(***************************************************************************)
(* The arithmetic of circuits/private_swap.circom over its prime field.    *)
(* Field elements are not ordered: a subtraction below zero gives a huge   *)
(* element, not a negative one.  The circuit's comment calls its 64-bit    *)
(* range checks load-bearing; this module says what they bear: with them,  *)
(* and only with them, the field equations are the integer trade of        *)
(* SwapTrade.                                                              *)
(***************************************************************************)
EXTENDS SwapTrade

CONSTANT P      \* order of the field

\* The BN254 scalar field has 254 bits, far more than a product of two values.
ASSUME FieldAssumption ==
    /\ P \in Nat
    /\ MaxU64 + 1 < P
    /\ 2 * MaxU64 < P
    /\ MaxU64 * MaxU64 < P

Field == 0 .. P - 1

\* Mutant: a sum that is not reduced.
FieldAddUnreduced(a, b) == a + b

FieldAdd(a, b) == IF a + b >= P THEN a + b - P ELSE a + b
FieldSub(a, b) == IF a >= b THEN a - b ELSE a - b + P
FieldMul(a, b) == (a * b) % P

VARIABLES
    trade,      \* the values a prover fills in: any field elements
    verdict     \* "none" until the circuit has been evaluated

circuitVars == <<trade, verdict>>

FieldTrades ==
    [inAmount : Field, amountIn : Field, amountOut : Field,
     reserveInBefore : Field, reserveOutBefore : Field,
     reserveInAfter : Field, reserveOutAfter : Field]

\* Mutant: one value short of 64 bits.
RangeCheckShort(x) == x \in 0 .. MaxU64 - 1

\* Num2Bits(64)
RangeCheck(x) == x \in U64

Change(t) == FieldSub(t.inAmount, t.amountIn)

\* Mutant: the reserve that is paid from is not range checked after the trade.
RangeChecksWithoutReserve(t) ==
    {t.inAmount, t.amountIn, t.amountOut, t.reserveInBefore, t.reserveOutBefore,
     t.reserveInAfter, Change(t)} \subseteq U64

RangeChecks(t) ==
    /\ RangeCheck(t.inAmount)
    /\ RangeCheck(t.amountIn)
    /\ RangeCheck(t.amountOut)
    /\ RangeCheck(t.reserveInBefore)
    /\ RangeCheck(t.reserveOutBefore)
    /\ RangeCheck(t.reserveInAfter)
    /\ RangeCheck(t.reserveOutAfter)
    /\ RangeCheck(Change(t))

\* LessThan(252): exact on values that were range checked, plus one.
AmountFits(t) == t.amountIn < FieldAdd(t.inAmount, 1)

\* The reserves move by the trade and their product is preserved.
TradeEquations(t) ==
    /\ t.reserveInAfter = FieldAdd(t.reserveInBefore, t.amountIn)
    /\ t.reserveOutAfter = FieldSub(t.reserveOutBefore, t.amountOut)
    /\ FieldMul(t.reserveInBefore, t.reserveOutBefore)
         = FieldMul(t.reserveInAfter, t.reserveOutAfter)

CircuitAccepts(t) == RangeChecks(t) /\ AmountFits(t) /\ TradeEquations(t)

(***************************************************************************)
(* The equations determine the reserves after the trade, so a prover       *)
(* chooses the other five values only.                                     *)
(***************************************************************************)
Filled(inAmount, amountIn, amountOut, reserveIn, reserveOut) ==
    [inAmount |-> inAmount, amountIn |-> amountIn, amountOut |-> amountOut,
     reserveInBefore |-> reserveIn, reserveOutBefore |-> reserveOut,
     reserveInAfter |-> FieldAdd(reserveIn, amountIn),
     reserveOutAfter |-> FieldSub(reserveOut, amountOut)]

Init ==
    /\ \E inAmount, amountIn, amountOut, reserveIn, reserveOut \in Field :
         trade = Filled(inAmount, amountIn, amountOut, reserveIn, reserveOut)
    /\ verdict = "none"

\* snarkjs computes the witness and proves, or throws on a failed constraint.
Prove ==
    /\ verdict = "none"
    /\ verdict' = IF CircuitAccepts(trade) THEN "accepted" ELSE "rejected"
    /\ UNCHANGED trade

Next == Prove
Spec == Init /\ [][Next]_circuitVars

-----------------------------------------------------------------------------
TypeOK ==
    /\ trade \in FieldTrades
    /\ verdict \in {"none", "accepted", "rejected"}

(***************************************************************************)
(* Soundness: what the circuit accepts over the field is an exact trade    *)
(* over the integers.  No wrapped value, no amountIn above the note's      *)
(* amount, no amountOut above the reserve (private_swap.circom:32-41).     *)
(***************************************************************************)
AcceptedTradesAreExact == verdict = "accepted" => ExactTrade(trade)

(***************************************************************************)
(* Completeness: the circuit refuses no exact trade of 64-bit values.      *)
(***************************************************************************)
ExactTradesAccepted == verdict = "rejected" => ~ExactTrade(trade)

(***************************************************************************)
(* A trade that the CLI quotes from 64-bit values is one the circuit       *)
(* accepts, unless the reserve it pays into would outgrow 64 bits.         *)
(***************************************************************************)
QuotesAreProvable ==
    /\ verdict # "none"
    /\ {trade.inAmount, trade.amountIn, trade.reserveInBefore,
        trade.reserveOutBefore} \subseteq U64
    /\ QuoteExists(trade.inAmount, trade.amountIn,
                   trade.reserveInBefore, trade.reserveOutBefore)
    /\ trade.amountOut = QuotedOut(trade.amountIn, trade.reserveInBefore,
                                   trade.reserveOutBefore)
    /\ trade.reserveInBefore + trade.amountIn <= MaxU64
    => verdict = "accepted"
=============================================================================
