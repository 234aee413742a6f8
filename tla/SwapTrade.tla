------------------------------ MODULE SwapTrade -----------------------------
(***************************************************************************)
(* The trade that circuits/private_swap.circom proves, over the integers.  *)
(* SwapCircuit states the same trade over the circuit's prime field, where *)
(* nothing is ordered, and shows that the two agree.                       *)
(***************************************************************************)
EXTENDS Integers

CONSTANT MaxU64     \* largest value of a 64-bit range check, 2^64 - 1

ASSUME MaxU64Assumption == MaxU64 \in Nat

U64 == 0 .. MaxU64

\* The values of a trade that the circuit sees.
TradeValues ==
    [inAmount : U64, amountIn : U64, amountOut : U64,
     reserveInBefore : U64, reserveOutBefore : U64,
     reserveInAfter : U64, reserveOutAfter : U64]

\* Mutant: no product is compared.
TradeWithoutProduct(t) ==
    /\ t \in TradeValues
    /\ t.amountIn <= t.inAmount
    /\ t.reserveInAfter = t.reserveInBefore + t.amountIn
    /\ t.reserveOutAfter = t.reserveOutBefore - t.amountOut

(***************************************************************************)
(* A trade pays amountIn of the note's inAmount into one reserve, takes    *)
(* amountOut from the other and keeps their product.                       *)
(***************************************************************************)
ExactTrade(t) ==
    /\ t \in TradeValues
    /\ t.amountIn <= t.inAmount
    /\ t.reserveInAfter = t.reserveInBefore + t.amountIn
    /\ t.reserveOutAfter = t.reserveOutBefore - t.amountOut
    /\ t.reserveInBefore * t.reserveOutBefore
         = t.reserveInAfter * t.reserveOutAfter

(***************************************************************************)
(* cli/src/index.ts picks amountOut so that the product is met exactly and *)
(* throws when no integer does it or when nothing would come out.          *)
(***************************************************************************)
ProductOf(reserveIn, reserveOut) == reserveIn * reserveOut

\* Mutant: a quotient with a remainder is rounded instead of refused.
QuoteRounded(inAmount, amountIn, reserveIn, reserveOut) ==
    /\ amountIn <= inAmount
    /\ reserveIn + amountIn # 0
    /\ ProductOf(reserveIn, reserveOut) \div (reserveIn + amountIn) < reserveOut

QuoteExists(inAmount, amountIn, reserveIn, reserveOut) ==
    /\ amountIn <= inAmount
    /\ reserveIn + amountIn # 0
    /\ ProductOf(reserveIn, reserveOut) % (reserveIn + amountIn) = 0
    /\ ProductOf(reserveIn, reserveOut) \div (reserveIn + amountIn) < reserveOut

QuotedOut(amountIn, reserveIn, reserveOut) ==
    reserveOut - ProductOf(reserveIn, reserveOut) \div (reserveIn + amountIn)
=============================================================================
