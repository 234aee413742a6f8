-------------------------- MODULE SwapCircuitProofs -------------------------
(***************************************************************************)
(* The range checks of private_swap turn its field equations into integer  *)
(* ones, for every field large enough for a product of two checked values. *)
(***************************************************************************)
EXTENDS SwapCircuit, TLAPS

(***************************************************************************)
(* A product of two range-checked values does not wrap.                    *)
(***************************************************************************)
LEMMA ProductBound ==
  ASSUME NEW a \in U64, NEW b \in U64
  PROVE  a * b \in 0 .. P - 1
  <1>1. /\ a \in Nat /\ b \in Nat /\ a <= MaxU64 /\ b <= MaxU64 /\ MaxU64 \in Nat
        /\ P \in Nat /\ MaxU64 * MaxU64 < P
    BY MaxU64Assumption, FieldAssumption DEF U64
  <1>2. a * b <= a * MaxU64
    BY <1>1
  <1>3. a * MaxU64 <= MaxU64 * MaxU64
    BY <1>1
  <1>4. a * b \in Nat
    BY <1>1
  <1>5. a * MaxU64 \in Nat /\ MaxU64 * MaxU64 \in Nat
    BY <1>1
  <1> QED
    BY <1>1, <1>2, <1>3, <1>4, <1>5

(***************************************************************************)
(* A number below the modulus is its own remainder.                        *)
(***************************************************************************)
LEMMA SmallRemainder ==
  ASSUME NEW x \in 0 .. P - 1
  PROVE  x % P = x
  BY FieldAssumption

(***************************************************************************)
(* So on range-checked values the field product is the integer product.    *)
(***************************************************************************)
LEMMA ProductExact ==
  ASSUME NEW a \in U64, NEW b \in U64
  PROVE  FieldMul(a, b) = a * b
  BY ProductBound, SmallRemainder DEF FieldMul

(***************************************************************************)
(* A range-checked field difference did not wrap (FieldSub of crypto field *)
(* arithmetic): the subtrahend is the smaller one.                         *)
(***************************************************************************)
LEMMA DifferenceExact ==
  ASSUME NEW a \in U64, NEW b \in U64, FieldSub(a, b) \in U64
  PROVE  b <= a /\ FieldSub(a, b) = a - b
  BY MaxU64Assumption, FieldAssumption DEF FieldSub, U64

(***************************************************************************)
(* And a sum of two range-checked values does not wrap.                    *)
(***************************************************************************)
LEMMA SumExact ==
  ASSUME NEW a \in U64, NEW b \in U64
  PROVE  FieldAdd(a, b) = a + b
  BY MaxU64Assumption, FieldAssumption DEF FieldAdd, U64

(***************************************************************************)
(* Soundness of the constraints: what they accept is an exact trade.       *)
(***************************************************************************)
LEMMA AcceptedIsExact ==
  ASSUME NEW t \in FieldTrades, CircuitAccepts(t)
  PROVE  ExactTrade(t)
  <1>1. /\ t.inAmount \in U64 /\ t.amountIn \in U64 /\ t.amountOut \in U64
        /\ t.reserveInBefore \in U64 /\ t.reserveOutBefore \in U64
        /\ t.reserveInAfter \in U64 /\ t.reserveOutAfter \in U64
        /\ Change(t) \in U64
    BY DEF CircuitAccepts, RangeChecks, RangeCheck
  <1>2. t \in TradeValues
    BY <1>1 DEF FieldTrades, TradeValues
  <1>3. t.amountIn <= t.inAmount
    BY <1>1, DifferenceExact DEF Change
  <1>4. t.reserveInAfter = t.reserveInBefore + t.amountIn
    BY <1>1, SumExact DEF CircuitAccepts, TradeEquations
  <1>5. t.reserveOutAfter = t.reserveOutBefore - t.amountOut
    BY <1>1, DifferenceExact DEF CircuitAccepts, TradeEquations
  <1>6. t.reserveInBefore * t.reserveOutBefore = t.reserveInAfter * t.reserveOutAfter
    BY <1>1, ProductExact DEF CircuitAccepts, TradeEquations
  <1> QED
    BY <1>2, <1>3, <1>4, <1>5, <1>6 DEF ExactTrade

(***************************************************************************)
(* Completeness of the constraints: they accept every exact trade.         *)
(***************************************************************************)
LEMMA ExactIsAccepted ==
  ASSUME NEW t, ExactTrade(t)
  PROVE  CircuitAccepts(t)
  <1>1. /\ t.inAmount \in U64 /\ t.amountIn \in U64 /\ t.amountOut \in U64
        /\ t.reserveInBefore \in U64 /\ t.reserveOutBefore \in U64
        /\ t.reserveInAfter \in U64 /\ t.reserveOutAfter \in U64
    BY DEF ExactTrade, TradeValues
  <1>2. Change(t) = t.inAmount - t.amountIn
    BY <1>1 DEF Change, FieldSub, ExactTrade, U64
  <1>3. Change(t) \in U64
    BY <1>1, <1>2, MaxU64Assumption DEF ExactTrade, U64
  <1>4. t.reserveInAfter = FieldAdd(t.reserveInBefore, t.amountIn)
    BY <1>1, SumExact DEF ExactTrade
  <1>5. t.reserveOutAfter = FieldSub(t.reserveOutBefore, t.amountOut)
    BY <1>1 DEF ExactTrade, FieldSub, U64
  <1>6. FieldMul(t.reserveInBefore, t.reserveOutBefore)
          = FieldMul(t.reserveInAfter, t.reserveOutAfter)
    BY <1>1, ProductExact DEF ExactTrade
  <1>7. FieldAdd(t.inAmount, 1) = t.inAmount + 1
    BY <1>1, MaxU64Assumption, FieldAssumption DEF FieldAdd, U64
  <1>8. AmountFits(t)
    BY <1>1, <1>7 DEF AmountFits, ExactTrade, U64
  <1> QED
    BY <1>1, <1>3, <1>4, <1>5, <1>6, <1>8
    DEF CircuitAccepts, RangeChecks, RangeCheck, TradeEquations

(***************************************************************************)
(* Values stay field elements; the verdict is final.                       *)
(***************************************************************************)
THEOREM TypeCorrect == Spec => []TypeOK
  <1>1. Init => TypeOK
    <2> SUFFICES ASSUME NEW inAmount \in Field, NEW amountIn \in Field,
                        NEW amountOut \in Field, NEW reserveIn \in Field,
                        NEW reserveOut \in Field
                 PROVE  Filled(inAmount, amountIn, amountOut, reserveIn, reserveOut)
                          \in FieldTrades
      BY DEF Init, TypeOK
    <2>1. FieldAdd(reserveIn, amountIn) \in Field
      BY FieldAssumption DEF FieldAdd, Field
    <2>2. FieldSub(reserveOut, amountOut) \in Field
      BY FieldAssumption DEF FieldSub, Field
    <2> QED
      BY <2>1, <2>2 DEF Filled, FieldTrades
  <1>2. TypeOK /\ [Next]_circuitVars => TypeOK'
    BY DEF TypeOK, Next, Prove, circuitVars
  <1> QED
    BY <1>1, <1>2, PTL DEF Spec

(***************************************************************************)
(* The verdict is that of the constraints on the values proved.            *)
(***************************************************************************)
VerdictInv ==
    /\ verdict = "accepted" => CircuitAccepts(trade)
    /\ verdict = "rejected" => ~CircuitAccepts(trade)

\* The verdict is what the constraints say of the trade.
LEMMA VerdictCorrect == Spec => []VerdictInv
  <1>1. Init => VerdictInv
    BY DEF Init, VerdictInv
  <1>2. VerdictInv /\ [Next]_circuitVars => VerdictInv'
    <2> SUFFICES ASSUME VerdictInv, [Next]_circuitVars PROVE VerdictInv'
      OBVIOUS
    <2>1. CASE Prove
      <3>1. trade' = trade
        BY <2>1 DEF Prove
      <3>2. CASE CircuitAccepts(trade)
        BY <2>1, <3>1, <3>2 DEF Prove, VerdictInv, CircuitAccepts, RangeChecks,
           RangeCheck, TradeEquations, Change
      <3>3. CASE ~CircuitAccepts(trade)
        BY <2>1, <3>1, <3>3 DEF Prove, VerdictInv
      <3> QED
        BY <3>2, <3>3
    <2>2. CASE UNCHANGED circuitVars
      BY <2>2 DEF circuitVars, VerdictInv
    <2> QED
      BY <2>1, <2>2 DEF Next
  <1> QED
    BY <1>1, <1>2, PTL DEF Spec

(***************************************************************************)
(* For every field and every range-check width with 2 * MaxU64 and         *)
(* MaxU64^2 below the field's order, every proof that private_swap accepts *)
(* is that of an integer trade: nothing is created by a wrapped value.     *)
(***************************************************************************)
THEOREM RangeChecksForceExactTrades == Spec => []AcceptedTradesAreExact
  <1>1. TypeOK /\ VerdictInv => AcceptedTradesAreExact
    BY AcceptedIsExact DEF TypeOK, VerdictInv, AcceptedTradesAreExact
  <1> QED
    BY <1>1, TypeCorrect, VerdictCorrect, PTL

(***************************************************************************)
(* And no exact trade of 64-bit values is refused.                         *)
(***************************************************************************)
THEOREM NoExactTradeRefused == Spec => []ExactTradesAccepted
  <1>1. VerdictInv => ExactTradesAccepted
    BY ExactIsAccepted DEF VerdictInv, ExactTradesAccepted
  <1> QED
    BY <1>1, VerdictCorrect, PTL

(***************************************************************************)
(* A division that leaves no remainder is undone by the product, and the   *)
(* quotient of naturals is one.                                            *)
(***************************************************************************)
LEMMA ExactDivision ==
  ASSUME NEW x \in Nat, NEW d \in Nat, d # 0, x % d = 0
  PROVE  x \div d \in Nat /\ x = d * (x \div d)
  <1>1. x = d * (x \div d) + (x % d) /\ x \div d \in Int
    OBVIOUS
  <1>2. PICK q \in Int : q = x \div d
    BY <1>1
  <1>3. x = d * q
    BY <1>1, <1>2
  <1>4. q >= 0
    BY <1>3
  <1> QED
    BY <1>2, <1>3, <1>4

(***************************************************************************)
(* The quote of cli/src/index.ts for 64-bit values is an exact trade while *)
(* the reserve it pays into stays within 64 bits.                          *)
(***************************************************************************)
LEMMA QuoteIsExact ==
  ASSUME NEW inAmount \in U64, NEW amountIn \in U64,
         NEW reserveIn \in U64, NEW reserveOut \in U64, NEW amountOut,
         QuoteExists(inAmount, amountIn, reserveIn, reserveOut),
         amountOut = QuotedOut(amountIn, reserveIn, reserveOut),
         reserveIn + amountIn <= MaxU64
  PROVE  ExactTrade(Filled(inAmount, amountIn, amountOut, reserveIn, reserveOut))
  <1>1. /\ inAmount \in Nat /\ amountIn \in Nat /\ reserveIn \in Nat /\ reserveOut \in Nat
        /\ MaxU64 \in Nat /\ reserveOut <= MaxU64
    BY MaxU64Assumption DEF U64
  <1>2. PICK after \in Nat : after = reserveIn + amountIn
    BY <1>1
  <1>3. PICK product \in Nat : product = ProductOf(reserveIn, reserveOut)
    BY <1>1 DEF ProductOf
  <1>4. /\ amountIn <= inAmount /\ after # 0 /\ product % after = 0
        /\ product \div after < reserveOut /\ amountOut = reserveOut - (product \div after)
    BY <1>2, <1>3 DEF QuoteExists, QuotedOut
  <1>5. PICK left \in Nat : left = product \div after /\ product = after * left
    BY <1>4, ExactDivision
  <1>6. /\ left < reserveOut /\ amountOut = reserveOut - left
    BY <1>4, <1>5
  <1>7. /\ amountOut \in U64 /\ amountOut <= reserveOut /\ left \in U64
        /\ after \in U64 /\ amountOut \in Nat
    BY <1>1, <1>2, <1>6 DEF U64
  <1>8. FieldAdd(reserveIn, amountIn) = after
    BY <1>2, SumExact
  <1>9. FieldSub(reserveOut, amountOut) = left
    BY <1>1, <1>6, <1>7 DEF FieldSub
  <1> DEFINE t == Filled(inAmount, amountIn, amountOut, reserveIn, reserveOut)
  <1>10. /\ t.inAmount = inAmount /\ t.amountIn = amountIn /\ t.amountOut = amountOut
         /\ t.reserveInBefore = reserveIn /\ t.reserveOutBefore = reserveOut
         /\ t.reserveInAfter = after /\ t.reserveOutAfter = left
         /\ t \in TradeValues
    BY <1>7, <1>8, <1>9 DEF Filled, TradeValues
  <1>11. left = reserveOut - amountOut /\ reserveIn * reserveOut = after * left
    BY <1>1, <1>3, <1>5, <1>6 DEF ProductOf
  <1> HIDE DEF t
  <1> QED
    BY <1>2, <1>4, <1>10, <1>11 DEF ExactTrade, t

(***************************************************************************)
(* What was refused was not a quote; the reserves after the trade are the  *)
(* ones that the equations fill in.                                        *)
(***************************************************************************)
FilledInv ==
    trade = Filled(trade.inAmount, trade.amountIn, trade.amountOut,
                   trade.reserveInBefore, trade.reserveOutBefore)

\* The reserves are filled in when the prover starts and stay.
LEMMA FilledAlways == Spec => []FilledInv
  <1>1. Init => FilledInv
    <2> SUFFICES ASSUME NEW inAmount \in Field, NEW amountIn \in Field,
                        NEW amountOut \in Field, NEW reserveIn \in Field,
                        NEW reserveOut \in Field,
                        trade = Filled(inAmount, amountIn, amountOut, reserveIn, reserveOut)
                 PROVE  FilledInv
      BY DEF Init
    <2>1. /\ trade.inAmount = inAmount /\ trade.amountIn = amountIn
          /\ trade.amountOut = amountOut /\ trade.reserveInBefore = reserveIn
          /\ trade.reserveOutBefore = reserveOut
      BY DEF Filled
    <2> QED
      BY <2>1 DEF FilledInv
  <1>2. FilledInv /\ [Next]_circuitVars => FilledInv'
    <2> SUFFICES ASSUME FilledInv, trade' = trade PROVE FilledInv'
      BY DEF Next, Prove, circuitVars
    <2> QED
      BY DEF FilledInv, Filled, FieldAdd, FieldSub
  <1> QED
    BY <1>1, <1>2, PTL DEF Spec

(***************************************************************************)
(* Every quote of the CLI that leaves the reserves within 64 bits is       *)
(* accepted: the exact product the CLI insists on is the circuit's.        *)
(***************************************************************************)
THEOREM QuotesAlwaysProvable == Spec => []QuotesAreProvable
  <1>1. TypeOK /\ VerdictInv /\ FilledInv => QuotesAreProvable
    <2> SUFFICES ASSUME TypeOK, VerdictInv, FilledInv, verdict # "none",
                        {trade.inAmount, trade.amountIn, trade.reserveInBefore,
                         trade.reserveOutBefore} \subseteq U64,
                        QuoteExists(trade.inAmount, trade.amountIn,
                                    trade.reserveInBefore, trade.reserveOutBefore),
                        trade.amountOut = QuotedOut(trade.amountIn, trade.reserveInBefore,
                                                    trade.reserveOutBefore),
                        trade.reserveInBefore + trade.amountIn <= MaxU64
                 PROVE  verdict = "accepted"
      BY DEF QuotesAreProvable
    <2>1. ExactTrade(trade)
      BY QuoteIsExact DEF FilledInv
    <2>2. CircuitAccepts(trade)
      BY <2>1, ExactIsAccepted
    <2> QED
      BY <2>2 DEF VerdictInv, TypeOK
  <1> QED
    BY <1>1, TypeCorrect, VerdictCorrect, FilledAlways, PTL
=============================================================================
