--------------------------- MODULE IporSwapLogic ---------------------------
(***************************************************************************)
(* Amounts and payoffs of a single swap:                                   *)
(* contracts/amm/libraries/IporSwapLogic.sol.                              *)
(***************************************************************************)
EXTENDS IporMath

PayFixed == "PayFixed"
ReceiveFixed == "ReceiveFixed"

(* The two directions of a swap, seen from its buyer. *)
Leg == {PayFixed, ReceiveFixed}

-----------------------------------------------------------------------------
(* What of the amount sent by the buyer becomes collateral, the notional it
   is leveraged to, and the opening fee.  The caller has checked that the
   amount exceeds the deposit and the publication fee. *)
CalculateSwapAmount(total, leverage, deposit, publicationFee, openingFeeRate) ==
    LET coll == Division((total - deposit - publicationFee) * D18,
                         D18 + openingFeeRate)
    IN  [collateral |-> coll,
         notional   |-> Division(leverage * coll, D18),
         openingFee |-> Division(coll * openingFeeRate, D18)]

(* Interests are kept multiplied by WAD_YEAR_IN_SECONDS ("quasi") and are
   divided once, at the end. *)
QuasiInterestFixed(notional, rate, seconds) ==
    notional * WAD_YEAR_IN_SECONDS + notional * rate * seconds

QuasiInterestFloating(ibtQuantity, ibtPrice) ==
    ibtQuantity * ibtPrice * YEAR_IN_SECONDS

(* A payoff never exceeds the collateral, in either direction. *)
NormalizeSwapValue(collateral, value) ==
    IF value > 0
    THEN IF value < collateral THEN value ELSE collateral
    ELSE IF value < -collateral THEN -collateral ELSE value

(* The payoff of a swap before it is capped: floating minus fixed for the
   payer of the fixed rate, fixed minus floating for its receiver. *)
QuasiPayoff(leg, swap, closingTimestamp, ibtPrice) ==
    LET fixed    == QuasiInterestFixed(swap.notional, swap.fixedInterestRate,
                                       closingTimestamp - swap.openTimestamp)
        floating == QuasiInterestFloating(swap.ibtQuantity, ibtPrice)
    IN  IF leg = PayFixed THEN floating - fixed ELSE fixed - floating

CalculatePayoff(leg, swap, closingTimestamp, ibtPrice) ==
    NormalizeSwapValue(
        swap.collateral,
        DivisionInt(QuasiPayoff(leg, swap, closingTimestamp, ibtPrice),
                    WAD_YEAR_IN_SECONDS))
=============================================================================
