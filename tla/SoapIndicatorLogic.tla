------------------------- MODULE SoapIndicatorLogic -------------------------
(***************************************************************************)
(* SOAP, the sum of the payoffs of the open swaps of a leg, is not summed: *)
(* it is derived from aggregate indicators that are rebalanced whenever a  *)
(* swap is opened or closed.                                               *)
(* contracts/amm/libraries/SoapIndicatorLogic.sol.                         *)
(*                                                                         *)
(* An indicator si has the fields of SoapIndicatorsMemory:                 *)
(*   qhic    quasiHypotheticalInterestCumulative                           *)
(*   totalNotional, totalIbtQuantity, averageInterestRate,                 *)
(*   rebalanceTimestamp                                                    *)
(***************************************************************************)
EXTENDS IporSwapLogic

WAD_P2_YEAR_IN_SECONDS == D18 * D18 * YEAR_IN_SECONDS

EmptyIndicators ==
    [qhic |-> 0, totalNotional |-> 0, totalIbtQuantity |-> 0,
     averageInterestRate |-> 0, rebalanceTimestamp |-> 0]

-----------------------------------------------------------------------------
QuasiHypotheticalInterestDelta(si, timestamp) ==
    si.totalNotional * si.averageInterestRate
        * (timestamp - si.rebalanceTimestamp) * D18

QuasiHypotheticalInterestTotal(si, timestamp) ==
    si.qhic + QuasiHypotheticalInterestDelta(si, timestamp)

(* The fixed interest a swap leaves with. *)
QuasiInterestPaidOut(swap, timestamp) ==
    swap.notional * swap.fixedInterestRate
        * (timestamp - swap.openTimestamp) * D18

QuasiSoap(leg, si, timestamp, ibtPrice) ==
    LET floating == si.totalIbtQuantity * ibtPrice * WAD_YEAR_IN_SECONDS
        fixed    == si.totalNotional * WAD_P2_YEAR_IN_SECONDS
                        + QuasiHypotheticalInterestTotal(si, timestamp)
    IN  IF leg = PayFixed THEN floating - fixed ELSE fixed - floating

-----------------------------------------------------------------------------
AverageInterestRateWhenOpenSwap(si, swap) ==
    Division(si.totalNotional * si.averageInterestRate
                 + swap.notional * swap.fixedInterestRate,
             si.totalNotional + swap.notional)

(* The numerator of the new average; the checked subtraction reverts when it
   is negative. *)
WeightAfterClose(si, swap) ==
    si.totalNotional * si.averageInterestRate
        - swap.notional * swap.fixedInterestRate

AverageInterestRateWhenCloseSwap(si, swap) ==
    IF swap.notional = si.totalNotional
    THEN 0
    ELSE Division(WeightAfterClose(si, swap),
                  si.totalNotional - swap.notional)

(* Mutation of QuasiInterestAfterClose: the swap leaves its interest behind. *)
QuasiInterestAfterClose_KeepPaidOut(si, swap, timestamp) ==
    QuasiHypotheticalInterestTotal(si, timestamp)

QuasiInterestAfterClose(si, swap, timestamp) ==
    QuasiHypotheticalInterestTotal(si, timestamp)
        - QuasiInterestPaidOut(swap, timestamp)

(* The average of a first swap with notional 0 divides by zero. *)
CanRebalanceWhenOpenSwap(si, swap) ==
    /\ swap.openTimestamp >= si.rebalanceTimestamp
    /\ si.totalNotional + swap.notional > 0

RebalanceWhenOpenSwap(si, swap) ==
    [qhic                |-> QuasiHypotheticalInterestTotal(si, swap.openTimestamp),
     totalNotional       |-> si.totalNotional + swap.notional,
     totalIbtQuantity    |-> si.totalIbtQuantity + swap.ibtQuantity,
     averageInterestRate |-> AverageInterestRateWhenOpenSwap(si, swap),
     rebalanceTimestamp  |-> swap.openTimestamp]

(* Mutation of CanRebalanceWhenCloseSwap: the interest must stay above zero. *)
CanRebalanceWhenCloseSwap_Strict(si, swap, timestamp) ==
    /\ swap.notional <= si.totalNotional
    /\ swap.notional # si.totalNotional =>
           /\ timestamp >= si.rebalanceTimestamp
           /\ timestamp >= swap.openTimestamp
           /\ WeightAfterClose(si, swap) >= 0
           /\ QuasiInterestAfterClose(si, swap, timestamp) > 0
           /\ swap.ibtQuantity <= si.totalIbtQuantity

(* What a rebalance on close requires: the swap is part of the totals and
   neither the weight of the rates nor the interest of the leg goes below
   zero without it.  None of it is asked of the last swap of the leg. *)
CanRebalanceWhenCloseSwap(si, swap, timestamp) ==
    /\ swap.notional <= si.totalNotional
    /\ swap.notional # si.totalNotional =>
           /\ timestamp >= si.rebalanceTimestamp
           /\ timestamp >= swap.openTimestamp
           /\ WeightAfterClose(si, swap) >= 0
           /\ QuasiInterestAfterClose(si, swap, timestamp) >= 0
           /\ swap.ibtQuantity <= si.totalIbtQuantity

(* Mutation of RebalanceWhenCloseSwap: the last swap leaves its tokens behind. *)
RebalanceWhenCloseSwap_NoReset(si, swap, timestamp) ==
    IF swap.notional # si.totalNotional
    THEN [qhic                |-> QuasiInterestAfterClose(si, swap, timestamp),
          totalNotional       |-> si.totalNotional - swap.notional,
          totalIbtQuantity    |-> si.totalIbtQuantity - swap.ibtQuantity,
          averageInterestRate |-> AverageInterestRateWhenCloseSwap(si, swap),
          rebalanceTimestamp  |-> timestamp]
    ELSE [si EXCEPT !.qhic = 0, !.totalNotional = 0, !.averageInterestRate = 0,
                    !.rebalanceTimestamp = timestamp]

RebalanceWhenCloseSwap(si, swap, timestamp) ==
    IF swap.notional # si.totalNotional
    THEN [qhic                |-> QuasiInterestAfterClose(si, swap, timestamp),
          totalNotional       |-> si.totalNotional - swap.notional,
          totalIbtQuantity    |-> si.totalIbtQuantity - swap.ibtQuantity,
          averageInterestRate |-> AverageInterestRateWhenCloseSwap(si, swap),
          rebalanceTimestamp  |-> timestamp]
    ELSE [EmptyIndicators EXCEPT !.rebalanceTimestamp = timestamp]
=============================================================================
