----------------------------- MODULE SoapDrift -----------------------------
(***************************************************************************)
(* How far SOAP may be from the sum of the payoffs it stands for.          *)
(*                                                                         *)
(* The indicators replace the rate of every swap of a leg by one rounded   *)
(* average, and every rebalance rounds it again.  Two history variables    *)
(* record, per leg and since the leg was last empty, the most that these   *)
(* roundings can add up to; they are doubled, since a rounding is at most  *)
(* half of its divisor.                                                    *)
(*   rateDrift       of totalNotional * averageInterestRate                *)
(*   interestDrift   of quasiHypotheticalInterestCumulative / D18          *)
(***************************************************************************)
EXTENDS MiltonStorageSpec

VARIABLES rateDrift, interestDrift

driftVars == <<vars, rateDrift, interestDrift>>

InterestDriftAt(leg, time) ==
    interestDrift[leg] + rateDrift[leg] * (time - soap[leg].rebalanceTimestamp)

(* The average of the first swap of a leg is exact. *)
RecordDrift ==
    LET rebalanced(leg) == soap'[leg] # soap[leg]
        emptied(leg)    == soap'[leg].totalNotional = 0
        first(leg)      == soap[leg].totalNotional = 0
    IN  /\ rateDrift' = [leg \in Leg |->
              IF emptied(leg) \/ first(leg) THEN 0
              ELSE IF rebalanced(leg) THEN rateDrift[leg] + soap'[leg].totalNotional
              ELSE rateDrift[leg]]
        /\ interestDrift' = [leg \in Leg |->
              IF emptied(leg) \/ first(leg) THEN 0
              ELSE IF rebalanced(leg) THEN InterestDriftAt(leg, now)
              ELSE interestDrift[leg]]

DriftInit == Init /\ rateDrift = [leg \in Leg |-> 0]
                  /\ interestDrift = [leg \in Leg |-> 0]

DriftNext == Next /\ RecordDrift

DriftSpec == DriftInit /\ [][DriftNext]_driftVars

-----------------------------------------------------------------------------
RateWeight(leg) ==
    [id \in SwapId |-> swaps[leg][id].notional * swaps[leg][id].fixedInterestRate]

FixedInterest(leg) ==
    [id \in SwapId |-> swaps[leg][id].notional * swaps[leg][id].fixedInterestRate
                           * (now - swaps[leg][id].openTimestamp)]

Payoff(leg, ibtPrice) ==
    [id \in SwapId |-> QuasiPayoff(leg, swaps[leg][id], now, ibtPrice)]

(* At every price and time the SOAP of a leg is the sum of the uncapped
   payoffs of its active swaps, up to the recorded roundings: opening and
   closing at different times, in any order, with different rates, neither
   loses nor repeats the interest of a swap. *)
SoapIsSumOfPayoffs ==
    \A leg \in Leg, ibtPrice \in IbtPrices :
        LET sum == SumFunctionOnSet(Payoff(leg, ibtPrice), ActiveIds(leg))
        IN  2 * AbsoluteValue(QuasiSoap(leg, soap[leg], now, ibtPrice) - D18 * sum)
                <= D18 * InterestDriftAt(leg, now)

(* The checked subtractions of a rebalance can make closing a swap revert, but
   only within the rounding: when the rates and the interest of the other
   swaps of the leg outweigh the recorded roundings the swap can leave. *)
SoapBlocksOnlyWithinRounding ==
    \A leg \in Leg : \A id \in ActiveIds(leg) :
        LET others == ActiveIds(leg) \ {id}
        IN  (/\ 2 * SumFunctionOnSet(RateWeight(leg), others) >= rateDrift[leg]
             /\ 2 * SumFunctionOnSet(FixedInterest(leg), others) >= InterestDriftAt(leg, now))
            => CanRebalanceWhenCloseSwap(soap[leg], swaps[leg][id], now)
=============================================================================
