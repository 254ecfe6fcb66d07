------------------------------ MODULE Joseph ------------------------------
(***************************************************************************)
(* The liquidity pool's arithmetic: contracts/amm/pool/Joseph.sol and      *)
(* JosephInternal.sol.  The transactions that use it are actions of Amm.   *)
(***************************************************************************)
EXTENDS IporMath

CONSTANTS
    REDEEM_FEE_RATE,
    REDEEM_LP_MAX_UTILIZATION_RATE

ASSUME JosephAssumption ==
    /\ {REDEEM_FEE_RATE, REDEEM_LP_MAX_UTILIZATION_RATE} \subseteq 0..D18

-----------------------------------------------------------------------------
(* Mutation of ExchangeRate: SOAP is left out. *)
ExchangeRate_NoSoap(soapValue, supply, pool) ==
    IF supply > 0 THEN Division(pool * D18, supply) ELSE D18

(* Asset per ipToken; the caller requires pool - soap >= 0. *)
ExchangeRate(soapValue, supply, pool) ==
    IF supply > 0 THEN Division((pool - soapValue) * D18, supply) ELSE D18

MintedFor(wadAmount, rate) == Division(wadAmount * D18, rate)

(* What a redeemer of ipTokens gets, in the decimals of the asset; the fee
   stays in the pool. *)
RedeemAmount(ipAmount, rate, unit) ==
    LET wad == Division(ipAmount * rate, D18)
        fee == Division(wad * REDEEM_FEE_RATE, D18)
    IN  ConvertWadToAssetDecimals(wad - fee, unit)

(* Mutation of RedeemedUtilizationOK: the pool is measured before it shrinks. *)
RedeemedUtilizationOK_Before(pool, collateral, redeemed) ==
    /\ pool - redeemed > 0
    /\ Division(collateral * D18, pool) <= REDEEM_LP_MAX_UTILIZATION_RATE

(* The pool must stay large enough for the collateral it backs. *)
RedeemedUtilizationOK(pool, collateral, redeemed) ==
    /\ pool - redeemed > 0
    /\ Division(collateral * D18, pool - redeemed) <= REDEEM_LP_MAX_UTILIZATION_RATE

-----------------------------------------------------------------------------
(* How much goes to Stanley so that ratio of the total stays on Milton; a
   negative amount comes from Stanley. *)
RebalanceAmountBeforeRedeem(wadMilton, vaultBalance, operation, ratio) ==
    DivisionInt((wadMilton + vaultBalance - operation) * (D18 - ratio), D18) - vaultBalance

RebalanceAmountAfterProvideLiquidity(wadMilton, vaultBalance, ratio) ==
    DivisionInt((wadMilton + vaultBalance) * (D18 - ratio), D18) - vaultBalance

(* rebalance(): what Milton should hold of the total. *)
MiltonTarget(total, ratio) == Division(ratio * total, D18)
=============================================================================
