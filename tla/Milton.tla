------------------------------- MODULE Milton -------------------------------
(***************************************************************************)
(* The AMM's swaps: contracts/amm/Milton.sol and MiltonInternal.sol.       *)
(*                                                                         *)
(* One external call closes many swaps, may withdraw from Stanley for each *)
(* of them and pays all liquidation deposits at the end; every part works  *)
(* on what the parts before it left.  A transaction is therefore a         *)
(* function of a record with what it has changed so far,                   *)
(*   swaps, ids, balances, soap   the books (MiltonStorage)                *)
(*   cash    Milton's balance of the asset, in its decimals                *)
(*   vault   Stanley                                                       *)
(*   payout  liquidation deposits to pay at the end, in WAD                *)
(*   unowned what was booked as being on Stanley and as nobody's, in WAD   *)
(*           (a history variable)                                          *)
(* and ok, which is FALSE when the call reverts.                           *)
(***************************************************************************)
EXTENDS MiltonStorage, Stanley, Joseph, SequencesExt

CONSTANTS
    LIQUIDATION_DEPOSIT,        \* _LIQUIDATION_DEPOSIT_AMOUNT, in whole tokens
    PUBLICATION_FEE,            \* _IPOR_PUBLICATION_FEE
    OPENING_FEE_RATE,
    TREASURY_PORTION_RATE,      \* _OPENING_FEE_FOR_TREASURY_PORTION_RATE
    INCOME_FEE_RATE,            \* _INCOME_TAX_RATE
    MIN_LEVERAGE, MAX_LEVERAGE,
    MAX_COLLATERAL,             \* _MAX_SWAP_COLLATERAL_AMOUNT
    MAX_UTILIZATION,            \* _MAX_LP_UTILIZATION_RATE
    MAX_UTILIZATION_PER_LEG,
    LEG_LIMIT                   \* _LIQUIDATION_LEG_LIMIT

ASSUME MiltonAssumption ==
    /\ {LIQUIDATION_DEPOSIT, PUBLICATION_FEE, MAX_COLLATERAL,
        MAX_UTILIZATION_PER_LEG, LEG_LIMIT} \subseteq Nat
    /\ {OPENING_FEE_RATE, TREASURY_PORTION_RATE, INCOME_FEE_RATE, MAX_UTILIZATION}
          \subseteq 0..D18
    /\ MIN_LEVERAGE \in Nat /\ MAX_LEVERAGE \in Nat

WadDeposit(swap) == swap.liquidationDepositAmount * D18

-----------------------------------------------------------------------------
(* Opening *)

OpenAmounts(wadTotal, leverage) ==
    CalculateSwapAmount(wadTotal, leverage, LIQUIDATION_DEPOSIT * D18,
                        PUBLICATION_FEE, OPENING_FEE_RATE)

(* _beforeOpenSwap; the buyer has the tokens and allowed Milton to take them. *)
BeforeOpenSwapOK(wadTotal, leverage) ==
    LET fees == LIQUIDATION_DEPOSIT * D18 + PUBLICATION_FEE
    IN  /\ leverage >= MIN_LEVERAGE
        /\ leverage <= MAX_LEVERAGE
        /\ wadTotal > fees
        /\ OpenAmounts(wadTotal, leverage).collateral <= MAX_COLLATERAL
        /\ wadTotal > fees + OpenAmounts(wadTotal, leverage).openingFee

(* _validateLiqudityPoolUtylization *)
UtilizationOK(pool, legCollateral, totalCollateral) ==
    /\ pool > 0
    /\ Division(totalCollateral * D18, pool) <= MAX_UTILIZATION
    /\ Division(legCollateral * D18, pool) <= MAX_UTILIZATION_PER_LEG

(* The swap that is opened for wadTotal at the quoted rate; the quantity of
   interest bearing tokens is what the notional is worth now. *)
NewSwapFor(buyer, wadTotal, leverage, quote, price, t) ==
    LET amounts  == OpenAmounts(wadTotal, leverage)
        treasury == Division(amounts.openingFee * TREASURY_PORTION_RATE, D18)
    IN  [buyer |-> buyer, openTimestamp |-> t,
         collateral |-> amounts.collateral, notional |-> amounts.notional,
         ibtQuantity |-> Division(amounts.notional * D18, price),
         fixedInterestRate |-> quote,
         liquidationDepositAmount |-> LIQUIDATION_DEPOSIT,
         openingFeeLPAmount |-> amounts.openingFee - treasury,
         openingFeeTreasuryAmount |-> treasury]

(* Mutation of OpenUtilizationOK: the collateral before the new swap counts. *)
OpenUtilizationOK_Before(b, leg, new) ==
    LET other == b.totalCollateral[CHOOSE l \in Leg : l # leg]
    IN  UtilizationOK(b.liquidityPool + new.openingFeeLPAmount, b.totalCollateral[leg],
                      b.totalCollateral[leg] + other)

(* The pool the new swap is measured against has its opening fee already. *)
OpenUtilizationOK(b, leg, new) ==
    LET ofLeg == b.totalCollateral[leg] + new.collateral
        other == b.totalCollateral[CHOOSE l \in Leg : l # leg]
    IN  UtilizationOK(b.liquidityPool + new.openingFeeLPAmount, ofLeg, ofLeg + other)

-----------------------------------------------------------------------------
(* Stanley *)

Failed(tx) == [tx EXCEPT !.ok = FALSE]

(* What the pool would have if the interest earned so far were booked. *)
AccruedLiquidityPool(b, vault) == b.liquidityPool + TotalBalance(vault) - b.vault

WithdrawFromStanleyTx(tx, result) ==
    IF ~result.ok \/ ~CanBookWithdraw(tx.balances, result.withdrawn, result.vaultBalance)
    THEN Failed(tx)
    ELSE LET b == BalancesWhenWithdraw(tx.balances, result.withdrawn, result.vaultBalance)
         IN  [tx EXCEPT !.ok = BalancesFit(b), !.balances = b, !.vault = result.vault,
                        !.cash = @ + ToAsset(result.withdrawn)]

(* What the strategies have while nothing is booked does not become interest
   when the next deposit is booked (updateStorageWhenDepositToStanley). *)
BookedForNobody(b, vault) == IF b.vault = 0 THEN HeldTotal(vault) ELSE 0

DepositToStanleyTx(tx, amount) ==
    LET result == Deposit(tx.vault, amount)
    IN  IF ~result.ok \/ result.assets > tx.cash
                \/ ~CanBookDeposit(tx.balances, result.deposited, result.vaultBalance)
        THEN Failed(tx)
        ELSE LET b == BalancesWhenDeposit(tx.balances, result.deposited, result.vaultBalance)
             IN  [tx EXCEPT !.ok = BalancesFit(b), !.balances = b, !.vault = result.vault,
                            !.cash = @ - result.assets,
                            !.unowned = @ + BookedForNobody(tx.balances, tx.vault)]

-----------------------------------------------------------------------------
(* Mutation of Pay: the transfer is not refused. *)
Pay_Unchecked(tx, assets) == [tx EXCEPT !.cash = @ - assets]

(* Closing *)

Pay(tx, assets) ==
    IF assets > tx.cash THEN Failed(tx) ELSE [tx EXCEPT !.cash = @ - assets]

(* Mutation of TransferDerivativeAmount: a buyer who closes gets the deposit
   with the amount, and as a liquidator again. *)
TransferDerivativeAmount_DepositTwice(tx, sender, buyer, deposit, amount, ratio) ==
    LET transfer == IF sender = buyer THEN amount + deposit ELSE amount
    IN  Pay([tx EXCEPT !.payout = @ + deposit], ToAsset(transfer))

(* _transferDerivativeAmount: when Milton's tokens do not exceed the transfer,
   Stanley is asked for what restores the ratio after it.  The deposit is added
   to the amount for a buyer who closes, and to what is rebalanced for again;
   a liquidator's deposit waits for the end of the transaction. *)
TransferDerivativeAmount(tx, sender, buyer, deposit, amount, ratio) ==
    LET transfer  == IF sender = buyer THEN amount + deposit ELSE amount
        promised  == [tx EXCEPT !.payout = IF sender = buyer THEN @ ELSE @ + deposit]
        assets    == ToAsset(transfer)
        rebalance == RebalanceAmountBeforeRedeem(ToWad(tx.cash), TotalBalance(tx.vault),
                                                 transfer + deposit, ratio)
    IN  CASE transfer = 0     -> promised
          [] transfer > 0 /\ tx.cash > assets -> Pay(promised, assets)
          [] transfer > 0 /\ tx.cash <= assets ->
                LET funded == IF rebalance < 0
                              THEN WithdrawFromStanleyTx(promised, Withdraw(tx.vault, -rebalance))
                              ELSE promised
                IN  IF AccruedLiquidityPool(tx.balances, tx.vault) < 0 \/ ~funded.ok
                    THEN Failed(tx)
                    ELSE Pay(funded, assets)

(* _closeSwapPayFixed and _closeSwapReceiveFixed: the books first, then the
   tokens. *)
CloseSwapTx(tx, leg, id, sender, price, t, ratio) ==
    LET swap   == tx.swaps[leg][id]
        payoff == CalculatePayoff(leg, swap, t, price)
        fee    == PercentOf(AbsoluteValue(payoff), INCOME_FEE_RATE)
        b      == BalancesWhenClose(tx.balances, leg, swap, payoff, fee)
        booked == [tx EXCEPT
                    !.swaps[leg] = SwapsWhenClose(@, tx.ids[leg], swap),
                    !.ids[leg] = IdsWhenClose(@, swap),
                    !.balances = b,
                    !.soap[leg] = RebalanceWhenCloseSwap(@, swap, t)]
        amount == IF payoff > 0 THEN swap.collateral + payoff - fee
                  ELSE swap.collateral + payoff
    IN  IF /\ CanCloseSwap(tx.ids[leg], swap)
           /\ MayClose(sender, swap, payoff, t)
           /\ CanUpdateBalancesWhenClose(tx.balances, payoff, fee)
           /\ BalancesFit(b)
           /\ CanUpdateSoapWhenClose(tx.soap[leg], swap, t)
        THEN TransferDerivativeAmount(booked, sender, swap.buyer, WadDeposit(swap), amount, ratio)
        ELSE Failed(tx)

(* A list of swaps of one leg; swaps that are not active are passed over, so
   an id may come twice. *)
CloseLegTx(tx, leg, list, sender, price, t, ratio) ==
    FoldLeft(LAMBDA acc, id :
                IF acc.ok /\ IsActive(acc.swaps[leg], id)
                THEN CloseSwapTx(acc, leg, id, sender, price, t, ratio) ELSE acc,
             tx, list)

(* Mutation of TransferLiquidationDeposit: the deposits are forgotten. *)
TransferLiquidationDeposit_Forgotten(tx) == [tx EXCEPT !.payout = 0]

(* The deposits of all swaps closed for others, in one transfer. *)
TransferLiquidationDeposit(tx) ==
    IF tx.ok THEN [Pay(tx, ToAsset(tx.payout)) EXCEPT !.payout = 0] ELSE tx
=============================================================================
