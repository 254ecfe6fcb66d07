------------------------- MODULE MiltonStorageSpec -------------------------
(***************************************************************************)
(* MiltonStorage with callers that pass what Milton and Joseph pass: a new *)
(* swap opens at the time of the block; a swap to close was read with      *)
(* getSwap in the same transaction; its payoff is that of                  *)
(* IporSwapLogic at some price of the interest bearing token, and the      *)
(* income fee is its share of the payoff.  Where amounts come from is the  *)
(* subject of module Amm; here any of a set of terms may come.             *)
(***************************************************************************)
EXTENDS MiltonStorage, Functions

CONSTANTS
    SwapTerms,         \* what Milton may have computed for a new swap
    PUBLICATION_FEE,   \* getIporPublicationFee
    INCOME_FEE_RATE,   \* getIncomeFeeRate
    IbtPrices,         \* accrued prices of the interest bearing token
    Amounts,           \* amounts moved by Joseph and Stanley
    MAX_POOL,          \* Joseph's maxLiquidityPoolBalance
    MAX_CONTRIBUTION,  \* Joseph's maxLpAccountContribution
    MaxTime            \* bound: the last block's timestamp

SwapTermsType == [collateral: Nat, notional: Nat, ibtQuantity: Nat,
                  fixedInterestRate: Nat, liquidationDepositAmount: Nat,
                  openingFeeLPAmount: Nat, openingFeeTreasuryAmount: Nat]

(* The quantity of interest bearing tokens is the notional divided by their
   price (Milton.sol, _openSwapPayFixed): a swap without notional has none. *)
ASSUME SpecAssumption ==
    /\ SwapTerms \subseteq SwapTermsType
    /\ \A terms \in SwapTerms : terms.notional = 0 => terms.ibtQuantity = 0
    /\ PUBLICATION_FEE \in Nat
    /\ INCOME_FEE_RATE \in 0..D18
    /\ IbtPrices \subseteq Nat
    /\ Amounts \subseteq Nat
    /\ MAX_POOL \in Nat
    /\ MAX_CONTRIBUTION \in Nat
    /\ MaxTime \in UInt32

VARIABLE
    now   \* block.timestamp; every stored timestamp is a uint32

vars == <<storageVars, now>>

NewSwap(terms, buyer) ==
    [buyer |-> buyer, openTimestamp |-> now,
     collateral |-> terms.collateral, notional |-> terms.notional,
     ibtQuantity |-> terms.ibtQuantity,
     fixedInterestRate |-> terms.fixedInterestRate,
     liquidationDepositAmount |-> terms.liquidationDepositAmount,
     openingFeeLPAmount |-> terms.openingFeeLPAmount,
     openingFeeTreasuryAmount |-> terms.openingFeeTreasuryAmount]

GetSwap(leg, id) == swaps[leg][id]

-----------------------------------------------------------------------------
Open(caller) ==
    \E leg \in Leg, terms \in SwapTerms, buyer \in Account :
        /\ UpdateStorageWhenOpenSwap(caller, leg, NewSwap(terms, buyer), PUBLICATION_FEE)
        /\ UNCHANGED now

Close(caller) ==
    \E leg \in Leg, id \in SwapId, liquidator \in Account \cup {Owner},
       ibtPrice \in IbtPrices :
        LET swap   == GetSwap(leg, id)
            payoff == CalculatePayoff(leg, swap, now, ibtPrice)
        IN  /\ UpdateStorageWhenCloseSwap(
                   caller, leg, liquidator, swap, payoff,
                   PercentOf(AbsoluteValue(payoff), INCOME_FEE_RATE), now)
            /\ UNCHANGED now

Withdraw(caller) ==
    \E withdrawn \in Amounts, vaultBalance \in Amounts :
        /\ UpdateStorageWhenWithdrawFromStanley(caller, withdrawn, vaultBalance)
        /\ UNCHANGED now

Deposit(caller) ==
    \E deposit \in Amounts, vaultBalance \in Amounts :
        /\ UpdateStorageWhenDepositToStanley(caller, deposit, vaultBalance)
        /\ UNCHANGED now

Provide(caller) ==
    \E account \in Account, amount \in Amounts :
        /\ AddLiquidity(caller, account, amount, MAX_POOL, MAX_CONTRIBUTION)
        /\ UNCHANGED now

Redeem(caller) ==
    \E amount \in Amounts : SubtractLiquidity(caller, amount) /\ UNCHANGED now

TransferToCharlie(caller) ==
    \E amount \in Amounts :
        UpdateStorageWhenTransferToCharlieTreasury(caller, amount) /\ UNCHANGED now

TransferToTreasury(caller) ==
    \E amount \in Amounts :
        UpdateStorageWhenTransferToTreasury(caller, amount) /\ UNCHANGED now

Administer(caller) ==
    /\ \/ \E c \in Contract : SetMilton(caller, c) \/ SetJoseph(caller, c)
       \/ Pause(caller)
       \/ Unpause(caller)
    /\ UNCHANGED now

Tick ==
    /\ now < MaxTime
    /\ now' = now + 1
    /\ UNCHANGED storageVars

Init == StorageInit /\ now = 0

Next ==
    \/ \E caller \in Contract \cup {Owner} :
          \/ Open(caller)
          \/ Close(caller)
          \/ Withdraw(caller)
          \/ Deposit(caller)
          \/ Provide(caller)
          \/ Redeem(caller)
          \/ TransferToCharlie(caller)
          \/ TransferToTreasury(caller)
          \/ Administer(caller)
    \/ Tick

Spec == Init /\ [][Next]_vars

-----------------------------------------------------------------------------
(* The stored values keep their types, and time fits the stored timestamps. *)
TypeOK == StorageTypeOK /\ now \in UInt32

ActiveIds(leg) == {id \in SwapId : IsActive(swaps[leg], id)}

Collateral(leg)  == [id \in SwapId |-> swaps[leg][id].collateral]
Notional(leg)    == [id \in SwapId |-> swaps[leg][id].notional]
IbtQuantity(leg) == [id \in SwapId |-> swaps[leg][id].ibtQuantity]

(* The booked collateral of a leg is the sum of the collaterals of its active
   swaps: nothing else is ever added to or taken from it
   (_updateBalancesWhenOpenSwap..., _updateBalancesWhenCloseSwap...). *)
CollateralBacked ==
    \A leg \in Leg :
        balances.totalCollateral[leg] = SumFunctionOnSet(Collateral(leg), ActiveIds(leg))

(* The notional and the quantity of interest bearing tokens that SOAP works
   with are those of the active swaps, also after the branch that resets the
   indicators when the notional of the swap equals that of the leg. *)
SoapTotalsBacked ==
    \A leg \in Leg :
        /\ soap[leg].totalNotional = SumFunctionOnSet(Notional(leg), ActiveIds(leg))
        /\ soap[leg].totalIbtQuantity = SumFunctionOnSet(IbtQuantity(leg), ActiveIds(leg))

(* The terms of an open swap never change, only its place in the list may; a
   closed swap never changes and is never opened again
   (_updateSwapsWhenClose moves another swap of the same buyer). *)
SwapsFrozen ==
    [][\A leg \in Leg, id \in SwapId :
          swaps[leg][id].id # 0 =>
              /\ SwapTermsOf(swaps'[leg][id]) = SwapTermsOf(swaps[leg][id])
              /\ ~IsActive(swaps[leg], id) => swaps'[leg][id] = swaps[leg][id]]_vars

(* The books are written by the contracts that the owner has named and by no
   other: as long as Milton is not named there are no swaps, and as long as
   neither is named nothing is booked (the modifiers onlyMilton, onlyJoseph). *)
NoWriterNoBooks ==
    /\ milton = NoAddress =>
          /\ lastSwapId = 0
          /\ balances.vault = 0
          /\ \A leg \in Leg : ActiveIds(leg) = {}
    /\ joseph = NoAddress => \A a \in Account : contribution[a] = 0
    /\ milton = NoAddress /\ joseph = NoAddress => balances.liquidityPool = 0

(* IMiltonStorage.sol:259 says that pause() pauses the contract. *)
PausedStorageIsFrozen == [][paused /\ paused' => UNCHANGED <<bookVars, contribution>>]_vars
=============================================================================
