-------------------------------- MODULE Amm --------------------------------
(***************************************************************************)
(* The AMM of one asset: Milton, its storage, Joseph, the ipToken and      *)
(* Stanley, each transaction an action.  The asset itself, the interest    *)
(* the strategies earn, the price of the interest bearing token that       *)
(* drives payoffs and the rate the spread model quotes come from outside.  *)
(***************************************************************************)
EXTENDS Milton

CONSTANTS
    LegSequences,       \* the lists of ids that closeSwaps is called with
    OpenAmountsIn,      \* amounts sent by buyers, in the decimals of the asset
    Leverages, Quotes,
    ProvideAmounts, RedeemAmounts, MoveAmounts, TreasuryAmounts, Ratios,
    MAX_POOL, MAX_CONTRIBUTION, AUTO_REBALANCE_THRESHOLD,
    Pausable,           \* the contracts the owner pauses
    Replacements,       \* what setStrategyAave, setStrategyCompound are called with
    FirstMax,           \* the strategies that may pay more at first
    IbtPrices, Interest, RateSteps,            \* what the markets do in a tick
    MAX_HELD, MAX_CONVERSIONS, MAX_SHARE, MaxTime  \* bounds of the environment

ASSUME AmmAssumption ==
    /\ LegSequences \subseteq Seq(SwapId)
    /\ UNION {OpenAmountsIn, Leverages, Quotes, ProvideAmounts, RedeemAmounts,
              MoveAmounts, TreasuryAmounts} \subseteq Nat
    /\ Ratios \subseteq 1..(D18 - 1)
    /\ {MAX_POOL, MAX_CONTRIBUTION, AUTO_REBALANCE_THRESHOLD, Interest,
        MAX_HELD, MAX_CONVERSIONS, MAX_SHARE} \subseteq Nat
    /\ RateSteps \subseteq Nat
    /\ Pausable \subseteq {"Milton", "Joseph", "Stanley"}
    /\ Replacements \subseteq Strategy \X StrategyContract
    /\ FirstMax \subseteq Strategy
    /\ IbtPrices \subseteq Nat \ {0}
    /\ MaxTime \in UInt32
    /\ IsFiniteSet(Account) /\ IsFiniteSet(StrategyContract)
    /\ Contract # {}

VARIABLES
    cash,           \* Milton's balance of the asset, in its decimals
    vault,          \* Stanley
    ipTokens,       \* account -> balance of the pool's share token
    ratio,          \* _miltonStanleyBalanceRatio
    pausedContracts,\* those of Milton and Joseph that are paused
    ibtPrice,       \* the accrued price of the interest bearing token
    now,            \* block.timestamp
    unowned,        \* history: what was booked as being on Stanley and as nobody's
    hidden          \* history: the most that a check of the pool's size overlooked

marketVars == <<ibtPrice, now>>
historyVars == <<unowned, hidden>>
accessVars == <<milton, joseph, paused, pausedContracts>>
vars == <<storageVars, cash, vault, ipTokens, ratio, pausedContracts, ibtPrice, now, historyVars>>

Running(contract) == contract \notin pausedContracts

-----------------------------------------------------------------------------
(* Transactions *)

(* Bounds: cTokens are converted so many times, and shares of Stanley, which
   every deposit and withdrawal wears down by its roundings, are worth so much. *)
VaultBounded(v) ==
    /\ v.conversions <= MAX_CONVERSIONS
    /\ VaultExchangeRate(v) <= MAX_SHARE
    /\ HeldTotal(Accrued(v)) <= MAX_HELD

NewTx == [ok |-> TRUE, swaps |-> swaps, ids |-> ids, balances |-> balances,
          soap |-> soap, cash |-> cash, vault |-> vault, payout |-> 0,
          unowned |-> unowned]

Commit(tx) ==
    /\ tx.ok
    /\ VaultBounded(tx.vault)
    /\ swaps' = tx.swaps
    /\ ids' = tx.ids
    /\ balances' = tx.balances
    /\ soap' = tx.soap
    /\ cash' = tx.cash
    /\ vault' = tx.vault
    /\ unowned' = tx.unowned

AccruedPool == AccruedLiquidityPool(balances, vault)

Supply == SumFunctionOnSet(ipTokens, Account)

SoapNow == CalculateSoap(soap, ibtPrice, now)

PoolRate == ExchangeRate(SoapNow, Supply, AccruedPool)

(* History: a check of the collateral against a pool of some size passed; a
   utilization of at most 1.0 is rounded half up, and the pool may have been
   measured with more than is there. *)
Measured(pool, overstated) ==
    LET overlooked == pool \div (2 * D18) + 1 + overstated
    IN  hidden' = IF overlooked > hidden THEN overlooked ELSE hidden

(* How much more than the strategies have is counted, by the vault's rate. *)
Overstated == IF TotalBalance(vault) > HeldTotal(vault)
              THEN TotalBalance(vault) - HeldTotal(vault) ELSE 0

-----------------------------------------------------------------------------
(* Milton *)

OpenSwap ==
    \E leg \in Leg, buyer \in Account, amount \in OpenAmountsIn,
       leverage \in Leverages, quote \in Quotes :
        LET wad == ToWad(amount)
            new == NewSwapFor(buyer, wad, leverage, quote, ibtPrice, now)
        IN  /\ Running("Milton")
            /\ amount > 0
            /\ BeforeOpenSwapOK(wad, leverage)
            /\ OpenUtilizationOK(balances, leg, new)
            /\ UpdateStorageWhenOpenSwap(milton, leg, new, PUBLICATION_FEE)
            /\ cash' = cash + amount
            /\ Measured(balances.liquidityPool + new.openingFeeLPAmount, 0)
            /\ UNCHANGED <<vault, ipTokens, ratio, pausedContracts, marketVars, unowned>>

CloseOne(leg, id, sender) ==
    /\ IsActive(swaps[leg], id)
    /\ Commit(TransferLiquidationDeposit(
                 CloseSwapTx(NewTx, leg, id, sender, ibtPrice, now, ratio)))
    /\ UNCHANGED <<lastSwapId, contribution, accessVars, ipTokens, ratio, marketVars, hidden>>

CloseSwap ==
    /\ Running("Milton")
    /\ \E leg \in Leg, id \in SwapId, sender \in Account \cup {Owner} :
          CloseOne(leg, id, sender)

(* Both legs in one transaction, the pay-fixed leg first. *)
CloseSwaps ==
    /\ Running("Milton")
    /\ \E payFixed \in LegSequences, receiveFixed \in LegSequences,
          sender \in Account \cup {Owner} :
          LET first  == CloseLegTx(NewTx, PayFixed, payFixed, sender, ibtPrice, now, ratio)
              second == CloseLegTx(first, ReceiveFixed, receiveFixed, sender, ibtPrice, now, ratio)
          IN  /\ Len(payFixed) <= LEG_LIMIT
              /\ Len(receiveFixed) <= LEG_LIMIT
              /\ Commit(TransferLiquidationDeposit(second))
    /\ UNCHANGED <<lastSwapId, contribution, accessVars, ipTokens, ratio, marketVars, hidden>>

EmergencyCloseSwap ==
    /\ ~Running("Milton")
    /\ \E leg \in Leg, id \in SwapId : CloseOne(leg, id, Owner)

EmergencyCloseSwaps ==
    /\ ~Running("Milton")
    /\ \E leg \in Leg, list \in LegSequences :
          /\ Len(list) <= LEG_LIMIT
          /\ Commit(TransferLiquidationDeposit(
                       CloseLegTx(NewTx, leg, list, Owner, ibtPrice, now, ratio)))
    /\ UNCHANGED <<lastSwapId, contribution, accessVars, ipTokens, ratio, marketVars, hidden>>

-----------------------------------------------------------------------------
(* Joseph.  It moves assets between Milton and Stanley through functions of
   Milton that are not paused. *)

MoveToStanley(amount) ==
    /\ Running("Milton")
    /\ Running("Joseph")
    /\ Commit(DepositToStanleyTx(NewTx, amount))
    /\ UNCHANGED <<lastSwapId, contribution, accessVars, ipTokens, ratio, marketVars, hidden>>

MoveFromStanley(result) ==
    /\ Running("Milton")
    /\ Running("Joseph")
    /\ Commit(WithdrawFromStanleyTx(NewTx, result))
    /\ UNCHANGED <<lastSwapId, contribution, accessVars, ipTokens, ratio, marketVars, hidden>>

DepositToStanley == \E amount \in MoveAmounts : MoveToStanley(amount)

WithdrawFromStanley ==
    \E amount \in MoveAmounts : MoveFromStanley(Withdraw(vault, amount))

WithdrawAllFromStanley == MoveFromStanley(WithdrawAll(vault))

(* The ratio of Milton's tokens to the total, against the target. *)
Rebalance ==
    LET wadCash == ToWad(cash)
        total   == wadCash + TotalBalance(vault)
        target  == MiltonTarget(total, ratio)
    IN  /\ total > 0
        /\ \/ /\ Division(wadCash * D18, total) > ratio
              /\ wadCash > target
              /\ MoveToStanley(wadCash - target)
           \/ /\ Division(wadCash * D18, total) <= ratio
              /\ target > wadCash
              /\ MoveFromStanley(Withdraw(vault, target - wadCash))

(* The rebalance after the deposit works with the vault's balance read before. *)
ProvideLiquidity ==
    \E account \in Account, assets \in ProvideAmounts :
        LET wad    == ToWad(assets)
            rate   == PoolRate
            minted == MintedFor(wad, rate)
            paid   == [NewTx EXCEPT !.balances.liquidityPool = @ + wad, !.cash = @ + assets]
            move   == RebalanceAmountAfterProvideLiquidity(ToWad(paid.cash), TotalBalance(vault), ratio)
            moving == AUTO_REBALANCE_THRESHOLD > 0 /\ wad >= AUTO_REBALANCE_THRESHOLD /\ move > 0
        IN  /\ Running("Joseph")
            /\ AccruedPool >= 0
            /\ AccruedPool - SoapNow >= 0
            /\ rate > 0
            /\ CanAddLiquidity(balances, contribution[account], wad, MAX_POOL, MAX_CONTRIBUTION)
            /\ minted > 0
            /\ moving => Running("Milton")
            /\ Commit(IF moving THEN DepositToStanleyTx(paid, move) ELSE paid)
            /\ contribution' = [contribution EXCEPT ![account] = @ + wad]
            /\ ipTokens' = [ipTokens EXCEPT ![account] = @ + minted]
            /\ UNCHANGED <<lastSwapId, accessVars, ratio, marketVars, hidden>>

(* The pool is measured with its interest, but what is redeemed is taken from
   the booked pool. *)
Redeem ==
    \E account \in Account, ipAmount \in RedeemAmounts :
        LET rate    == PoolRate
            assets  == RedeemAmount(ipAmount, rate, Unit)
            wad     == ToWad(assets)
            wadCash == ToWad(cash)
            move    == RebalanceAmountBeforeRedeem(wadCash, TotalBalance(vault), wad, ratio)
            moving  == /\ \/ wad > wadCash
                          \/ AUTO_REBALANCE_THRESHOLD > 0 /\ wad >= AUTO_REBALANCE_THRESHOLD
                       /\ move < 0
            funded  == IF moving THEN WithdrawFromStanleyTx(NewTx, Withdraw(vault, -move))
                       ELSE NewTx
            booked  == [funded EXCEPT !.balances.liquidityPool = @ - wad]
        IN  /\ Running("Joseph")
            /\ ipAmount > 0
            /\ ipAmount <= ipTokens[account]
            /\ AccruedPool >= 0
            /\ AccruedPool - SoapNow >= 0
            /\ rate > 0
            /\ wadCash + TotalBalance(vault) > wad
            /\ moving => Running("Milton")
            /\ RedeemedUtilizationOK(AccruedPool,
                   balances.totalCollateral[PayFixed] + balances.totalCollateral[ReceiveFixed], wad)
            /\ funded.ok
            /\ Fits(booked.balances.liquidityPool, MAX_UINT128)
            /\ Commit(Pay(booked, assets))
            /\ ipTokens' = [ipTokens EXCEPT ![account] = @ - ipAmount]
            /\ Measured(AccruedPool - wad, Overstated)
            /\ UNCHANGED <<lastSwapId, contribution, accessVars, ratio, marketVars>>

TransferToTreasury ==
    \E amount \in TreasuryAmounts :
        /\ Running("Joseph")
        /\ UpdateStorageWhenTransferToTreasury(joseph, ToWad(ToAsset(amount)))
        /\ ToAsset(amount) <= cash
        /\ cash' = cash - ToAsset(amount)
        /\ UNCHANGED <<vault, ipTokens, ratio, pausedContracts, marketVars, historyVars>>

TransferToCharlieTreasury ==
    \E amount \in TreasuryAmounts :
        /\ Running("Joseph")
        /\ UpdateStorageWhenTransferToCharlieTreasury(joseph, ToWad(ToAsset(amount)))
        /\ ToAsset(amount) <= cash
        /\ cash' = cash - ToAsset(amount)
        /\ UNCHANGED <<vault, ipTokens, ratio, pausedContracts, marketVars, historyVars>>

SetMiltonStanleyBalanceRatio ==
    \E newRatio \in Ratios \ {ratio} :
        /\ ratio' = newRatio
        /\ UNCHANGED <<storageVars, cash, vault, ipTokens, pausedContracts, marketVars, historyVars>>

-----------------------------------------------------------------------------
(* The owner and the markets.  A contract that runs is paused, a paused one
   runs again. *)

Toggled(contract) ==
    pausedContracts' = IF Running(contract) THEN pausedContracts \cup {contract}
                       ELSE pausedContracts \ {contract}

PauseMilton ==
    /\ "Milton" \in Pausable
    /\ Toggled("Milton")
    /\ UNCHANGED <<storageVars, cash, vault, ipTokens, ratio, marketVars, historyVars>>

PauseJoseph ==
    /\ "Joseph" \in Pausable
    /\ Toggled("Joseph")
    /\ UNCHANGED <<storageVars, cash, vault, ipTokens, ratio, marketVars, historyVars>>

PauseStanley ==
    /\ "Stanley" \in Pausable
    /\ vault' = [vault EXCEPT !.paused = ~@]
    /\ UNCHANGED <<storageVars, cash, ipTokens, ratio, pausedContracts, marketVars, historyVars>>

MigrateAssetToStrategyWithMaxApr ==
    LET result == Migrate(vault)
    IN  /\ result.ok
        /\ VaultBounded(result.vault)
        /\ vault' = result.vault
        /\ UNCHANGED <<storageVars, cash, ipTokens, ratio, pausedContracts, marketVars, historyVars>>

SetStrategyOfStanley ==
    \E call \in Replacements :
        LET result == SetStrategy(vault, call[1], call[2])
        IN  /\ result.ok
            /\ VaultBounded(result.vault)
            /\ vault' = result.vault
            /\ UNCHANGED <<storageVars, cash, ipTokens, ratio, pausedContracts, marketVars, historyVars>>

(* Time passes.  Meanwhile the price of the interest bearing token rises or
   stays, aTokens have earned whole units of the token, Compound has earned by
   its rate, which somebody else's transaction may have stored, and another
   strategy may pay more.  cTokens that a replaced contract kept earn too. *)
Earned(held, earning) ==
    [c \in StrategyContract |-> IF c \in earning THEN held[c] + ToWad(Interest) ELSE held[c]]

Tick ==
    /\ now < MaxTime
    /\ now' = now + 1
    /\ \E price \in IbtPrices : price >= ibtPrice /\ ibtPrice' = price
    /\ \E earning \in SUBSET {c \in AaveContracts : vault.held[c] > 0},
          step \in RateSteps, stored \in BOOLEAN, max \in Strategy :
          vault' = [vault EXCEPT !.held = Earned(@, earning),
                                 !.current = @ + step,
                                 !.stored = IF stored THEN vault.current + step ELSE @,
                                 !.max = max]
    /\ VaultBounded(vault')
    /\ UNCHANGED <<storageVars, cash, ipTokens, ratio, pausedContracts, historyVars>>

-----------------------------------------------------------------------------
Init ==
    /\ BooksInit
    /\ milton = CHOOSE c \in Contract : TRUE
    /\ joseph = milton
    /\ paused = FALSE
    /\ cash = 0
    /\ vault \in {[EmptyVault EXCEPT !.max = s] : s \in FirstMax}
    /\ ipTokens = [a \in Account |-> 0]
    /\ ratio \in Ratios
    /\ pausedContracts = {}
    /\ ibtPrice \in {p \in IbtPrices : \A q \in IbtPrices : p <= q}
    /\ now = 0
    /\ unowned = 0
    /\ hidden = 0

Next ==
    \/ OpenSwap \/ CloseSwap \/ CloseSwaps \/ EmergencyCloseSwap \/ EmergencyCloseSwaps
    \/ DepositToStanley \/ WithdrawFromStanley \/ WithdrawAllFromStanley \/ Rebalance
    \/ ProvideLiquidity \/ Redeem \/ TransferToTreasury \/ TransferToCharlieTreasury
    \/ SetMiltonStanleyBalanceRatio \/ PauseMilton \/ PauseJoseph \/ PauseStanley
    \/ MigrateAssetToStrategyWithMaxApr \/ SetStrategyOfStanley \/ Tick

Spec == Init /\ [][Next]_vars

-----------------------------------------------------------------------------
(* Every value has its type; what is stored in a narrow type fits it. *)
TypeOK ==
    /\ StorageTypeOK
    /\ cash \in Nat
    /\ vault \in Vault
    /\ ipTokens \in [Account -> Nat]
    /\ ratio \in Ratios
    /\ pausedContracts \subseteq {"Milton", "Joseph"}
    /\ ibtPrice \in IbtPrices
    /\ now \in 0..MaxTime
    /\ unowned \in Nat /\ hidden \in Nat

ActiveIds(leg) == {id \in SwapId : IsActive(swaps[leg], id)}

Deposits(leg) == [id \in SwapId |-> WadDeposit(swaps[leg][id])]

(* The liquidation deposits of the open swaps of a leg. *)
DepositsOf(leg) == SumFunctionOnSet(Deposits(leg), ActiveIds(leg))

TotalCollateral == balances.totalCollateral[PayFixed] + balances.totalCollateral[ReceiveFixed]

(* What Milton owes: to the liquidity providers, the buyers, both treasuries
   and the liquidators. *)
Claims == balances.liquidityPool + TotalCollateral + balances.iporPublicationFee
          + balances.treasury + DepositsOf(PayFixed) + DepositsOf(ReceiveFixed)

(* No token is owed twice, or to nobody: the tokens on Milton and what is
   booked as being on Stanley are, but for roundings, the sum of all claims and
   of what the code booked for nobody.  Opening rounds the collateral and the
   fee by at most one unit together; each payment for a swap is rounded to the
   decimals of the asset. *)
LedgerBalanced ==
    2 * AbsoluteValue(ToWad(cash) + balances.vault - Claims - unowned)
        <= (2 + Unit) * lastSwapId

(* What contracts that were replaced still have. *)
Stranded(v) ==
    SumFunctionOnSet([c \in StrategyContract |-> BalanceOf(v, c)], StrategyContract \ InUse(v))

(* What one minting or redeeming of cTokens can change the balances by: what is
   paid is rounded down to a unit, what is minted to a cToken, and balances are
   rounded half up (StrategyCompound.balanceOf, deposit, withdraw). *)
CompoundRounding(v) == Unit + ToWad(v.current) \div D18 + 1

(* What all of them up to now can have. *)
CompoundRoundings(v) == v.conversions * CompoundRounding(v)

(* The strategies have at least what is booked as being there, but for what a
   replaced contract could not pay and for Compound's roundings since the balance
   was reported: a deposit is booked as if its cTokens were worth all of it.
   Transactions that touch Stanley revert on the subtraction that books the
   interest until the strategies have earned that difference, and never wait for
   more (updateStorageWhenDepositToStanley, ...WithdrawFromStanley). *)
VaultNeverOverbooked ==
    balances.vault <= HeldTotal(vault) + Stranded(vault)
                      + (vault.conversions - vault.reported) * CompoundRounding(vault)

(* However often contracts are replaced, by themselves, by others and back,
   one that is out of use may not take Stanley's tokens and has nothing left on
   Aave, and on Compound fewer cTokens than a unit of the asset and one cToken
   more bought at first (_transferFromOldToNewStrategy,
   _revokeStrategyAllowance). *)
ReplacedContractsAreLeft ==
    \A c \in StrategyContract \ InUse(vault) :
        /\ c \notin vault.approved
        /\ IF c \in AaveContracts THEN vault.held[c] = 0
           ELSE vault.held[c] * InitialRate < InitialRate + D18

(* The pool as it is once the interest earned so far is booked. *)
PoolWithInterest == balances.liquidityPool + HeldTotal(Accrued(vault)) - balances.vault

(* The same with what replaced contracts kept back and what was booked for
   nobody. *)
WholePool == PoolWithInterest + Stranded(Accrued(vault)) + unowned

(* The pool with its interest covers the largest payoff of all open swaps at
   once, so the swaps can be closed in any order and at any price, but for
   Compound's roundings and the most that a check of its size overlooked.  The
   guards are spread over opening (booked pool), redeeming (accrued pool) and
   closing. *)
PoolCoversCollateral ==
    TotalCollateral <= WholePool + CompoundRoundings(vault) + hidden

(* Shares of Stanley end with the tokens they stand for: a withdrawal that takes
   the last of the strategies leaves no more shares than the roundings of the
   rate and of the shares burnt.  totalBalance takes shares of nothing at a rate
   of 1.0, and a redeem is then measured against tokens that nobody holds
   (withdraw, withdrawAll, _calcExchangeRate). *)
SharesEndWithTokens ==
    \A r \in {Withdraw(vault, amount) : amount \in MoveAmounts} \cup {WithdrawAll(vault)} :
        LET rate == VaultRate(r.withdrawn, vault.iv)
        IN  r.ok /\ r.withdrawn > 0 /\ HeldTotal(r.vault) = 0 =>
                2 * rate * r.vault.iv <= vault.iv + rate

(* What a share is measured by, and what the pool is worth: all that the
   strategies have for it is counted, without the rounded rate of Stanley and
   with the interest that Compound has not stored yet. *)
PoolValue == AccruedPool - SoapNow

PoolWorth == WholePool - SoapNow

(* What the cTokens minted and redeemed in a step can change the pool by. *)
StepRounding == (vault'.conversions - vault.conversions) * CompoundRounding(vault')

(* Liquidity providers are neither diluted nor enriched by another one's
   deposit, and not diluted by a redemption, also when the transaction moves
   tokens to or from Stanley: the pool is worth more by what the minted tokens
   stand for at the value of a share, and less by no more than what the burnt
   ones stand for.  Half a unit of the rate, of the ipTokens, of the amount and
   of the asset may be rounded, and the cTokens of a move to or from Compound
   (_provideLiquidity, _redeem). *)
ProvidersKeepTheirShare ==
    [][/\ Supply > 0 /\ Supply' > Supply =>
            LET minted == Supply' - Supply
            IN  2 * D18 * AbsoluteValue(Supply * (PoolWorth' - PoolWorth) - minted * PoolValue)
                    <= Supply * (PoolRate + minted + 2 * D18 * StepRounding)
       /\ Supply' < Supply =>
            LET burnt == Supply - Supply'
            IN  2 * D18 * (Supply * (PoolWorth - PoolWorth') - burnt * PoolValue)
                    <= Supply * (burnt + D18 + D18 * Unit + 2 * D18 * StepRounding)]_vars

(* Moving tokens between Milton, Stanley and the strategies, also from one
   strategy to the other or to the contract that replaces it, and paying out
   the treasuries, changes the pool by the roundings of the cTokens it mints and
   redeems and by nothing else, whether its interest was booked or not
   (updateStorageWhenDepositToStanley, ...WithdrawFromStanley, _setStrategy). *)
MovesKeepThePool ==
    [][UNCHANGED <<swaps, ipTokens, now>> => AbsoluteValue(WholePool' - WholePool) <= StepRounding]_vars

-----------------------------------------------------------------------------
(* What comments and tests say, and the code does not do. *)

(* MiltonErrors.sol:68 says of the revert of a close whose payoff exceeds the
   booked pool that the situation should never happen. *)
BookedPoolPaysEachSwap ==
    \A leg \in Leg : \A id \in ActiveIds(leg) :
        CalculatePayoff(leg, swaps[leg][id], now, ibtPrice) <= balances.liquidityPool

(* JosephRebalance.t.sol, testShouldClosePositionWhenMiltonDoesntHaveCashButStanleyHas:
   a liquidator can close a swap that could be closed if Stanley's tokens were
   on Milton.  (Here one strategy has all of them, so that it can pay them.) *)
ClosingBy(sender, tx, leg, id) ==
    TransferLiquidationDeposit(CloseSwapTx(tx, leg, id, sender, ibtPrice, now, ratio))

StanleyPaysForClosing ==
    (~vault.paused /\ \E s \in Strategy : HeldAt(vault, s) = 0) =>
        \A leg \in Leg : \A id \in ActiveIds(leg), sender \in Account \cup {Owner} :
            ClosingBy(sender, [NewTx EXCEPT !.cash = @ + ToAsset(HeldTotal(vault))], leg, id).ok
                => ClosingBy(sender, NewTx, leg, id).ok
=============================================================================
