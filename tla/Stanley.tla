------------------------------ MODULE Stanley ------------------------------
(***************************************************************************)
(* The asset management vault: contracts/vault/Stanley.sol, as functions   *)
(* of a vault record that Milton's transactions apply.                     *)
(*                                                                         *)
(*   at        the contract in each of the two places for a strategy       *)
(*   held      the share tokens of each contract: a StrategyAave has       *)
(*             aTokens, in WAD, a StrategyCompound has cTokens             *)
(*   stored    Compound's exchange rate as it was last stored              *)
(*   current   the same with the interest accrued since                    *)
(*   conversions  times that cTokens were minted or redeemed (history)     *)
(*   reported  those up to when Milton was last told the balance (history) *)
(*   approved  the contracts that may take the asset from Stanley          *)
(*   iv        supply of the vault's share token; Milton owns all of it    *)
(*   max       the place that pays the higher APR (_getMaxApyStrategy)     *)
(*   paused                                                                *)
(*                                                                         *)
(* Which of the two strategies pays more is up to the markets behind them. *)
(* Each call yields a record with ok = FALSE when the code reverts.        *)
(***************************************************************************)
EXTENDS IporMath

CONSTANTS
    Unit,               \* WAD units in one unit of the asset's ERC20 token
    AaveContracts,      \* the StrategyAave contracts of the asset
    CompoundContracts,  \* the StrategyCompound contracts of the asset
    InitialRate         \* Compound's exchange rate at first

StrategyContract == AaveContracts \cup CompoundContracts

(* A rate is the price of a cToken in units of the asset, times 1.0; one
   cToken is worth a unit of WAD or more. *)
ASSUME VaultAssumption ==
    /\ Unit \in Nat \ {0}
    /\ D18 % Unit = 0          \* the token has at most 18 decimals
    /\ AaveContracts # {}
    /\ CompoundContracts # {}
    /\ AaveContracts \cap CompoundContracts = {}
    /\ InitialRate \in Nat
    /\ InitialRate * Unit >= D18

Aave == "Aave"
Compound == "Compound"
Strategy == {Aave, Compound}

Vault == [at: [Strategy -> StrategyContract], held: [StrategyContract -> Nat],
          stored: Nat, current: Nat, conversions: Nat, reported: Nat,
          approved: SUBSET StrategyContract, iv: Nat, max: Strategy, paused: BOOLEAN]

FirstStrategies ==
    [s \in Strategy |-> CHOOSE c \in IF s = Aave THEN AaveContracts
                                      ELSE CompoundContracts : TRUE]

EmptyVault == [at |-> FirstStrategies, held |-> [c \in StrategyContract |-> 0],
               stored |-> InitialRate, current |-> InitialRate, conversions |-> 0, reported |-> 0,
               approved |-> {FirstStrategies[Aave], FirstStrategies[Compound]},
               iv |-> 0, max |-> Aave, paused |-> FALSE]

ToAsset(wad) == ConvertWadToAssetDecimals(wad, Unit)
ToWad(assets) == ConvertToWad(assets, Unit)

-----------------------------------------------------------------------------
(* The strategies.  On Aave an aToken is a unit of the asset.  Compound's
   market, which is external, accrues its interest at every mint and redeem
   and rounds both down; balanceOf uses the rate stored before. *)
BalanceOf(vault, contract) ==
    IF contract \in AaveContracts THEN vault.held[contract]
    ELSE Division(vault.stored * vault.held[contract], D18 \div Unit)

Accrued(vault) == [vault EXCEPT !.stored = vault.current]

MintedTokens(vault, assets) == (assets * D18) \div vault.current

RedeemedAssets(vault, tokens) == (tokens * vault.current) \div D18

Converted(vault, contract, tokens) ==
    [vault EXCEPT !.held[contract] = @ + tokens, !.stored = vault.current,
                  !.conversions = @ + 1]

(* The cTokens redeemed for an amount: at the stored rate, rounded half up. *)
RedeemedTokens(vault, amount) ==
    Division(ConvertWadToAssetDecimalsWithoutRound(amount, Unit) * D18, vault.stored)

AaveWithdrawn(amount) == ToWad(ToAsset(amount))

StrategyDeposit(vault, contract, amount) ==
    IF contract \in AaveContracts
    THEN [vault EXCEPT !.held[contract] = @ + ToWad(ToAsset(amount))]
    ELSE Converted(vault, contract, MintedTokens(vault, ToAsset(amount)))

(* Mutation of StrategyWithdraw: what was asked for counts as paid. *)
StrategyWithdraw_Asked(vault, contract, amount) ==
    IF contract \in AaveContracts
    THEN [ok |-> AaveWithdrawn(amount) <= vault.held[contract], paid |-> amount,
          vault |-> [vault EXCEPT !.held[contract] = @ - AaveWithdrawn(amount)]]
    ELSE LET tokens == RedeemedTokens(vault, amount)
         IN  [ok |-> tokens <= vault.held[contract],
              paid |-> amount,
              vault |-> Converted(vault, contract, -tokens)]

(* A StrategyCompound pays what it got, which need not be what it was asked
   for; withdrawing more than there is fails. *)
StrategyWithdraw(vault, contract, amount) ==
    IF contract \in AaveContracts
    THEN [ok |-> AaveWithdrawn(amount) <= vault.held[contract], paid |-> AaveWithdrawn(amount),
          vault |-> [vault EXCEPT !.held[contract] = @ - AaveWithdrawn(amount)]]
    ELSE LET tokens == RedeemedTokens(vault, amount)
         IN  [ok |-> tokens <= vault.held[contract],
              paid |-> ToWad(RedeemedAssets(vault, tokens)),
              vault |-> Converted(vault, contract, -tokens)]

-----------------------------------------------------------------------------
HeldAt(vault, strategy) == BalanceOf(vault, vault.at[strategy])

HeldTotal(vault) == HeldAt(vault, Aave) + HeldAt(vault, Compound)

InUse(vault) == {vault.at[Aave], vault.at[Compound]}

(* Assets per share for the total the strategies have, 1.0 when there are no
   shares or no assets. *)
VaultRate(assets, supply) ==
    IF assets = 0 \/ supply = 0 THEN D18 ELSE Division(assets * D18, supply)

VaultExchangeRate(vault) == VaultRate(HeldTotal(vault), vault.iv)

(* totalBalance(milton) goes through the rounded rate; deposit and withdraw
   report the strategies' balances themselves. *)
TotalBalance(vault) == Division(vault.iv * VaultExchangeRate(vault), D18)

(* A rate that is rounded to zero makes the code divide by zero, and revert,
   as it does when there are no shares to mint or to burn. *)
SharesFor(amount, rate) == IF rate = 0 THEN 0 ELSE Division(amount * D18, rate)

(* Mutation of Deposit: the balance counts the amount before its rounding. *)
Deposit_Unrounded(vault, amount) ==
    LET assets    == ToAsset(amount)
        shares    == SharesFor(amount, VaultExchangeRate(vault))
        target    == vault.at[vault.max]
        after     == StrategyDeposit(vault, target, amount)
    IN  [ok |-> /\ ~vault.paused
                /\ amount > 0 /\ assets > 0 /\ shares > 0
                /\ target \in vault.approved,
         vault |-> [after EXCEPT !.iv = @ + shares, !.reported = vault.conversions],
         assets |-> assets,
         deposited |-> amount,
         vaultBalance |-> HeldTotal(vault) + amount]

(* What is reported is the balance before and the amount deposited, not the
   balance after. *)
Deposit(vault, amount) ==
    LET assets    == ToAsset(amount)
        shares    == SharesFor(amount, VaultExchangeRate(vault))
        target    == vault.at[vault.max]
        after     == StrategyDeposit(vault, target, amount)
    IN  [ok |-> /\ ~vault.paused
                /\ amount > 0 /\ assets > 0 /\ shares > 0
                /\ target \in vault.approved,
         vault |-> [after EXCEPT !.iv = @ + shares, !.reported = vault.conversions],
         assets |-> assets,
         deposited |-> ToWad(assets),
         vaultBalance |-> HeldTotal(vault) + ToWad(assets)]

(* A withdrawal is served by one strategy: preferably by the one that pays
   less, and by what the larger one has when neither holds enough. *)
SelectStrategyAndWithdrawAmount(vault, amount) ==
    LET a == HeldAt(vault, Aave)
        c == HeldAt(vault, Compound)
    IN  CASE vault.max = Compound /\ amount <= a -> <<Aave, amount>>
          [] amount <= c /\ ~(vault.max = Compound /\ amount <= a) -> <<Compound, amount>>
          [] vault.max = Aave /\ amount <= a /\ amount > c -> <<Aave, amount>>
          [] OTHER -> IF a < c THEN <<Compound, c>> ELSE <<Aave, a>>

(* The shares burnt for what was withdrawn, at the rate after the strategy
   has paid; supply is the one read before. *)
SharesWithdrawn(withdrawn, remaining, supply) ==
    SharesFor(withdrawn, VaultRate(remaining + withdrawn, supply))

(* Nothing is asked of a strategy for an amount of zero. *)
WithdrawFromStrategy(vault, contract, amount) ==
    LET got  == StrategyWithdraw(vault, contract, amount)
        rate == VaultRate(HeldTotal(got.vault) + got.paid, vault.iv)
    IN  IF amount = 0 THEN [ok |-> TRUE, paid |-> 0, vault |-> vault]
        ELSE [got EXCEPT !.ok = @ /\ rate # 0]

Withdraw(vault, amount) ==
    LET selected == SelectStrategyAndWithdrawAmount(vault, amount)
        got      == WithdrawFromStrategy(vault, vault.at[selected[1]], selected[2])
        shares   == SharesWithdrawn(got.paid, HeldTotal(got.vault), vault.iv)
        burnt    == IF shares > vault.iv THEN vault.iv ELSE shares
    IN  IF selected[2] = 0
        THEN [ok |-> ~vault.paused /\ amount > 0, vault |-> vault, withdrawn |-> 0, vaultBalance |-> 0]
        ELSE [ok |-> ~vault.paused /\ amount > 0 /\ got.ok /\ burnt > 0,
              vault |-> [got.vault EXCEPT !.iv = @ - burnt, !.reported = got.vault.conversions],
              withdrawn |-> got.paid,
              vaultBalance |-> HeldTotal(got.vault)]

(* Mutation of WithdrawAll: the shares stay with Milton. *)
WithdrawAll_NotBurnt(vault) ==
    LET first  == WithdrawFromStrategy(vault, vault.at[Aave], HeldAt(vault, Aave))
        second == WithdrawFromStrategy(first.vault, vault.at[Compound], HeldAt(vault, Compound))
    IN  [ok |-> ~vault.paused /\ first.ok /\ second.ok /\ vault.iv > 0,
         vault |-> [second.vault EXCEPT !.reported = second.vault.conversions],
         withdrawn |-> first.paid + second.paid,
         vaultBalance |-> HeldTotal(second.vault)]

(* Everything each strategy has, in turn; the balance reported is the one
   after the last strategy paid. *)
WithdrawAll(vault) ==
    LET first  == WithdrawFromStrategy(vault, vault.at[Aave], HeldAt(vault, Aave))
        second == WithdrawFromStrategy(first.vault, vault.at[Compound], HeldAt(vault, Compound))
    IN  [ok |-> ~vault.paused /\ first.ok /\ second.ok /\ vault.iv > 0,
         vault |-> [second.vault EXCEPT !.iv = 0, !.reported = second.vault.conversions],
         withdrawn |-> first.paid + second.paid,
         vaultBalance |-> HeldTotal(second.vault)]

(* All that one contract has goes to another. *)
MoveAll(vault, from, to) ==
    LET got == StrategyWithdraw(vault, from, BalanceOf(vault, from))
    IN  [ok |-> got.ok, vault |-> StrategyDeposit(got.vault, to, got.paid)]

(* The owner moves what the strategy with the lower APR has to the other. *)
Migrate(vault) ==
    LET from == vault.at[IF vault.max = Aave THEN Compound ELSE Aave]
        to   == vault.at[vault.max]
    IN  [ok |-> /\ ~vault.paused
                /\ BalanceOf(vault, from) > 0
                /\ MoveAll(vault, from, to).ok
                /\ to \in vault.approved,
         vault |-> MoveAll(vault, from, to).vault]

(* What the old contract of a strategy has, if anything, goes to the new. *)
TransferFromOldToNewStrategy(vault, old, new) ==
    IF BalanceOf(vault, old) > 0 THEN MoveAll(vault, old, new)
    ELSE [ok |-> TRUE, vault |-> vault]

(* Mutation of SetStrategy: the contract replaced may still take the asset. *)
SetStrategy_NotRevoked(vault, strategy, new) ==
    LET old   == vault.at[strategy]
        moved == TransferFromOldToNewStrategy(vault, old, new)
    IN  [ok |-> ~vault.paused /\ moved.ok,
         vault |-> [moved.vault EXCEPT !.at[strategy] = new, !.approved = @ \cup {new}]]

(* The owner puts another contract in a strategy's place.  The new one is
   allowed to take the asset, gets what the old one pays, and only then is the
   old one's allowance revoked: also when old and new are the same. *)
SetStrategy(vault, strategy, new) ==
    LET old   == vault.at[strategy]
        moved == TransferFromOldToNewStrategy(vault, old, new)
    IN  [ok |-> ~vault.paused /\ moved.ok,
         vault |-> [moved.vault EXCEPT !.at[strategy] = new,
                                       !.approved = (@ \cup {new}) \ {old}]]
=============================================================================
