--------------------------- MODULE MiltonStorage ---------------------------
(***************************************************************************)
(* The storage contract of the AMM: contracts/amm/MiltonStorage.sol.       *)
(*                                                                         *)
(* It keeps the swaps of both legs, for every buyer and leg the list of    *)
(* the ids of the buyer's active swaps, the booked balances, the SOAP      *)
(* indicators of each leg and what every liquidity provider contributed.   *)
(* Milton opens and closes swaps and books what Stanley holds; Joseph      *)
(* books liquidity and the transfers to the treasuries.                    *)
(*                                                                         *)
(* A transaction that reverts changes nothing, so a require, a failing     *)
(* cast and a checked subtraction are all guards.  The operators on the    *)
(* books (SwapsWhenOpen ... SoapWhenClose) are functions of the values     *)
(* they change, so that Milton can apply them several times in one         *)
(* transaction.                                                            *)
(***************************************************************************)
EXTENDS SoapIndicatorLogic, Sequences, FiniteSets

CONSTANTS
    Account,            \* the buyers, liquidity providers and liquidators
    Owner,              \* the owner of the contract
    Contract,           \* the contracts that _milton and _joseph may name
    NoAddress,          \* address(0)
    MAX_UINT32,         \* the widths of the stored types
    MAX_UINT64,
    MAX_UINT128,
    SWAP_PERIOD,        \* SWAP_DEFAULT_PERIOD_IN_SECONDS
    CLOSE_WINDOW,       \* _SECONDS_BEFORE_MATURITY_WHEN_POSITION_CAN_BE_CLOSED
    MIN_LIQUIDATION_THRESHOLD  \* _MIN_LIQUIDATION_THRESHOLD_TO_CLOSE_BEFORE_MATURITY

ASSUME StorageAssumption ==
    /\ NoAddress \notin Account \cup Contract \cup {Owner}
    /\ MAX_UINT32 \in Nat
    /\ MAX_UINT64 \in Nat
    /\ MAX_UINT128 \in Nat
    /\ SWAP_PERIOD \in Nat
    /\ CLOSE_WINDOW \in Nat
    /\ MIN_LIQUIDATION_THRESHOLD \in Nat

VARIABLES
    lastSwapId,     \* _lastSwapId, shared by the legs
    swaps,          \* leg -> id -> swap
    ids,            \* leg -> buyer -> ids of the buyer's active swaps
    balances,       \* _balances
    soap,           \* leg -> SOAP indicators
    contribution,   \* _liquidityPoolAccountContribution
    milton, joseph, \* the contracts allowed to write
    paused

bookVars == <<lastSwapId, swaps, ids, balances, soap>>
storageVars == <<lastSwapId, swaps, ids, balances, soap, contribution,
                 milton, joseph, paused>>

ACTIVE == "ACTIVE"
INACTIVE == "INACTIVE"

SwapId == 1..MAX_UINT32
UInt32 == 0..MAX_UINT32
UInt64 == 0..MAX_UINT64
UInt128 == 0..MAX_UINT128

Swap == [id: UInt32, buyer: Account \cup {NoAddress}, openTimestamp: UInt32,
         idsIndex: UInt32, collateral: UInt128, notional: UInt128,
         ibtQuantity: UInt128, fixedInterestRate: UInt64,
         liquidationDepositAmount: UInt32, state: {ACTIVE, INACTIVE}]

(* What the mapping holds for an id that was never used. *)
NoSwap == [id |-> 0, buyer |-> NoAddress, openTimestamp |-> 0, idsIndex |-> 0,
           collateral |-> 0, notional |-> 0, ibtQuantity |-> 0,
           fixedInterestRate |-> 0, liquidationDepositAmount |-> 0,
           state |-> INACTIVE]

Balances == [totalCollateral: [Leg -> UInt128], liquidityPool: UInt128,
             vault: UInt128, iporPublicationFee: UInt128, treasury: UInt128]

-----------------------------------------------------------------------------
(* Swaps and the lists of ids: sw is the mapping of one leg, lists the ids  *)
(* of that leg.                                                             *)

NewSwapFits(new) ==
    /\ Fits(new.openTimestamp, MAX_UINT32)
    /\ Fits(new.collateral, MAX_UINT128)
    /\ Fits(new.notional, MAX_UINT128)
    /\ Fits(new.ibtQuantity, MAX_UINT128)
    /\ Fits(new.fixedInterestRate, MAX_UINT64)
    /\ Fits(new.liquidationDepositAmount, MAX_UINT32)

(* Mutation of SwapsWhenOpen: the id is counted per buyer. *)
SwapsWhenOpen_IdPerBuyer(sw, lists, id, new) ==
    [sw EXCEPT ![id] =
        [id |-> Len(lists[new.buyer]) + 1, buyer |-> new.buyer,
         openTimestamp |-> new.openTimestamp,
         idsIndex |-> Len(lists[new.buyer]), collateral |-> new.collateral,
         notional |-> new.notional, ibtQuantity |-> new.ibtQuantity,
         fixedInterestRate |-> new.fixedInterestRate,
         liquidationDepositAmount |-> new.liquidationDepositAmount,
         state |-> ACTIVE]]

SwapsWhenOpen(sw, lists, id, new) ==
    [sw EXCEPT ![id] =
        [id |-> id, buyer |-> new.buyer, openTimestamp |-> new.openTimestamp,
         idsIndex |-> Len(lists[new.buyer]), collateral |-> new.collateral,
         notional |-> new.notional, ibtQuantity |-> new.ibtQuantity,
         fixedInterestRate |-> new.fixedInterestRate,
         liquidationDepositAmount |-> new.liquidationDepositAmount,
         state |-> ACTIVE]]

(* Mutation of IdsWhenOpen: the counter is read before it is incremented. *)
IdsWhenOpen_StaleId(lists, id, new) == [lists EXCEPT ![new.buyer] = Append(@, id - 1)]

IdsWhenOpen(lists, id, new) ==
    [lists EXCEPT ![new.buyer] = Append(@, id)]

(* The id in the last place of the buyer's list takes the place of the id
   that leaves, and its swap is told. *)
MovedId(lists, buyer) == lists[buyer][Len(lists[buyer])]

IsLast(lists, swap) == swap.idsIndex >= Len(lists[swap.buyer]) - 1

(* Mutation of SwapsWhenClose: the swap that moves is not told. *)
SwapsWhenClose_MovedNotTold(sw, lists, swap) == [sw EXCEPT ![swap.id].state = INACTIVE]

(* Mutation of SwapsWhenClose: the closed swap is deleted. *)
SwapsWhenClose_Delete(sw, lists, swap) ==
    LET moved == MovedId(lists, swap.buyer)
        told  == IF IsLast(lists, swap) THEN sw
                 ELSE [sw EXCEPT ![moved].idsIndex = swap.idsIndex]
    IN  [told EXCEPT ![swap.id] = NoSwap]

SwapsWhenClose(sw, lists, swap) ==
    LET moved == MovedId(lists, swap.buyer)
        told  == IF IsLast(lists, swap) THEN sw
                 ELSE [sw EXCEPT ![moved].idsIndex = swap.idsIndex]
    IN  [told EXCEPT ![swap.id].state = INACTIVE]

IdsWhenClose(lists, swap) ==
    LET list == lists[swap.buyer]
        put  == IF IsLast(lists, swap) THEN list
                ELSE [list EXCEPT ![swap.idsIndex + 1] = MovedId(lists, swap.buyer)]
    IN  [lists EXCEPT ![swap.buyer] = SubSeq(put, 1, Len(list) - 1)]

(* The list of a buyer without active swaps has no last place: 0 - 1. *)
CanCloseSwap(lists, swap) ==
    /\ swap.id > 0
    /\ swap.state # INACTIVE
    /\ Len(lists[swap.buyer]) > 0

-----------------------------------------------------------------------------
(* Balances *)

BalancesFit(b) ==
    /\ \A leg \in Leg : Fits(b.totalCollateral[leg], MAX_UINT128)
    /\ Fits(b.liquidityPool, MAX_UINT128)
    /\ Fits(b.vault, MAX_UINT128)
    /\ Fits(b.iporPublicationFee, MAX_UINT128)
    /\ Fits(b.treasury, MAX_UINT128)

BalancesWhenOpen(b, leg, new, publicationFee) ==
    [b EXCEPT !.totalCollateral = [b.totalCollateral EXCEPT ![leg] = @ + new.collateral],
              !.iporPublicationFee = @ + publicationFee,
              !.liquidityPool = @ + new.openingFeeLPAmount,
              !.treasury = @ + new.openingFeeTreasuryAmount]

EndTimestamp(swap) == swap.openTimestamp + SWAP_PERIOD

(* Before it has come within CLOSE_WINDOW of its end, a swap whose payoff has
   not nearly used up the collateral is closed by its buyer or by the owner. *)
MayClose(liquidator, swap, payoff, timestamp) ==
    \/ AbsoluteValue(payoff) >= PercentOf(swap.collateral, MIN_LIQUIDATION_THRESHOLD)
    \/ liquidator = swap.buyer
    \/ timestamp >= EndTimestamp(swap) - CLOSE_WINDOW
    \/ liquidator = Owner

(* A winning buyer's payoff leaves the pool whole, its income fee goes to the
   treasury; of a losing buyer's payoff the pool gets what the fee leaves. *)
CanUpdateBalancesWhenClose(b, payoff, incomeFee) ==
    IF payoff > 0 THEN b.liquidityPool >= payoff ELSE -payoff >= incomeFee

(* Mutation of BalancesWhenClose: both legs free the collateral of the pay-fixed leg. *)
BalancesWhenClose_SameLeg(b, leg, swap, payoff, incomeFee) ==
    [b EXCEPT !.treasury = @ + incomeFee,
              !.liquidityPool = IF payoff > 0 THEN @ - payoff
                                ELSE @ + (-payoff - incomeFee),
              !.totalCollateral = [b.totalCollateral EXCEPT ![PayFixed] = @ - swap.collateral]]

BalancesWhenClose(b, leg, swap, payoff, incomeFee) ==
    [b EXCEPT !.treasury = @ + incomeFee,
              !.liquidityPool = IF payoff > 0 THEN @ - payoff
                                ELSE @ + (-payoff - incomeFee),
              !.totalCollateral = [b.totalCollateral EXCEPT ![leg] = @ - swap.collateral]]

(* What Stanley holds above what was booked is interest of the pool. *)
CanBookWithdraw(b, withdrawn, vaultBalance) ==
    vaultBalance + withdrawn >= b.vault

BalancesWhenWithdraw(b, withdrawn, vaultBalance) ==
    [b EXCEPT !.liquidityPool = @ + (vaultBalance + withdrawn - b.vault),
              !.vault = vaultBalance]

CanBookDeposit(b, deposit, vaultBalance) ==
    /\ vaultBalance >= deposit
    /\ b.vault <= vaultBalance - deposit

(* Mutation of BalancesWhenDeposit: the deposit itself is booked as interest. *)
BalancesWhenDeposit_DepositIsInterest(b, deposit, vaultBalance) ==
    [b EXCEPT !.liquidityPool = IF b.vault > 0 THEN @ + (vaultBalance - b.vault) ELSE @,
              !.vault = vaultBalance]

(* On the first deposit nothing is booked, and nothing counts as interest. *)
BalancesWhenDeposit(b, deposit, vaultBalance) ==
    [b EXCEPT !.liquidityPool =
                  IF b.vault > 0 THEN @ + (vaultBalance - b.vault - deposit) ELSE @,
              !.vault = vaultBalance]

(* The two caps of the pool are checked against the booked pool. *)
CanAddLiquidity(b, contributed, amount, maxPool, maxContribution) ==
    /\ amount > 0
    /\ Fits(b.liquidityPool + amount, MAX_UINT128)
    /\ b.liquidityPool + amount <= maxPool
    /\ Fits(contributed + amount, MAX_UINT128)
    /\ contributed + amount <= maxContribution

-----------------------------------------------------------------------------
(* SOAP *)

SoapFits(si) ==
    /\ Fits(si.rebalanceTimestamp, MAX_UINT32)
    /\ Fits(si.totalNotional, MAX_UINT128)
    /\ Fits(si.totalIbtQuantity, MAX_UINT128)
    /\ Fits(si.averageInterestRate, MAX_UINT64)

CanUpdateSoapWhenOpen(si, new) ==
    CanRebalanceWhenOpenSwap(si, new) /\ SoapFits(RebalanceWhenOpenSwap(si, new))

CanUpdateSoapWhenClose(si, swap, timestamp) ==
    /\ CanRebalanceWhenCloseSwap(si, swap, timestamp)
    /\ SoapFits(RebalanceWhenCloseSwap(si, swap, timestamp))

(* calculateSoap: the sum of the legs is taken before the division, which
   rounds each of the three numbers by itself. *)
CalculateQuasiSoapOf(indicators, ibtPrice, timestamp) ==
    [leg \in Leg |-> QuasiSoap(leg, indicators[leg], timestamp, ibtPrice)]

CalculateSoap(indicators, ibtPrice, timestamp) ==
    LET quasi == CalculateQuasiSoapOf(indicators, ibtPrice, timestamp)
    IN  DivisionInt(quasi[PayFixed] + quasi[ReceiveFixed], WAD_P2_YEAR_IN_SECONDS)

-----------------------------------------------------------------------------
(* The external functions. *)

UpdateStorageWhenOpenSwap(caller, leg, new, publicationFee) ==
    LET id == lastSwapId + 1
        b  == BalancesWhenOpen(balances, leg, new, publicationFee)
    IN  /\ caller = milton
        /\ id \in SwapId
        /\ NewSwapFits(new)
        /\ BalancesFit(b)
        /\ CanUpdateSoapWhenOpen(soap[leg], new)
        /\ lastSwapId' = id
        /\ swaps' = [swaps EXCEPT ![leg] = SwapsWhenOpen(@, ids[leg], id, new)]
        /\ ids' = [ids EXCEPT ![leg] = IdsWhenOpen(@, id, new)]
        /\ balances' = b
        /\ soap' = [soap EXCEPT ![leg] = RebalanceWhenOpenSwap(@, new)]
        /\ UNCHANGED <<contribution, milton, joseph, paused>>

UpdateStorageWhenCloseSwap(caller, leg, liquidator, swap, payoff, incomeFee, timestamp) ==
    LET b == BalancesWhenClose(balances, leg, swap, payoff, incomeFee)
    IN  /\ caller = milton
        /\ CanCloseSwap(ids[leg], swap)
        /\ MayClose(liquidator, swap, payoff, timestamp)
        /\ CanUpdateBalancesWhenClose(balances, payoff, incomeFee)
        /\ BalancesFit(b)
        /\ CanUpdateSoapWhenClose(soap[leg], swap, timestamp)
        /\ swaps' = [swaps EXCEPT ![leg] = SwapsWhenClose(@, ids[leg], swap)]
        /\ ids' = [ids EXCEPT ![leg] = IdsWhenClose(@, swap)]
        /\ balances' = b
        /\ soap' = [soap EXCEPT ![leg] = RebalanceWhenCloseSwap(@, swap, timestamp)]
        /\ UNCHANGED <<lastSwapId, contribution, milton, joseph, paused>>

UpdateStorageWhenWithdrawFromStanley(caller, withdrawn, vaultBalance) ==
    /\ caller = milton
    /\ CanBookWithdraw(balances, withdrawn, vaultBalance)
    /\ balances' = BalancesWhenWithdraw(balances, withdrawn, vaultBalance)
    /\ BalancesFit(balances')
    /\ UNCHANGED <<lastSwapId, swaps, ids, soap, contribution, milton, joseph, paused>>

(* Mutation of UpdateStorageWhenDepositToStanley: anyone may call it. *)
UpdateStorageWhenDepositToStanley_Anyone(caller, deposit, vaultBalance) ==
    /\ CanBookDeposit(balances, deposit, vaultBalance)
    /\ balances' = BalancesWhenDeposit(balances, deposit, vaultBalance)
    /\ BalancesFit(balances')
    /\ UNCHANGED <<lastSwapId, swaps, ids, soap, contribution, milton, joseph, paused>>

UpdateStorageWhenDepositToStanley(caller, deposit, vaultBalance) ==
    /\ caller = milton
    /\ CanBookDeposit(balances, deposit, vaultBalance)
    /\ balances' = BalancesWhenDeposit(balances, deposit, vaultBalance)
    /\ BalancesFit(balances')
    /\ UNCHANGED <<lastSwapId, swaps, ids, soap, contribution, milton, joseph, paused>>

AddLiquidity(caller, account, amount, maxPool, maxContribution) ==
    /\ caller = joseph
    /\ CanAddLiquidity(balances, contribution[account], amount, maxPool, maxContribution)
    /\ balances' = [balances EXCEPT !.liquidityPool = @ + amount]
    /\ contribution' = [contribution EXCEPT ![account] = @ + amount]
    /\ UNCHANGED <<lastSwapId, swaps, ids, soap, milton, joseph, paused>>

SubtractLiquidity(caller, amount) ==
    /\ caller = joseph
    /\ Fits(balances.liquidityPool - amount, MAX_UINT128)
    /\ balances' = [balances EXCEPT !.liquidityPool = @ - amount]
    /\ UNCHANGED <<lastSwapId, swaps, ids, soap, contribution, milton, joseph, paused>>

UpdateStorageWhenTransferToCharlieTreasury(caller, amount) ==
    /\ caller = joseph
    /\ amount > 0
    /\ amount <= balances.iporPublicationFee
    /\ balances' = [balances EXCEPT !.iporPublicationFee = @ - amount]
    /\ UNCHANGED <<lastSwapId, swaps, ids, soap, contribution, milton, joseph, paused>>

UpdateStorageWhenTransferToTreasury(caller, amount) ==
    /\ caller = joseph
    /\ amount > 0
    /\ amount <= balances.treasury
    /\ balances' = [balances EXCEPT !.treasury = @ - amount]
    /\ UNCHANGED <<lastSwapId, swaps, ids, soap, contribution, milton, joseph, paused>>

SetMilton(caller, newMilton) ==
    /\ caller = Owner
    /\ newMilton # NoAddress
    /\ milton' = newMilton
    /\ UNCHANGED <<bookVars, contribution, joseph, paused>>

SetJoseph(caller, newJoseph) ==
    /\ caller = Owner
    /\ newJoseph # NoAddress
    /\ joseph' = newJoseph
    /\ UNCHANGED <<bookVars, contribution, milton, paused>>

Pause(caller) ==
    /\ caller = Owner
    /\ ~paused
    /\ paused' = TRUE
    /\ UNCHANGED <<bookVars, contribution, milton, joseph>>

Unpause(caller) ==
    /\ caller = Owner
    /\ paused
    /\ paused' = FALSE
    /\ UNCHANGED <<bookVars, contribution, milton, joseph>>

-----------------------------------------------------------------------------
BooksInit ==
    /\ lastSwapId = 0
    /\ swaps = [leg \in Leg |-> [id \in SwapId |-> NoSwap]]
    /\ ids = [leg \in Leg |-> [a \in Account |-> <<>>]]
    /\ balances = [totalCollateral |-> [leg \in Leg |-> 0], liquidityPool |-> 0,
                   vault |-> 0, iporPublicationFee |-> 0, treasury |-> 0]
    /\ soap = [leg \in Leg |-> EmptyIndicators]
    /\ contribution = [a \in Account |-> 0]

StorageInit ==
    /\ BooksInit
    /\ milton = NoAddress
    /\ joseph = NoAddress
    /\ paused = FALSE

-----------------------------------------------------------------------------
(* Every stored value has the type of its Solidity field. *)
StorageTypeOK ==
    /\ lastSwapId \in UInt32
    /\ swaps \in [Leg -> [SwapId -> Swap]]
    /\ ids \in [Leg -> [Account -> Seq(SwapId)]]
    /\ balances \in Balances
    /\ soap \in [Leg -> [qhic: Nat, totalNotional: UInt128,
                         totalIbtQuantity: UInt128, averageInterestRate: UInt64,
                         rebalanceTimestamp: UInt32]]
    /\ contribution \in [Account -> UInt128]
    /\ milton \in Contract \cup {NoAddress}
    /\ joseph \in Contract \cup {NoAddress}
    /\ paused \in BOOLEAN

IsActive(sw, id) == sw[id].state = ACTIVE

(* A swap without its place in the list and its state. *)
SwapTermsOf(swap) == [swap EXCEPT !.idsIndex = 0, !.state = ACTIVE]

(* An active swap is found, under its own id, at the place it remembers in
   the list of its buyer: closing it by swap-and-pop removes itself and not
   another swap (_updateSwapsWhenClose). *)
ActiveSwapsListed(sw, lists) ==
    \A id \in SwapId :
        IsActive(sw, id) =>
            /\ sw[id].id = id
            /\ sw[id].buyer \in Account
            /\ sw[id].idsIndex < Len(lists[sw[id].buyer])
            /\ lists[sw[id].buyer][sw[id].idsIndex + 1] = id

(* Every entry of a list is an active swap of that buyer which remembers this
   very place, hence no id is listed twice. *)
ListedSwapsActive(sw, lists) ==
    \A a \in Account : \A i \in 1..Len(lists[a]) :
        /\ IsActive(sw, lists[a][i])
        /\ sw[lists[a][i]].buyer = a
        /\ sw[lists[a][i]].idsIndex = i - 1

IndexConsistent ==
    \A leg \in Leg : /\ ActiveSwapsListed(swaps[leg], ids[leg])
                     /\ ListedSwapsActive(swaps[leg], ids[leg])

(* The counter is shared by the legs: an id that was given out names one swap,
   on one leg, and an id that was not names none. *)
IdsGivenOutOnce ==
    \A id \in SwapId :
        /\ id > lastSwapId => \A leg \in Leg : swaps[leg][id] = NoSwap
        /\ id <= lastSwapId => \E leg \in Leg :
               /\ swaps[leg][id].id = id
               /\ \A other \in Leg \ {leg} : swaps[other][id] = NoSwap
=============================================================================
