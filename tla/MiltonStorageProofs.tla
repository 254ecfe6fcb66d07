------------------------ MODULE MiltonStorageProofs ------------------------
(***************************************************************************)
(* Theorems about MiltonStorageSpec, for every number of accounts, every   *)
(* width of the stored types and every set of terms and amounts.           *)
(***************************************************************************)
EXTENDS MiltonStorageSpec, MiltonStorageLemmas

-----------------------------------------------------------------------------
(* The inductive invariant.  Beyond types and the index it says that an id
   above the counter names no swap (else opening would overwrite one), and
   that no list is longer than the counter (else a place would not fit in
   its uint32). *)
ListsWithinCounter ==
    \A leg \in Leg, a \in Account : Len(ids[leg][a]) <= lastSwapId

StorageInv == TypeOK /\ IndexConsistent /\ IdsGivenOutOnce /\ ListsWithinCounter

(* One leg of a well-typed and consistent storage is a well-typed, consistent
   leg: what the lemmas on a single leg ask for. *)
LEMMA LegOfStorage ==
    ASSUME StorageInv, NEW leg \in Leg
    PROVE  LegTypeOK(swaps[leg], ids[leg]) /\ LegConsistent(swaps[leg], ids[leg])
  BY DEF StorageInv, TypeOK, StorageTypeOK, IndexConsistent, LegTypeOK, LegConsistent

(* Opening a swap keeps the invariant and changes no swap that was opened before
   (updateStorageWhenOpenSwap...). *)
LEMMA OpenStep ==
    ASSUME StorageInv, NEW caller, NEW leg \in Leg, NEW terms \in SwapTerms,
           NEW buyer \in Account,
           UpdateStorageWhenOpenSwap(caller, leg, NewSwap(terms, buyer), PUBLICATION_FEE),
           UNCHANGED now
    PROVE  StorageInv'
<1> DEFINE new == NewSwap(terms, buyer)
           id  == lastSwapId + 1
<1>1. /\ id \in SwapId
      /\ lastSwapId' = id
      /\ swaps' = [swaps EXCEPT ![leg] = SwapsWhenOpen(swaps[leg], ids[leg], id, new)]
      /\ ids' = [ids EXCEPT ![leg] = IdsWhenOpen(ids[leg], id, new)]
      /\ balances' = BalancesWhenOpen(balances, leg, new, PUBLICATION_FEE)
      /\ soap' = [soap EXCEPT ![leg] = RebalanceWhenOpenSwap(soap[leg], new)]
      /\ UNCHANGED <<contribution, milton, joseph, paused, now>>
      /\ NewSwapFits(new)
      /\ BalancesFit(balances')
      /\ CanUpdateSoapWhenOpen(soap[leg], new)
  BY DEF UpdateStorageWhenOpenSwap
<1>2. /\ new.buyer = buyer
      /\ new.openTimestamp = now
      /\ new.collateral \in Nat
      /\ new.notional \in Nat
      /\ new.ibtQuantity \in Nat
      /\ new.fixedInterestRate \in Nat
      /\ new.liquidationDepositAmount \in Nat
      /\ new.openingFeeLPAmount \in Nat
      /\ new.openingFeeTreasuryAmount \in Nat
  BY SpecAssumption DEF NewSwap, SwapTermsType
<1>3. /\ TypeOK
      /\ StorageTypeOK
      /\ IdsGivenOutOnce
      /\ ListsWithinCounter
      /\ IndexConsistent
      /\ LegTypeOK(swaps[leg], ids[leg])
      /\ LegConsistent(swaps[leg], ids[leg])
      /\ lastSwapId \in Nat
      /\ lastSwapId < id
      /\ MAX_UINT32 \in Nat
  BY LegOfStorage, StorageAssumption DEF StorageInv, TypeOK, StorageTypeOK, UInt32
<1>4. \A l \in Leg : swaps[l][id] = NoSwap
  BY <1>1, <1>3 DEF IdsGivenOutOnce, SwapId
<1>5. ~IsActive(swaps[leg], id)
  BY <1>4 DEF IsActive, NoSwap, ACTIVE, INACTIVE
<1> DEFINE stored == [id |-> id, buyer |-> new.buyer, openTimestamp |-> new.openTimestamp,
               idsIndex |-> Len(ids[leg][new.buyer]), collateral |-> new.collateral,
               notional |-> new.notional, ibtQuantity |-> new.ibtQuantity,
               fixedInterestRate |-> new.fixedInterestRate,
               liquidationDepositAmount |-> new.liquidationDepositAmount,
               state |-> ACTIVE]
<1>6. stored \in Swap
  <2>1. now \in UInt32 /\ id \in UInt32 /\ now \in Int
    BY <1>1, <1>3 DEF TypeOK, SwapId, UInt32
  <2>2. Len(ids[leg][buyer]) \in UInt32
    BY <1>1, <1>3 DEF ListsWithinCounter, LegTypeOK, SwapId, UInt32
  <2>3. /\ new.collateral \in UInt128
        /\ new.notional \in UInt128
        /\ new.ibtQuantity \in UInt128
        /\ new.fixedInterestRate \in UInt64
        /\ new.liquidationDepositAmount \in UInt32
    BY <1>1, <1>2, FitsType, StorageAssumption
       DEF NewSwapFits, UInt32, UInt64, UInt128
  <2> HIDE DEF new, id
  <2> QED
    BY <2>1, <2>2, <2>3, <1>2 DEF Swap
<1> HIDE DEF new, id
<1>7. SwapsWhenOpen(swaps[leg], ids[leg], id, new) = [swaps[leg] EXCEPT ![id] = stored]
  BY DEF SwapsWhenOpen
<1> HIDE DEF stored
<1>8. LegConsistent(swaps'[leg], ids'[leg])
  BY <1>1, <1>2, <1>3, <1>5, OpenKeepsLegConsistent DEF StorageTypeOK
<1>9. TypeOK'
  <2>1. swaps' \in [Leg -> [SwapId -> Swap]]
    BY <1>1, <1>3, <1>6, <1>7 DEF StorageTypeOK
  <2>2. ids' \in [Leg -> [Account -> Seq(SwapId)]]
    BY <1>1, <1>2, <1>3 DEF StorageTypeOK, IdsWhenOpen, LegTypeOK
  <2>3. balances' \in Balances
    BY <1>1, <1>2, <1>3, BalancesOpenType, SpecAssumption DEF StorageTypeOK
  <2>4. soap' \in [Leg -> SoapOfLegType]
    <3>1. soap \in [Leg -> SoapOfLegType] /\ now \in UInt32
      BY <1>3 DEF TypeOK, StorageTypeOK, SoapOfLegType
    <3>2. RebalanceWhenOpenSwap(soap[leg], new) \in SoapOfLegType
      BY <3>1, <1>1, <1>2, SoapOpenType
    <3> QED BY <3>1, <3>2, <1>1
  <2>5. lastSwapId' \in UInt32
    BY <1>1 DEF SwapId, UInt32
  <2> QED
    BY <2>1, <2>2, <2>3, <2>4, <2>5, <1>1, <1>3
       DEF TypeOK, StorageTypeOK, SoapOfLegType
<1>10. IndexConsistent'
  <2>1. \A l \in Leg \ {leg} : swaps'[l] = swaps[l] /\ ids'[l] = ids[l]
    BY <1>1, <1>3 DEF StorageTypeOK
  <2> QED
    BY <2>1, <1>3, <1>8 DEF IndexConsistent, LegConsistent
<1>11. IdsGivenOutOnce'
  <2>1. /\ \A l \in Leg : \A j \in SwapId \ {id} : swaps'[l][j] = swaps[l][j]
        /\ \A l \in Leg \ {leg} : swaps'[l][id] = swaps[l][id]
        /\ swaps'[leg][id] = stored
    BY <1>1, <1>3, <1>7 DEF StorageTypeOK
  <2>2. stored.id = id
    BY DEF stored
  <2>3. /\ \A j \in SwapId \ {id} : j > lastSwapId' => j > lastSwapId
        /\ \A j \in SwapId \ {id} : j <= lastSwapId' => j <= lastSwapId
        /\ ~(id > lastSwapId')
    BY <1>1, <1>3 DEF id, SwapId
  <2> SUFFICES ASSUME NEW j \in SwapId
               PROVE  /\ j > lastSwapId' => \A l \in Leg : swaps'[l][j] = NoSwap
                      /\ j <= lastSwapId' => \E l \in Leg :
                            /\ swaps'[l][j].id = j
                            /\ \A other \in Leg \ {l} : swaps'[other][j] = NoSwap
    BY DEF IdsGivenOutOnce
  <2>4. CASE j = id
    BY <2>1, <2>2, <2>3, <2>4, <1>4
  <2>5. CASE j # id
    BY <2>1, <2>3, <2>5, <1>3 DEF IdsGivenOutOnce
  <2> QED BY <2>4, <2>5
<1>12. ListsWithinCounter'
  <2> SUFFICES ASSUME NEW l \in Leg, NEW a \in Account
               PROVE  Len(ids'[l][a]) <= lastSwapId'
    BY DEF ListsWithinCounter
  <2>1. ids[l][a] \in Seq(SwapId) /\ Len(ids[l][a]) <= lastSwapId /\ Len(ids[l][a]) \in Nat
    BY <1>3 DEF StorageTypeOK, ListsWithinCounter
  <2>2. ids'[l][a] = ids[l][a] \/ ids'[l][a] = Append(ids[l][a], id)
    BY <1>1, <1>2, <1>3 DEF StorageTypeOK, IdsWhenOpen, LegTypeOK
  <2>3. Len(ids'[l][a]) <= Len(ids[l][a]) + 1 /\ Len(ids'[l][a]) \in Nat
    BY <2>1, <2>2, <1>1
  <2> QED BY <2>1, <2>3, <1>1, <1>3 DEF id
<1> QED BY <1>9, <1>10, <1>11, <1>12 DEF StorageInv

(* Closing a swap that was read in the same transaction keeps the invariant and
   the terms of all swaps (updateStorageWhenCloseSwap...). *)
LEMMA CloseStep ==
    ASSUME StorageInv, NEW caller, NEW leg \in Leg, NEW id \in SwapId, NEW liquidator,
           NEW payoff \in Int, NEW fee \in Nat,
           UpdateStorageWhenCloseSwap(caller, leg, liquidator, swaps[leg][id],
                                      payoff, fee, now),
           UNCHANGED now
    PROVE  StorageInv'
<1> DEFINE swap == swaps[leg][id]
<1>1. /\ swaps' = [swaps EXCEPT ![leg] = SwapsWhenClose(swaps[leg], ids[leg], swap)]
      /\ ids' = [ids EXCEPT ![leg] = IdsWhenClose(ids[leg], swap)]
      /\ balances' = BalancesWhenClose(balances, leg, swap, payoff, fee)
      /\ soap' = [soap EXCEPT ![leg] = RebalanceWhenCloseSwap(soap[leg], swap, now)]
      /\ UNCHANGED <<lastSwapId, contribution, milton, joseph, paused, now>>
      /\ BalancesFit(balances')
      /\ CanUpdateSoapWhenClose(soap[leg], swap, now)
      /\ swap.state # INACTIVE
  BY DEF UpdateStorageWhenCloseSwap, CanCloseSwap
<1>2. /\ TypeOK
      /\ StorageTypeOK
      /\ IdsGivenOutOnce
      /\ ListsWithinCounter
      /\ IndexConsistent
      /\ LegTypeOK(swaps[leg], ids[leg])
      /\ LegConsistent(swaps[leg], ids[leg])
  BY LegOfStorage DEF StorageInv, TypeOK
<1>3. swap \in Swap /\ IsActive(swaps[leg], id)
  BY <1>1, <1>2 DEF LegTypeOK, Swap, IsActive
<1>4. /\ swaps'[leg] = SwapsWhenClose(swaps[leg], ids[leg], swap)
      /\ ids'[leg] = IdsWhenClose(ids[leg], swap)
      /\ \A l \in Leg \ {leg} : swaps'[l] = swaps[l] /\ ids'[l] = ids[l]
  BY <1>1, <1>2 DEF StorageTypeOK
<1>5. LegTypeOK(swaps'[leg], ids'[leg]) /\ LegConsistent(swaps'[leg], ids'[leg])
  BY <1>2, <1>3, <1>4, CloseKeepsLegConsistent
<1>6. \A j \in SwapId :
          /\ swaps'[leg][j].id = swaps[leg][j].id
          /\ ~IsActive(swaps[leg], j) => swaps'[leg][j] = swaps[leg][j]
  BY <1>2, <1>3, <1>4, CloseKeepsTerms
<1> HIDE DEF swap
<1>7. TypeOK'
  <2>1. swaps' \in [Leg -> [SwapId -> Swap]]
    BY <1>1, <1>2, <1>4, <1>5 DEF StorageTypeOK, LegTypeOK
  <2>2. ids' \in [Leg -> [Account -> Seq(SwapId)]]
    BY <1>1, <1>2, <1>4, <1>5 DEF StorageTypeOK, LegTypeOK
  <2>3. balances' \in Balances
    BY <1>1, <1>2, <1>3, BalancesCloseType DEF StorageTypeOK
  <2>4. soap' \in [Leg -> SoapOfLegType]
    <3>1. soap \in [Leg -> SoapOfLegType] /\ now \in UInt32
      BY <1>2 DEF TypeOK, StorageTypeOK, SoapOfLegType
    <3>2. RebalanceWhenCloseSwap(soap[leg], swap, now) \in SoapOfLegType
      BY <3>1, <1>1, <1>3, SoapCloseType
    <3> QED BY <3>1, <3>2, <1>1
  <2> QED
    BY <2>1, <2>2, <2>3, <2>4, <1>1, <1>2 DEF TypeOK, StorageTypeOK, SoapOfLegType
<1>8. IndexConsistent'
  BY <1>2, <1>4, <1>5 DEF IndexConsistent, LegConsistent
<1>9. IdsGivenOutOnce'
  <2>1. \A j \in SwapId, l \in Leg :
            /\ swaps'[l][j].id = swaps[l][j].id
            /\ swaps[l][j] = NoSwap => swaps'[l][j] = NoSwap
    BY <1>4, <1>6 DEF IsActive, NoSwap, ACTIVE, INACTIVE
  <2> QED BY <2>1, <1>1, <1>2 DEF IdsGivenOutOnce
<1>10. ListsWithinCounter'
  <2> SUFFICES ASSUME NEW l \in Leg, NEW a \in Account
               PROVE  Len(ids'[l][a]) <= lastSwapId'
    BY DEF ListsWithinCounter
  <2>1. /\ ids[l][a] \in Seq(SwapId)
        /\ Len(ids[l][a]) <= lastSwapId
        /\ lastSwapId' = lastSwapId
        /\ lastSwapId \in Nat
    BY <1>1, <1>2, StorageAssumption DEF StorageTypeOK, ListsWithinCounter, UInt32
  <2>2. CASE l # leg
    BY <2>1, <2>2, <1>4
  <2>3. CASE l = leg
    <3>1. ids'[l][a] = ids[l][a] \/ Len(ids'[l][a]) = Len(ids[l][a]) - 1
      BY <2>3, <1>2, <1>3, <1>4, CloseShortensList DEF swap
    <3> QED BY <2>1, <3>1
  <2> QED BY <2>2, <2>3
<1> QED BY <1>7, <1>8, <1>9, <1>10 DEF StorageInv

(* Joseph, Stanley and the owner leave the swaps, the index and SOAP alone. *)
LEMMA OtherStep ==
    ASSUME StorageInv,
           UNCHANGED <<lastSwapId, swaps, ids, soap, now>>,
           balances' \in Balances,
           contribution' \in [Account -> UInt128],
           milton' \in Contract \cup {NoAddress},
           joseph' \in Contract \cup {NoAddress},
           paused' \in BOOLEAN
    PROVE  StorageInv'
  BY DEF StorageInv, TypeOK, StorageTypeOK, IndexConsistent, ActiveSwapsListed,
         ListedSwapsActive, IdsGivenOutOnce, ListsWithinCounter, IsActive

-----------------------------------------------------------------------------
(* The invariant holds of the empty storage. *)
LEMMA InitHolds == Init => StorageInv
<1> SUFFICES ASSUME Init PROVE StorageInv
  OBVIOUS
<1>1. NoSwap \in Swap
  BY StorageAssumption DEF NoSwap, Swap, UInt32, UInt64, UInt128
<1>2. StorageTypeOK /\ now \in UInt32
  <2>1. 0 \in UInt32 /\ 0 \in UInt64 /\ 0 \in UInt128
    BY StorageAssumption DEF UInt32, UInt64, UInt128
  <2>2. swaps \in [Leg -> [SwapId -> Swap]]
    BY <1>1 DEF Init, StorageInit, BooksInit
  <2>3. ids \in [Leg -> [Account -> Seq(SwapId)]]
    BY DEF Init, StorageInit, BooksInit
  <2>4. balances \in Balances
    BY <2>1 DEF Init, StorageInit, BooksInit, Balances
  <2>5. EmptyIndicators \in SoapOfLegType
    BY <2>1 DEF EmptyIndicators, SoapOfLegType
  <2>6. soap \in [Leg -> SoapOfLegType]
    BY <2>5 DEF Init, StorageInit, BooksInit
  <2> QED
    BY <2>1, <2>2, <2>3, <2>4, <2>6
       DEF Init, StorageInit, BooksInit, StorageTypeOK, SoapOfLegType
<1>3. \A leg \in Leg : \A id \in SwapId : swaps[leg][id] = NoSwap
  BY DEF Init, StorageInit, BooksInit
<1>4. \A leg \in Leg : \A a \in Account : ids[leg][a] = <<>>
  BY DEF Init, StorageInit, BooksInit
<1>5. IndexConsistent
  BY <1>3, <1>4 DEF IndexConsistent, ActiveSwapsListed, ListedSwapsActive, IsActive,
                    NoSwap, ACTIVE, INACTIVE
<1>6. IdsGivenOutOnce
  BY <1>3, StorageAssumption DEF IdsGivenOutOnce, Init, StorageInit, BooksInit, SwapId
<1>7. ListsWithinCounter
  BY <1>4 DEF ListsWithinCounter, Init, StorageInit, BooksInit
<1> QED BY <1>2, <1>5, <1>6, <1>7 DEF StorageInv, TypeOK

(* Every step that is not an Open or a Close keeps the types of what it books. *)
LEMMA BookingStep ==
    ASSUME StorageInv, NEW caller,
           \/ Withdraw(caller) \/ Deposit(caller) \/ Provide(caller) \/ Redeem(caller)
           \/ TransferToCharlie(caller) \/ TransferToTreasury(caller)
    PROVE  StorageInv'
<1>1. /\ balances \in Balances
      /\ contribution \in [Account -> UInt128]
      /\ milton \in Contract \cup {NoAddress}
      /\ joseph \in Contract \cup {NoAddress}
      /\ paused \in BOOLEAN
      /\ MAX_UINT128 \in Nat
      /\ Amounts \subseteq Nat
  BY StorageAssumption, SpecAssumption DEF StorageInv, TypeOK, StorageTypeOK
<1>2. /\ balances.totalCollateral \in [Leg -> Int]
      /\ balances.totalCollateral \in [Leg -> UInt128]
      /\ balances.liquidityPool \in Nat
      /\ balances.vault \in Nat
      /\ balances.iporPublicationFee \in Nat
      /\ balances.treasury \in Nat
  BY <1>1 DEF Balances, UInt128
<1>3. /\ balances.liquidityPool \in UInt128
      /\ balances.vault \in UInt128
      /\ balances.iporPublicationFee \in UInt128
      /\ balances.treasury \in UInt128
  BY <1>1 DEF Balances
(* The update of a single number keeps the record. *)
<1>4. \A x \in UInt128 :
         /\ [balances EXCEPT !.liquidityPool = x] \in Balances
         /\ [balances EXCEPT !.iporPublicationFee = x] \in Balances
         /\ [balances EXCEPT !.treasury = x] \in Balances
         /\ \A y \in UInt128 :
               [balances EXCEPT !.liquidityPool = x, !.vault = y] \in Balances
  BY <1>1 DEF Balances
<1>5. CASE Withdraw(caller)
  <2>1. PICK withdrawn \in Amounts, vault \in Amounts :
            /\ UpdateStorageWhenWithdrawFromStanley(caller, withdrawn, vault)
            /\ UNCHANGED now
    BY <1>5 DEF Withdraw
  <2> DEFINE pool == balances.liquidityPool + (vault + withdrawn - balances.vault)
  <2>2. balances' = [balances EXCEPT !.liquidityPool = pool, !.vault = vault]
    BY <2>1 DEF UpdateStorageWhenWithdrawFromStanley, BalancesWhenWithdraw
  <2>3. pool \in Int
    BY <1>1, <1>2
  <2> HIDE DEF pool
  <2>4. balances'.liquidityPool = pool /\ balances'.vault = vault
    BY <2>2, <1>1 DEF Balances
  <2>5. Fits(pool, MAX_UINT128) /\ Fits(vault, MAX_UINT128)
    BY <2>1, <2>4 DEF UpdateStorageWhenWithdrawFromStanley, BalancesFit
  <2>6. pool \in UInt128 /\ vault \in UInt128
    BY <2>3, <2>5, <1>1, FitsType DEF UInt128
  <2> QED
    BY <2>1, <2>2, <2>6, <1>1, <1>4, OtherStep DEF UpdateStorageWhenWithdrawFromStanley
<1>6. CASE Deposit(caller)
  <2>1. PICK deposit \in Amounts, vault \in Amounts :
            /\ UpdateStorageWhenDepositToStanley(caller, deposit, vault)
            /\ UNCHANGED now
    BY <1>6 DEF Deposit
  <2> DEFINE pool == IF balances.vault > 0
                     THEN balances.liquidityPool + (vault - balances.vault - deposit)
                     ELSE balances.liquidityPool
  <2>2. balances' = [balances EXCEPT !.liquidityPool = pool, !.vault = vault]
    BY <2>1 DEF UpdateStorageWhenDepositToStanley, BalancesWhenDeposit
  <2>3. pool \in Int
    BY <1>1, <1>2
  <2> HIDE DEF pool
  <2>4. balances'.liquidityPool = pool /\ balances'.vault = vault
    BY <2>2, <1>1 DEF Balances
  <2>5. Fits(pool, MAX_UINT128) /\ Fits(vault, MAX_UINT128)
    BY <2>1, <2>4 DEF UpdateStorageWhenDepositToStanley, BalancesFit
  <2>6. pool \in UInt128 /\ vault \in UInt128
    BY <2>3, <2>5, <1>1, FitsType DEF UInt128
  <2> QED
    BY <2>1, <2>2, <2>6, <1>1, <1>4, OtherStep DEF UpdateStorageWhenDepositToStanley
<1>7. CASE Provide(caller)
  <2>1. PICK account \in Account, amount \in Amounts :
            /\ AddLiquidity(caller, account, amount, MAX_POOL, MAX_CONTRIBUTION)
            /\ UNCHANGED now
    BY <1>7 DEF Provide
  <2>2. /\ balances.liquidityPool + amount \in UInt128
        /\ contribution[account] + amount \in UInt128
    BY <2>1, <1>1, <1>2 DEF AddLiquidity, CanAddLiquidity, Fits, UInt128
  <2>3. balances' \in Balances /\ contribution' \in [Account -> UInt128]
    BY <2>1, <2>2, <1>1, <1>4 DEF AddLiquidity
  <2> QED BY <2>1, <2>3, <1>1, OtherStep DEF AddLiquidity
<1>8. CASE Redeem(caller)
  <2>1. PICK amount \in Amounts : SubtractLiquidity(caller, amount) /\ UNCHANGED now
    BY <1>8 DEF Redeem
  <2>2. balances.liquidityPool - amount \in UInt128
    BY <2>1, <1>1, <1>2, FitsType DEF SubtractLiquidity, UInt128
  <2> QED BY <2>1, <2>2, <1>1, <1>4, OtherStep DEF SubtractLiquidity
<1>9. CASE TransferToCharlie(caller)
  <2>1. PICK amount \in Amounts :
            UpdateStorageWhenTransferToCharlieTreasury(caller, amount) /\ UNCHANGED now
    BY <1>9 DEF TransferToCharlie
  <2>2. balances.iporPublicationFee - amount \in UInt128
    BY <2>1, <1>1, <1>2, <1>3 DEF UpdateStorageWhenTransferToCharlieTreasury, UInt128
  <2> QED
    BY <2>1, <2>2, <1>1, <1>4, OtherStep DEF UpdateStorageWhenTransferToCharlieTreasury
<1>10. CASE TransferToTreasury(caller)
  <2>1. PICK amount \in Amounts :
            UpdateStorageWhenTransferToTreasury(caller, amount) /\ UNCHANGED now
    BY <1>10 DEF TransferToTreasury
  <2>2. balances.treasury - amount \in UInt128
    BY <2>1, <1>1, <1>2, <1>3 DEF UpdateStorageWhenTransferToTreasury, UInt128
  <2> QED
    BY <2>1, <2>2, <1>1, <1>4, OtherStep DEF UpdateStorageWhenTransferToTreasury
<1> QED BY <1>5, <1>6, <1>7, <1>8, <1>9, <1>10

(* Every transaction, and time, keeps the invariant. *)
LEMMA NextKeepsInv == StorageInv /\ [Next]_vars => StorageInv'
<1> SUFFICES ASSUME StorageInv, [Next]_vars PROVE StorageInv'
  OBVIOUS
<1>1. /\ balances \in Balances
      /\ contribution \in [Account -> UInt128]
      /\ milton \in Contract \cup {NoAddress}
      /\ joseph \in Contract \cup {NoAddress}
      /\ paused \in BOOLEAN
      /\ swaps \in [Leg -> [SwapId -> Swap]]
      /\ now \in UInt32
  BY DEF StorageInv, TypeOK, StorageTypeOK
<1>2. ASSUME NEW caller \in Contract \cup {Owner}, Open(caller)
      PROVE  StorageInv'
  BY <1>2, OpenStep DEF Open
<1>3. ASSUME NEW caller \in Contract \cup {Owner}, Close(caller)
      PROVE  StorageInv'
  <2>1. PICK leg \in Leg, id \in SwapId, liquidator \in Account \cup {Owner},
             ibtPrice \in IbtPrices :
          LET payoff == CalculatePayoff(leg, swaps[leg][id], now, ibtPrice)
          IN  /\ UpdateStorageWhenCloseSwap(
                     caller, leg, liquidator, swaps[leg][id], payoff,
                     PercentOf(AbsoluteValue(payoff), INCOME_FEE_RATE), now)
              /\ UNCHANGED now
    BY <1>3 DEF Close, GetSwap
  <2> DEFINE payoff == CalculatePayoff(leg, swaps[leg][id], now, ibtPrice)
  <2>2. payoff \in Int
    <3>1. swaps[leg][id] \in Swap /\ now \in Nat /\ ibtPrice \in Nat
      BY <1>1, StorageAssumption, SpecAssumption DEF UInt32
    <3>2. swaps[leg][id].collateral \in Nat
      BY <3>1, StorageAssumption DEF Swap, UInt128
    <3> QED BY <3>1, <3>2, PayoffType
  <2>3. PercentOf(AbsoluteValue(payoff), INCOME_FEE_RATE) \in Nat
    BY <2>2, IncomeFeeType, SpecAssumption
  <2> HIDE DEF payoff
  <2> QED BY <2>1, <2>2, <2>3, CloseStep DEF payoff
<1>4. ASSUME NEW caller \in Contract \cup {Owner}, Administer(caller)
      PROVE  StorageInv'
  BY <1>1, <1>4, OtherStep
     DEF Administer, SetMilton, SetJoseph, Pause, Unpause, bookVars
<1>5. CASE Tick
  <2>1. now' \in UInt32
    BY <1>1, <1>5, StorageAssumption, SpecAssumption DEF Tick, UInt32
  <2> QED
    BY <1>5, <2>1 DEF Tick, storageVars, StorageInv, TypeOK, StorageTypeOK, IndexConsistent,
       ActiveSwapsListed, ListedSwapsActive, IdsGivenOutOnce, ListsWithinCounter, IsActive
<1>6. CASE UNCHANGED vars
  BY <1>1, <1>6, OtherStep DEF vars, storageVars
<1> QED
  BY <1>2, <1>3, <1>4, <1>5, <1>6, BookingStep DEF Next

(* Every stored value has the type of its Solidity field in every reachable
   state: no cast is passed by a value that does not fit, and no place in a list
   of ids outgrows its uint32. *)
THEOREM TypeCorrect == Spec => []TypeOK
<1>1. StorageInv => TypeOK
  BY DEF StorageInv
<1> QED BY <1>1, InitHolds, NextKeepsInv, PTL DEF Spec

(* The swap-and-pop index of MiltonStorage is consistent for any number of
   buyers and swaps: an active swap is found where it says, and a list holds the
   active swaps of its buyer and nothing else. *)
THEOREM IndexAlwaysConsistent == Spec => []IndexConsistent
<1>1. StorageInv => IndexConsistent
  BY DEF StorageInv
<1> QED BY <1>1, InitHolds, NextKeepsInv, PTL DEF Spec

(* An id that was given out names one swap on one leg, for ever; an id that was
   not names none, so opening never overwrites a swap. *)
THEOREM IdsAlwaysGivenOutOnce == Spec => []IdsGivenOutOnce
<1>1. StorageInv => IdsGivenOutOnce
  BY DEF StorageInv
<1> QED BY <1>1, InitHolds, NextKeepsInv, PTL DEF Spec

(* The terms of a swap are never rewritten, and a closed swap stays closed:
   swap-and-pop writes into another swap of the buyer, but only its place. *)
THEOREM SwapsAlwaysFrozen == Spec => SwapsFrozen
<1> DEFINE Frozen == \A leg \in Leg, id \in SwapId :
          swaps[leg][id].id # 0 =>
              /\ SwapTermsOf(swaps'[leg][id]) = SwapTermsOf(swaps[leg][id])
              /\ ~IsActive(swaps[leg], id) => swaps'[leg][id] = swaps[leg][id]
<1>1. StorageInv /\ Next => Frozen
  <2> SUFFICES ASSUME StorageInv, Next PROVE Frozen
    OBVIOUS
  <2>1. swaps \in [Leg -> [SwapId -> Swap]] /\ IdsGivenOutOnce /\ lastSwapId \in Nat
    BY StorageAssumption DEF StorageInv, TypeOK, StorageTypeOK, UInt32
  <2>2. ASSUME NEW caller, Open(caller)
        PROVE  Frozen
    <3>1. PICK leg \in Leg, terms \in SwapTerms, buyer \in Account :
              UpdateStorageWhenOpenSwap(caller, leg, NewSwap(terms, buyer), PUBLICATION_FEE)
      BY <2>2 DEF Open
    <3> DEFINE id == lastSwapId + 1
    <3>2. /\ id \in SwapId
          /\ \A l \in Leg, j \in SwapId :
                (l # leg \/ j # id) => swaps'[l][j] = swaps[l][j]
      BY <3>1, <2>1 DEF UpdateStorageWhenOpenSwap, SwapsWhenOpen
    <3>3. swaps[leg][id] = NoSwap
      BY <3>2, <2>1 DEF IdsGivenOutOnce, SwapId
    <3>4. swaps[leg][id].id = 0
      BY <3>3 DEF NoSwap
    <3> HIDE DEF id
    <3> QED BY <3>2, <3>4
  <2>3. ASSUME NEW caller, Close(caller)
        PROVE  Frozen
    <3>0. PICK leg \in Leg, id \in SwapId, liquidator \in Account \cup {Owner},
               ibtPrice \in IbtPrices :
            LET payoff == CalculatePayoff(leg, swaps[leg][id], now, ibtPrice)
            IN  UpdateStorageWhenCloseSwap(
                    caller, leg, liquidator, swaps[leg][id], payoff,
                    PercentOf(AbsoluteValue(payoff), INCOME_FEE_RATE), now)
      BY <2>3 DEF Close, GetSwap
    <3>1. /\ swaps' = [swaps EXCEPT ![leg] =
                 SwapsWhenClose(swaps[leg], ids[leg], swaps[leg][id])]
          /\ swaps[leg][id].state # INACTIVE
      BY <3>0 DEF UpdateStorageWhenCloseSwap, CanCloseSwap
    <3>2. IsActive(swaps[leg], id)
      BY <3>1, <2>1 DEF IsActive, Swap
    <3>3. LegTypeOK(swaps[leg], ids[leg]) /\ LegConsistent(swaps[leg], ids[leg])
      BY LegOfStorage
    <3>4. \A j \in SwapId :
            /\ SwapTermsOf(swaps'[leg][j]) = SwapTermsOf(swaps[leg][j])
            /\ ~IsActive(swaps[leg], j) => swaps'[leg][j] = swaps[leg][j]
      BY <3>1, <3>2, <3>3, <2>1, CloseKeepsTerms
    <3>5. \A l \in Leg \ {leg} : swaps'[l] = swaps[l]
      BY <3>1, <2>1
    <3> QED BY <3>4, <3>5
  <2>4. CASE swaps' = swaps
    BY <2>4
  <2> QED
    BY <2>2, <2>3, <2>4
       DEF Next, Withdraw, Deposit, Provide, Redeem, TransferToCharlie, TransferToTreasury,
           Administer, Tick, UpdateStorageWhenWithdrawFromStanley,
           UpdateStorageWhenDepositToStanley, AddLiquidity, SubtractLiquidity,
           UpdateStorageWhenTransferToCharlieTreasury, UpdateStorageWhenTransferToTreasury,
           SetMilton, SetJoseph, Pause, Unpause, bookVars, storageVars
<1>2. StorageInv /\ [Next]_vars => [Frozen]_vars
  BY <1>1
<1> HIDE DEF Frozen
<1>3. Spec => [][Frozen]_vars
  BY <1>2, InitHolds, NextKeepsInv, PTL DEF Spec
<1> QED BY <1>3 DEF SwapsFrozen, Frozen
=============================================================================
