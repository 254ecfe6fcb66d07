------------------------- MODULE MiltonStorageSums -------------------------
(***************************************************************************)
(* The totals that MiltonStorage keeps (collateral, notional, quantity of  *)
(* interest bearing tokens) are the sums over its active swaps, and only   *)
(* the named writers book anything.                                        *)
(***************************************************************************)
EXTENDS MiltonStorageProofs, FiniteSums

-----------------------------------------------------------------------------
(* What opening and closing do to the set of active swaps *)

(* There are finitely many ids, hence finitely many active swaps. *)
LEMMA ActiveIdsFinite ==
    \A leg : ActiveIds(leg) \subseteq SwapId /\ IsFiniteSet(ActiveIds(leg))
<1>1. IsFiniteSet(SwapId)
  BY FS_Interval, StorageAssumption DEF SwapId
<1> QED BY <1>1, FS_Subset DEF ActiveIds

(* Terms that stay, field by field. *)
LEMMA SameTermsSameFields ==
    ASSUME NEW s \in Swap, NEW t \in Swap, SwapTermsOf(s) = SwapTermsOf(t)
    PROVE  /\ s.collateral = t.collateral
           /\ s.notional = t.notional
           /\ s.ibtQuantity = t.ibtQuantity
           /\ s.fixedInterestRate = t.fixedInterestRate
           /\ s.openTimestamp = t.openTimestamp
  BY DEF SwapTermsOf, Swap

(* Opening adds the new swap, under an id that was not active, and leaves every
   other swap alone. *)
LEMMA OpenAddsSwap ==
    ASSUME StorageInv, NEW caller, NEW leg \in Leg, NEW terms \in SwapTerms,
           NEW buyer \in Account,
           UpdateStorageWhenOpenSwap(caller, leg, NewSwap(terms, buyer), PUBLICATION_FEE)
    PROVE  LET id == lastSwapId + 1
           IN  /\ id \in SwapId /\ id \notin ActiveIds(leg)
               /\ ActiveIds(leg)' = ActiveIds(leg) \cup {id}
               /\ swaps'[leg][id].collateral = terms.collateral
               /\ swaps'[leg][id].notional = terms.notional
               /\ swaps'[leg][id].ibtQuantity = terms.ibtQuantity
               /\ swaps'[leg][id].fixedInterestRate = terms.fixedInterestRate
               /\ swaps'[leg][id].openTimestamp = now
               /\ \A j \in SwapId \ {id} : swaps'[leg][j] = swaps[leg][j]
               /\ \A l \in Leg \ {leg} : swaps'[l] = swaps[l] /\ soap'[l] = soap[l]
<1> DEFINE new == NewSwap(terms, buyer)
           id  == lastSwapId + 1
<1>1. /\ id \in SwapId
      /\ swaps' = [swaps EXCEPT ![leg] = SwapsWhenOpen(swaps[leg], ids[leg], id, new)]
      /\ soap' = [soap EXCEPT ![leg] = RebalanceWhenOpenSwap(soap[leg], new)]
  BY DEF UpdateStorageWhenOpenSwap
<1>2. /\ swaps \in [Leg -> [SwapId -> Swap]]
      /\ DOMAIN soap = Leg
      /\ lastSwapId \in Nat
      /\ IdsGivenOutOnce
  BY StorageAssumption DEF StorageInv, TypeOK, StorageTypeOK, UInt32
<1>3. swaps[leg][id] = NoSwap
  BY <1>1, <1>2 DEF IdsGivenOutOnce, SwapId
<1>4. id \notin ActiveIds(leg)
  BY <1>3 DEF ActiveIds, IsActive, NoSwap, ACTIVE, INACTIVE
<1> DEFINE stored == [id |-> id, buyer |-> new.buyer, openTimestamp |-> new.openTimestamp,
               idsIndex |-> Len(ids[leg][new.buyer]), collateral |-> new.collateral,
               notional |-> new.notional, ibtQuantity |-> new.ibtQuantity,
               fixedInterestRate |-> new.fixedInterestRate,
               liquidationDepositAmount |-> new.liquidationDepositAmount,
               state |-> ACTIVE]
<1> HIDE DEF id
<1>5. swaps'[leg] = [swaps[leg] EXCEPT ![id] = stored]
  BY <1>1, <1>2 DEF SwapsWhenOpen
<1>6. /\ stored.collateral = terms.collateral
      /\ stored.notional = terms.notional
      /\ stored.ibtQuantity = terms.ibtQuantity
      /\ stored.fixedInterestRate = terms.fixedInterestRate
      /\ stored.openTimestamp = now
      /\ stored.state = ACTIVE
  BY DEF NewSwap
<1> HIDE DEF stored, new
<1>7. swaps'[leg][id] = stored /\ \A j \in SwapId \ {id} : swaps'[leg][j] = swaps[leg][j]
  BY <1>1, <1>2, <1>5
<1>8. ActiveIds(leg)' = ActiveIds(leg) \cup {id}
  BY <1>1, <1>6, <1>7 DEF ActiveIds, IsActive
<1>9. \A l \in Leg \ {leg} : swaps'[l] = swaps[l] /\ soap'[l] = soap[l]
  BY <1>1, <1>2
<1> QED BY <1>1, <1>4, <1>6, <1>7, <1>8, <1>9 DEF id

(* Closing takes the swap out and keeps the terms of the others. *)
LEMMA CloseTakesSwap ==
    ASSUME StorageInv, NEW caller, NEW leg \in Leg, NEW id \in SwapId, NEW liquidator,
           NEW payoff, NEW fee,
           UpdateStorageWhenCloseSwap(caller, leg, liquidator, swaps[leg][id],
                                      payoff, fee, now),
           StorageInv'
    PROVE  /\ id \in ActiveIds(leg)
           /\ ActiveIds(leg)' = ActiveIds(leg) \ {id}
           /\ \A j \in SwapId :
                 /\ swaps'[leg][j].collateral = swaps[leg][j].collateral
                 /\ swaps'[leg][j].notional = swaps[leg][j].notional
                 /\ swaps'[leg][j].ibtQuantity = swaps[leg][j].ibtQuantity
                 /\ swaps'[leg][j].fixedInterestRate = swaps[leg][j].fixedInterestRate
                 /\ swaps'[leg][j].openTimestamp = swaps[leg][j].openTimestamp
           /\ \A l \in Leg \ {leg} : swaps'[l] = swaps[l] /\ soap'[l] = soap[l]
<1>1. /\ swaps' = [swaps EXCEPT ![leg] = SwapsWhenClose(swaps[leg], ids[leg], swaps[leg][id])]
      /\ soap' = [soap EXCEPT ![leg] = RebalanceWhenCloseSwap(soap[leg], swaps[leg][id], now)]
      /\ swaps[leg][id].state # INACTIVE
  BY DEF UpdateStorageWhenCloseSwap, CanCloseSwap
<1>2. /\ swaps \in [Leg -> [SwapId -> Swap]]
      /\ swaps' \in [Leg -> [SwapId -> Swap]]
      /\ DOMAIN soap = Leg
  BY DEF StorageInv, TypeOK, StorageTypeOK
<1>3. LegTypeOK(swaps[leg], ids[leg]) /\ LegConsistent(swaps[leg], ids[leg])
  BY LegOfStorage
<1>4. IsActive(swaps[leg], id)
  BY <1>1, <1>2 DEF IsActive, Swap
<1>5. swaps'[leg] = SwapsWhenClose(swaps[leg], ids[leg], swaps[leg][id])
  BY <1>1, <1>2
<1>6. \A j \in SwapId : SwapTermsOf(swaps'[leg][j]) = SwapTermsOf(swaps[leg][j])
  BY <1>3, <1>4, <1>5, CloseKeepsTerms
<1>7. /\ ~IsActive(swaps'[leg], id)
      /\ \A j \in SwapId \ {id} : IsActive(swaps'[leg], j) <=> IsActive(swaps[leg], j)
  BY <1>3, <1>4, <1>5, CloseEndsOneSwap
<1>8. ActiveIds(leg)' = ActiveIds(leg) \ {id}
  BY <1>7 DEF ActiveIds, IsActive
<1>9. \A j \in SwapId :
         /\ swaps'[leg][j].collateral = swaps[leg][j].collateral
         /\ swaps'[leg][j].notional = swaps[leg][j].notional
         /\ swaps'[leg][j].ibtQuantity = swaps[leg][j].ibtQuantity
         /\ swaps'[leg][j].fixedInterestRate = swaps[leg][j].fixedInterestRate
         /\ swaps'[leg][j].openTimestamp = swaps[leg][j].openTimestamp
  BY <1>2, <1>6, SameTermsSameFields
<1> QED BY <1>1, <1>2, <1>4, <1>8, <1>9 DEF ActiveIds

-----------------------------------------------------------------------------
(* The inductive invariant: the totals are the sums, and, for the reset of the
   indicators that leaves no quantity, a swap without notional has no quantity
   of interest bearing tokens either. *)
QuantityNeedsNotional ==
    \A leg \in Leg, id \in SwapId :
        swaps[leg][id].notional = 0 => swaps[leg][id].ibtQuantity = 0

SumsInv == StorageInv /\ CollateralBacked /\ SoapTotalsBacked /\ QuantityNeedsNotional

(* What is summed are natural numbers. *)
LEMMA SummandsNatural ==
    ASSUME NEW sw, sw \in [SwapId -> Swap], NEW id \in SwapId
    PROVE  sw[id].collateral \in Nat /\ sw[id].notional \in Nat /\ sw[id].ibtQuantity \in Nat
  BY StorageAssumption DEF Swap, UInt128

(* Only the swaps matter to the sums. *)
LEMMA SameSwapsSameSums ==
    ASSUME NEW leg, swaps'[leg] = swaps[leg]
    PROVE  /\ SumFunctionOnSet(Collateral(leg), ActiveIds(leg))'
                  = SumFunctionOnSet(Collateral(leg), ActiveIds(leg))
           /\ SumFunctionOnSet(Notional(leg), ActiveIds(leg))'
                  = SumFunctionOnSet(Notional(leg), ActiveIds(leg))
           /\ SumFunctionOnSet(IbtQuantity(leg), ActiveIds(leg))'
                  = SumFunctionOnSet(IbtQuantity(leg), ActiveIds(leg))
  BY DEF Collateral, Notional, IbtQuantity, ActiveIds, IsActive

(* The sums after a swap is opened: one summand more. *)
LEMMA OpenSums ==
    ASSUME StorageInv, NEW caller, NEW leg \in Leg, NEW terms \in SwapTerms,
           NEW buyer \in Account,
           UpdateStorageWhenOpenSwap(caller, leg, NewSwap(terms, buyer), PUBLICATION_FEE),
           StorageInv'
    PROVE  /\ SumFunctionOnSet(Collateral(leg), ActiveIds(leg))'
                  = SumFunctionOnSet(Collateral(leg), ActiveIds(leg)) + terms.collateral
           /\ SumFunctionOnSet(Notional(leg), ActiveIds(leg))'
                  = SumFunctionOnSet(Notional(leg), ActiveIds(leg)) + terms.notional
           /\ SumFunctionOnSet(IbtQuantity(leg), ActiveIds(leg))'
                  = SumFunctionOnSet(IbtQuantity(leg), ActiveIds(leg)) + terms.ibtQuantity
<1> DEFINE id == lastSwapId + 1
<1>1. /\ id \in SwapId /\ id \notin ActiveIds(leg)
      /\ ActiveIds(leg)' = ActiveIds(leg) \cup {id}
      /\ swaps'[leg][id].collateral = terms.collateral
      /\ swaps'[leg][id].notional = terms.notional
      /\ swaps'[leg][id].ibtQuantity = terms.ibtQuantity
      /\ \A j \in SwapId \ {id} : swaps'[leg][j] = swaps[leg][j]
  BY OpenAddsSwap
<1> HIDE DEF id
<1>2. IsFiniteSet(ActiveIds(leg)) /\ ActiveIds(leg) \subseteq SwapId \ {id}
  BY <1>1, ActiveIdsFinite
<1>3. swaps[leg] \in [SwapId -> Swap] /\ swaps'[leg] \in [SwapId -> Swap]
  BY DEF StorageInv, TypeOK, StorageTypeOK
<1>4. \A j \in ActiveIds(leg) :
         /\ Collateral(leg)[j] \in Int /\ Collateral(leg)'[j] = Collateral(leg)[j]
         /\ Notional(leg)[j] \in Int /\ Notional(leg)'[j] = Notional(leg)[j]
         /\ IbtQuantity(leg)[j] \in Int /\ IbtQuantity(leg)'[j] = IbtQuantity(leg)[j]
  BY <1>1, <1>2, <1>3, SummandsNatural DEF Collateral, Notional, IbtQuantity
<1>5. /\ Collateral(leg)'[id] = terms.collateral /\ Collateral(leg)'[id] \in Int
      /\ Notional(leg)'[id] = terms.notional /\ Notional(leg)'[id] \in Int
      /\ IbtQuantity(leg)'[id] = terms.ibtQuantity /\ IbtQuantity(leg)'[id] \in Int
  BY <1>1, <1>3, SummandsNatural DEF Collateral, Notional, IbtQuantity
<1>6. ASSUME NEW f, NEW g, g[id] \in Int,
             \A j \in ActiveIds(leg) : f[j] \in Int /\ g[j] = f[j]
      PROVE  SumFunctionOnSet(g, ActiveIds(leg)') = SumFunctionOnSet(f, ActiveIds(leg)) + g[id]
  <2> DEFINE A == ActiveIds(leg)
  <2>1. IsFiniteSet(A) /\ id \notin A /\ g[id] \in Int
    BY <1>1, <1>2, <1>6
  <2>2. \A j \in A : f[j] \in Int /\ g[j] = f[j]
    BY <1>6
  <2> HIDE DEF A
  <2>3. SumFunctionOnSet(g, A \cup {id}) = SumFunctionOnSet(f, A) + g[id]
    BY <2>1, <2>2, SumWithOneMore
  <2> QED BY <1>1, <2>3 DEF A
<1> QED BY <1>4, <1>5, <1>6

(* The sums after a swap is closed: one summand less. *)
LEMMA CloseSums ==
    ASSUME StorageInv, NEW caller, NEW leg \in Leg, NEW id \in SwapId, NEW liquidator,
           NEW payoff, NEW fee,
           UpdateStorageWhenCloseSwap(caller, leg, liquidator, swaps[leg][id],
                                      payoff, fee, now),
           StorageInv'
    PROVE  /\ SumFunctionOnSet(Collateral(leg), ActiveIds(leg))'
                  = SumFunctionOnSet(Collateral(leg), ActiveIds(leg))
                        - swaps[leg][id].collateral
           /\ SumFunctionOnSet(Notional(leg), ActiveIds(leg))'
                  = SumFunctionOnSet(Notional(leg), ActiveIds(leg))
                        - swaps[leg][id].notional
           /\ SumFunctionOnSet(IbtQuantity(leg), ActiveIds(leg))'
                  = SumFunctionOnSet(IbtQuantity(leg), ActiveIds(leg))
                        - swaps[leg][id].ibtQuantity
<1>0. /\ id \in ActiveIds(leg)
      /\ ActiveIds(leg)' = ActiveIds(leg) \ {id}
      /\ \A j \in SwapId :
            /\ swaps'[leg][j].collateral = swaps[leg][j].collateral
            /\ swaps'[leg][j].notional = swaps[leg][j].notional
            /\ swaps'[leg][j].ibtQuantity = swaps[leg][j].ibtQuantity
            /\ swaps'[leg][j].fixedInterestRate = swaps[leg][j].fixedInterestRate
            /\ swaps'[leg][j].openTimestamp = swaps[leg][j].openTimestamp
  BY CloseTakesSwap, ZenonT(30)
<1>1. /\ id \in ActiveIds(leg)
      /\ ActiveIds(leg)' = ActiveIds(leg) \ {id}
      /\ \A j \in SwapId :
            /\ swaps'[leg][j].collateral = swaps[leg][j].collateral
            /\ swaps'[leg][j].notional = swaps[leg][j].notional
            /\ swaps'[leg][j].ibtQuantity = swaps[leg][j].ibtQuantity
  BY <1>0
<1>2. IsFiniteSet(ActiveIds(leg)) /\ ActiveIds(leg) \subseteq SwapId
  BY ActiveIdsFinite
<1>3. swaps[leg] \in [SwapId -> Swap]
  BY DEF StorageInv, TypeOK, StorageTypeOK
<1>4. \A j \in ActiveIds(leg) :
         /\ Collateral(leg)[j] \in Int /\ Collateral(leg)'[j] = Collateral(leg)[j]
         /\ Notional(leg)[j] \in Int /\ Notional(leg)'[j] = Notional(leg)[j]
         /\ IbtQuantity(leg)[j] \in Int /\ IbtQuantity(leg)'[j] = IbtQuantity(leg)[j]
  BY <1>1, <1>2, <1>3, SummandsNatural DEF Collateral, Notional, IbtQuantity
<1>5. /\ Collateral(leg)[id] = swaps[leg][id].collateral
      /\ Notional(leg)[id] = swaps[leg][id].notional
      /\ IbtQuantity(leg)[id] = swaps[leg][id].ibtQuantity
  BY DEF Collateral, Notional, IbtQuantity
<1>6. ASSUME NEW f, NEW g, \A j \in ActiveIds(leg) : f[j] \in Int /\ g[j] = f[j]
      PROVE  SumFunctionOnSet(g, ActiveIds(leg)') = SumFunctionOnSet(f, ActiveIds(leg)) - f[id]
  <2> DEFINE A == ActiveIds(leg)
  <2>1. IsFiniteSet(A) /\ id \in A
    BY <1>1, <1>2
  <2>2. \A j \in A : f[j] \in Int
    BY <1>6
  <2>3. \A j \in A \ {id} : g[j] = f[j]
    BY <1>6
  <2> HIDE DEF A
  <2>4. SumFunctionOnSet(g, A \ {id}) = SumFunctionOnSet(f, A) - f[id]
    BY <2>1, <2>2, <2>3, SumWithOneLess
  <2> QED BY <1>1, <2>4 DEF A
<1> QED BY <1>4, <1>5, <1>6

-----------------------------------------------------------------------------
(* The steps *)

(* Opening adds to the totals what it adds to the sums. *)
LEMMA OpenKeepsSums ==
    ASSUME SumsInv, NEW caller, NEW leg \in Leg, NEW terms \in SwapTerms,
           NEW buyer \in Account,
           UpdateStorageWhenOpenSwap(caller, leg, NewSwap(terms, buyer), PUBLICATION_FEE),
           StorageInv'
    PROVE  SumsInv'
<1> DEFINE new == NewSwap(terms, buyer)
           id  == lastSwapId + 1
<1>1. /\ StorageInv
      /\ balances \in Balances
      /\ balances' = BalancesWhenOpen(balances, leg, new, PUBLICATION_FEE)
      /\ soap' = [soap EXCEPT ![leg] = RebalanceWhenOpenSwap(soap[leg], new)]
      /\ DOMAIN soap = Leg
  BY DEF SumsInv, StorageInv, TypeOK, StorageTypeOK, UpdateStorageWhenOpenSwap
<1>2. /\ new.collateral = terms.collateral
      /\ new.notional = terms.notional
      /\ new.ibtQuantity = terms.ibtQuantity
  BY DEF NewSwap
<1>3. /\ \A l \in Leg \ {leg} : swaps'[l] = swaps[l] /\ soap'[l] = soap[l]
      /\ swaps'[leg][id].notional = terms.notional
      /\ swaps'[leg][id].ibtQuantity = terms.ibtQuantity
      /\ \A j \in SwapId \ {id} : swaps'[leg][j] = swaps[leg][j]
  <2>1. /\ id \in SwapId /\ id \notin ActiveIds(leg)
        /\ ActiveIds(leg)' = ActiveIds(leg) \cup {id}
        /\ swaps'[leg][id].collateral = terms.collateral
        /\ swaps'[leg][id].notional = terms.notional
        /\ swaps'[leg][id].ibtQuantity = terms.ibtQuantity
        /\ swaps'[leg][id].fixedInterestRate = terms.fixedInterestRate
        /\ swaps'[leg][id].openTimestamp = now
        /\ \A j \in SwapId \ {id} : swaps'[leg][j] = swaps[leg][j]
        /\ \A l \in Leg \ {leg} : swaps'[l] = swaps[l] /\ soap'[l] = soap[l]
    BY <1>1, OpenAddsSwap, Zenon
  <2> QED BY <2>1, Zenon
<1>4. /\ balances'.totalCollateral[leg] = balances.totalCollateral[leg] + terms.collateral
      /\ \A l \in Leg \ {leg} : balances'.totalCollateral[l] = balances.totalCollateral[l]
  BY <1>1, <1>2 DEF BalancesWhenOpen, Balances
<1>5. /\ soap'[leg].totalNotional = soap[leg].totalNotional + terms.notional
      /\ soap'[leg].totalIbtQuantity = soap[leg].totalIbtQuantity + terms.ibtQuantity
  BY <1>1, <1>2 DEF RebalanceWhenOpenSwap
<1> HIDE DEF new, id
<1>6. CollateralBacked'
  BY <1>1, <1>3, <1>4, OpenSums, SameSwapsSameSums DEF CollateralBacked, SumsInv
<1>7. SoapTotalsBacked'
  BY <1>1, <1>3, <1>5, OpenSums, SameSwapsSameSums DEF SoapTotalsBacked, SumsInv
<1>8. QuantityNeedsNotional'
  BY <1>3, SpecAssumption DEF QuantityNeedsNotional, SumsInv
<1> QED BY <1>6, <1>7, <1>8 DEF SumsInv

(* A leg whose notional is that of one of its swaps has no more quantity than
   that swap has: the reset loses nothing. *)
LEMMA ResetLosesNothing ==
    ASSUME SumsInv, NEW leg \in Leg, NEW id \in ActiveIds(leg),
           swaps[leg][id].notional = SumFunctionOnSet(Notional(leg), ActiveIds(leg))
    PROVE  SumFunctionOnSet(IbtQuantity(leg), ActiveIds(leg)) = swaps[leg][id].ibtQuantity
<1> DEFINE A      == ActiveIds(leg)
           others == A \ {id}
           n      == Notional(leg)
           q      == IbtQuantity(leg)
<1>1. IsFiniteSet(A) /\ A \subseteq SwapId
  BY ActiveIdsFinite
<1>2. swaps[leg] \in [SwapId -> Swap]
  BY DEF SumsInv, StorageInv, TypeOK, StorageTypeOK
<1>3. \A j \in A : n[j] = swaps[leg][j].notional /\ n[j] \in Nat
  BY <1>1, <1>2, SummandsNatural DEF Notional
<1>4. \A j \in A : q[j] = swaps[leg][j].ibtQuantity /\ q[j] \in Nat
  BY <1>1, <1>2, SummandsNatural DEF IbtQuantity
<1>5. \A j \in A : n[j] = 0 => q[j] = 0
  BY <1>1, <1>3, <1>4 DEF SumsInv, QuantityNeedsNotional
<1>6. n[id] = SumFunctionOnSet(n, A) /\ q[id] = swaps[leg][id].ibtQuantity
  BY <1>3, <1>4
<1>7. id \in A
  OBVIOUS
<1> HIDE DEF A, n, q
<1>8. IsFiniteSet(others)
  BY <1>1, FS_Subset
<1>9. SumFunctionOnSet(n, A) = n[id] + SumFunctionOnSet(n, others)
  BY <1>1, <1>3, <1>7, SumRemove
<1>10. SumFunctionOnSet(q, A) = q[id] + SumFunctionOnSet(q, others)
  BY <1>1, <1>4, <1>7, SumRemove
<1>11. \A j \in others : n[j] \in Nat /\ n[j] <= SumFunctionOnSet(n, others)
  BY <1>3, <1>8, SumOfNaturals
<1>12. SumFunctionOnSet(n, others) \in Int /\ n[id] \in Int
  BY <1>3, <1>7, <1>8, SumType
<1>13. \A j \in others : q[j] = 0
  BY <1>5, <1>6, <1>9, <1>11, <1>12
<1>14. SumFunctionOnSet(q, others) = 0
  BY <1>8, <1>13, SumOfZeros
<1>15. q[id] \in Int
  BY <1>4, <1>7
<1> QED BY <1>6, <1>10, <1>14, <1>15 DEF A, q

(* Closing takes out of the totals what it takes out of the sums. *)
LEMMA CloseKeepsSums ==
    ASSUME SumsInv, NEW caller, NEW leg \in Leg, NEW id \in SwapId, NEW liquidator,
           NEW payoff, NEW fee,
           UpdateStorageWhenCloseSwap(caller, leg, liquidator, swaps[leg][id],
                                      payoff, fee, now),
           StorageInv'
    PROVE  SumsInv'
<1> DEFINE swap == swaps[leg][id]
           si   == soap[leg]
<1>1. /\ StorageInv
      /\ balances \in Balances
      /\ balances' = BalancesWhenClose(balances, leg, swap, payoff, fee)
      /\ soap' = [soap EXCEPT ![leg] = RebalanceWhenCloseSwap(si, swap, now)]
      /\ DOMAIN soap = Leg
      /\ swaps \in [Leg -> [SwapId -> Swap]]
  BY DEF SumsInv, StorageInv, TypeOK, StorageTypeOK, UpdateStorageWhenCloseSwap
<1>2. /\ id \in ActiveIds(leg)
      /\ \A l \in Leg \ {leg} : swaps'[l] = swaps[l] /\ soap'[l] = soap[l]
      /\ \A j \in SwapId : /\ swaps'[leg][j].notional = swaps[leg][j].notional
                           /\ swaps'[leg][j].ibtQuantity = swaps[leg][j].ibtQuantity
  BY <1>1, CloseTakesSwap
<1>3. /\ balances'.totalCollateral[leg] = balances.totalCollateral[leg] - swap.collateral
      /\ \A l \in Leg \ {leg} : balances'.totalCollateral[l] = balances.totalCollateral[l]
  BY <1>1 DEF BalancesWhenClose, Balances
<1>4. swap.notional \in Nat /\ swap.ibtQuantity \in Nat
  BY <1>1, SummandsNatural
<1>5. /\ soap'[leg].totalNotional = si.totalNotional - swap.notional
      /\ soap'[leg].totalIbtQuantity = si.totalIbtQuantity - swap.ibtQuantity
  <2>1. soap'[leg] = RebalanceWhenCloseSwap(si, swap, now)
    BY <1>1
  <2>2. CASE swap.notional # si.totalNotional
    BY <2>1, <2>2 DEF RebalanceWhenCloseSwap
  <2>3. CASE swap.notional = si.totalNotional
    <3>1. soap'[leg].totalNotional = 0 /\ soap'[leg].totalIbtQuantity = 0
      BY <2>1, <2>3 DEF RebalanceWhenCloseSwap, EmptyIndicators
    <3>2. si.totalIbtQuantity = swap.ibtQuantity
      BY <2>3, <1>2, ResetLosesNothing DEF SumsInv, SoapTotalsBacked
    <3> QED BY <3>1, <3>2, <2>3, <1>4
  <2> QED BY <2>2, <2>3
<1> HIDE DEF swap, si
<1>6. CollateralBacked'
  <2>1. SumFunctionOnSet(Collateral(leg), ActiveIds(leg))'
            = SumFunctionOnSet(Collateral(leg), ActiveIds(leg)) - swap.collateral
    BY <1>1, CloseSums DEF swap
  <2> QED BY <1>2, <1>3, <2>1, SameSwapsSameSums DEF CollateralBacked, SumsInv
<1>7. SoapTotalsBacked'
  <2>1. /\ SumFunctionOnSet(Notional(leg), ActiveIds(leg))'
               = SumFunctionOnSet(Notional(leg), ActiveIds(leg)) - swap.notional
        /\ SumFunctionOnSet(IbtQuantity(leg), ActiveIds(leg))'
               = SumFunctionOnSet(IbtQuantity(leg), ActiveIds(leg)) - swap.ibtQuantity
    BY <1>1, CloseSums DEF swap
  <2> QED BY <1>2, <1>5, <2>1, SameSwapsSameSums DEF SoapTotalsBacked, SumsInv, si
<1>8. QuantityNeedsNotional'
  BY <1>2 DEF QuantityNeedsNotional, SumsInv
<1> QED BY <1>6, <1>7, <1>8 DEF SumsInv

(* A step opens a swap, closes one, or leaves swaps, SOAP and the booked
   collateral alone. *)
LEMMA StepKinds ==
    ASSUME StorageInv, [Next]_vars
    PROVE  \/ \E caller : \E leg \in Leg, terms \in SwapTerms, buyer \in Account :
                 /\ UpdateStorageWhenOpenSwap(caller, leg, NewSwap(terms, buyer),
                                              PUBLICATION_FEE)
                 /\ UNCHANGED now
           \/ \E caller, liquidator, payoff, fee : \E leg \in Leg, id \in SwapId :
                 /\ UpdateStorageWhenCloseSwap(caller, leg, liquidator, swaps[leg][id],
                                               payoff, fee, now)
                 /\ UNCHANGED now
           \/ /\ UNCHANGED <<swaps, soap>>
              /\ balances'.totalCollateral = balances.totalCollateral
<1>1. balances \in Balances
  BY DEF StorageInv, TypeOK, StorageTypeOK
<1>2. \A x, y : /\ [balances EXCEPT !.liquidityPool = x].totalCollateral
                      = balances.totalCollateral
                /\ [balances EXCEPT !.iporPublicationFee = x].totalCollateral
                      = balances.totalCollateral
                /\ [balances EXCEPT !.treasury = x].totalCollateral
                      = balances.totalCollateral
                /\ [balances EXCEPT !.liquidityPool = x, !.vault = y].totalCollateral
                      = balances.totalCollateral
  BY <1>1 DEF Balances
<1>3. ASSUME NEW caller, Open(caller)
      PROVE  \E c : \E leg \in Leg, terms \in SwapTerms, buyer \in Account :
                 /\ UpdateStorageWhenOpenSwap(c, leg, NewSwap(terms, buyer), PUBLICATION_FEE)
                 /\ UNCHANGED now
  BY <1>3 DEF Open
<1>4. ASSUME NEW caller, Close(caller)
      PROVE  \E c, liquidator, payoff, fee : \E leg \in Leg, id \in SwapId :
                 /\ UpdateStorageWhenCloseSwap(c, leg, liquidator, swaps[leg][id],
                                               payoff, fee, now)
                 /\ UNCHANGED now
  BY <1>4 DEF Close, GetSwap
<1>5. ASSUME NEW caller,
             \/ Withdraw(caller) \/ Deposit(caller) \/ Provide(caller) \/ Redeem(caller)
             \/ TransferToCharlie(caller) \/ TransferToTreasury(caller)
      PROVE  /\ UNCHANGED <<swaps, soap>>
             /\ balances'.totalCollateral = balances.totalCollateral
  <2>1. CASE Withdraw(caller) \/ Deposit(caller)
    <3>1. /\ UNCHANGED <<swaps, soap>>
          /\ \E pool, vault :
                balances' = [balances EXCEPT !.liquidityPool = pool, !.vault = vault]
      BY <2>1
         DEF Withdraw, Deposit, UpdateStorageWhenWithdrawFromStanley, BalancesWhenWithdraw,
             UpdateStorageWhenDepositToStanley, BalancesWhenDeposit
    <3> QED BY <3>1, <1>2
  <2>2. CASE Provide(caller) \/ Redeem(caller)
    BY <1>2, <2>2 DEF Provide, Redeem, AddLiquidity, SubtractLiquidity
  <2>3. CASE TransferToCharlie(caller) \/ TransferToTreasury(caller)
    BY <1>2, <2>3
       DEF TransferToCharlie, TransferToTreasury, UpdateStorageWhenTransferToTreasury,
           UpdateStorageWhenTransferToCharlieTreasury
  <2> QED BY <1>5, <2>1, <2>2, <2>3
<1>6. ASSUME NEW caller, Administer(caller)
      PROVE  UNCHANGED <<swaps, soap, balances>>
  BY <1>6 DEF Administer, SetMilton, SetJoseph, Pause, Unpause, bookVars
<1>7. Tick \/ UNCHANGED vars => UNCHANGED <<swaps, soap, balances>>
  BY DEF Tick, vars, storageVars
<1> QED BY <1>3, <1>4, <1>5, <1>6, <1>7 DEF Next

LEMMA NextKeepsSums == SumsInv /\ [Next]_vars => SumsInv'
<1> SUFFICES ASSUME SumsInv, [Next]_vars PROVE SumsInv'
  OBVIOUS
<1>1. StorageInv /\ StorageInv'
  BY NextKeepsInv DEF SumsInv
<1>2. ASSUME NEW caller, NEW leg \in Leg, NEW terms \in SwapTerms, NEW buyer \in Account,
             UpdateStorageWhenOpenSwap(caller, leg, NewSwap(terms, buyer), PUBLICATION_FEE)
      PROVE  SumsInv'
  BY <1>1, <1>2, OpenKeepsSums
<1>3. ASSUME NEW caller, NEW leg \in Leg, NEW id \in SwapId, NEW liquidator,
             NEW payoff, NEW fee,
             UpdateStorageWhenCloseSwap(caller, leg, liquidator, swaps[leg][id],
                                        payoff, fee, now)
      PROVE  SumsInv'
  BY <1>1, <1>3, CloseKeepsSums
<1>4. ASSUME UNCHANGED <<swaps, soap>>, balances'.totalCollateral = balances.totalCollateral
      PROVE  SumsInv'
  <2>1. CollateralBacked' /\ SoapTotalsBacked'
    BY <1>4, SameSwapsSameSums DEF SumsInv, CollateralBacked, SoapTotalsBacked
  <2> QED BY <1>1, <1>4, <2>1 DEF SumsInv, QuantityNeedsNotional
<1> QED BY <1>1, <1>2, <1>3, <1>4, StepKinds

LEMMA InitSums == Init => SumsInv
<1> SUFFICES ASSUME Init PROVE SumsInv
  OBVIOUS
<1>1. \A leg \in Leg, id \in SwapId : swaps[leg][id] = NoSwap
  BY DEF Init, StorageInit, BooksInit
<1>2. \A leg \in Leg : ActiveIds(leg) = {}
  BY <1>1 DEF ActiveIds, IsActive, NoSwap, ACTIVE, INACTIVE
<1>3. CollateralBacked /\ SoapTotalsBacked
  BY <1>2, SumOfNone
     DEF CollateralBacked, SoapTotalsBacked, Init, StorageInit, BooksInit, EmptyIndicators
<1> QED BY <1>1, <1>3, InitHolds DEF SumsInv, QuantityNeedsNotional, NoSwap

(* For any number of buyers, swaps and terms, the collateral that is booked for
   a leg is that of its active swaps: closing books out exactly what opening
   booked in, whatever happened to the index in between. *)
THEOREM CollateralAlwaysBacked == Spec => []CollateralBacked
<1>1. SumsInv => CollateralBacked
  BY DEF SumsInv
<1> QED BY <1>1, InitSums, NextKeepsSums, PTL DEF Spec

(* The notional and the quantity that SOAP is computed from are those of the
   active swaps, through every rebalance and every reset of the indicators. *)
THEOREM SoapTotalsAlwaysBacked == Spec => []SoapTotalsBacked
<1>1. SumsInv => SoapTotalsBacked
  BY DEF SumsInv
<1> QED BY <1>1, InitSums, NextKeepsSums, PTL DEF Spec

-----------------------------------------------------------------------------
(* Nobody but the named contracts writes. *)
LEMMA NextKeepsNoWriterNoBooks ==
    StorageInv /\ NoWriterNoBooks /\ [Next]_vars => NoWriterNoBooks'
<1> SUFFICES ASSUME StorageInv, NoWriterNoBooks, [Next]_vars PROVE NoWriterNoBooks'
  OBVIOUS
<1>1. balances \in Balances /\ \A c \in Contract \cup {Owner} : c # NoAddress
  BY StorageAssumption DEF StorageInv, TypeOK, StorageTypeOK
<1>2. ASSUME NEW caller \in Contract \cup {Owner},
             Open(caller) \/ Close(caller) \/ Withdraw(caller) \/ Deposit(caller)
      PROVE  /\ milton # NoAddress
             /\ UNCHANGED <<milton, joseph, contribution>>
  BY <1>1, <1>2
     DEF Open, Close, Withdraw, Deposit, UpdateStorageWhenOpenSwap,
         UpdateStorageWhenCloseSwap, UpdateStorageWhenWithdrawFromStanley,
         UpdateStorageWhenDepositToStanley
<1>3. ASSUME NEW caller \in Contract \cup {Owner},
             \/ Provide(caller) \/ Redeem(caller)
             \/ TransferToCharlie(caller) \/ TransferToTreasury(caller)
      PROVE  /\ joseph # NoAddress
             /\ UNCHANGED <<milton, joseph, lastSwapId, swaps>>
             /\ balances'.vault = balances.vault
  <2>1. \A x : /\ [balances EXCEPT !.liquidityPool = x].vault = balances.vault
               /\ [balances EXCEPT !.iporPublicationFee = x].vault = balances.vault
               /\ [balances EXCEPT !.treasury = x].vault = balances.vault
    BY <1>1 DEF Balances
  <2>2. CASE Provide(caller)
    BY <1>1, <2>1, <2>2 DEF Provide, AddLiquidity
  <2>3. CASE Redeem(caller)
    BY <1>1, <2>1, <2>3 DEF Redeem, SubtractLiquidity
  <2>4. CASE TransferToCharlie(caller)
    BY <1>1, <2>1, <2>4 DEF TransferToCharlie, UpdateStorageWhenTransferToCharlieTreasury
  <2>5. CASE TransferToTreasury(caller)
    BY <1>1, <2>1, <2>5 DEF TransferToTreasury, UpdateStorageWhenTransferToTreasury
  <2> QED BY <1>3, <2>2, <2>3, <2>4, <2>5
<1>4. ASSUME NEW caller \in Contract \cup {Owner}, Administer(caller)
      PROVE  /\ UNCHANGED <<bookVars, contribution>>
             /\ milton' = NoAddress => milton = NoAddress
             /\ joseph' = NoAddress => joseph = NoAddress
  BY <1>4 DEF Administer, SetMilton, SetJoseph, Pause, Unpause
<1>5. Tick \/ UNCHANGED vars => UNCHANGED storageVars
  BY DEF Tick, vars
<1>6. \A leg : swaps' = swaps => ActiveIds(leg)' = ActiveIds(leg)
  BY DEF ActiveIds, IsActive
<1> QED
  BY <1>2, <1>3, <1>4, <1>5, <1>6 DEF Next, NoWriterNoBooks, bookVars, storageVars

(* Without Milton there are no swaps and nothing is booked in Stanley, without
   Joseph nobody has contributed, without both the pool is empty: the modifiers
   onlyMilton and onlyJoseph leave no other way in. *)
THEOREM NeverBooksWithoutWriter == Spec => []NoWriterNoBooks
<1>1. Init => NoWriterNoBooks
  BY InitSums DEF Init, StorageInit, BooksInit, NoWriterNoBooks, ActiveIds, IsActive,
                  NoSwap, ACTIVE, INACTIVE
<1> QED BY <1>1, InitHolds, NextKeepsInv, NextKeepsNoWriterNoBooks, PTL DEF Spec
=============================================================================
