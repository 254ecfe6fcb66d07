------------------------ MODULE MiltonStorageLemmas ------------------------
(***************************************************************************)
(* Lemmas about the operators of MiltonStorage and of the arithmetic below *)
(* it, which the proofs about the storage by itself and about the whole    *)
(* AMM share.                                                              *)
(***************************************************************************)
EXTENDS MiltonStorage, TLAPS

(* What the lemmas about one leg assume of it. *)
LegTypeOK(sw, lists) ==
    /\ sw \in [SwapId -> Swap]
    /\ lists \in [Account -> Seq(SwapId)]

LegConsistent(sw, lists) ==
    /\ ActiveSwapsListed(sw, lists)
    /\ ListedSwapsActive(sw, lists)

-----------------------------------------------------------------------------
(* Opening a swap under an unused id appends it to the list of its buyer and
   keeps the leg consistent. *)
LEMMA OpenKeepsLegConsistent ==
    ASSUME NEW sw, NEW lists, LegTypeOK(sw, lists), LegConsistent(sw, lists),
           NEW id \in SwapId, ~IsActive(sw, id),
           NEW new, new.buyer \in Account
    PROVE  LegConsistent(SwapsWhenOpen(sw, lists, id, new), IdsWhenOpen(lists, id, new))
<1> DEFINE sw2 == SwapsWhenOpen(sw, lists, id, new)
           lists2 == IdsWhenOpen(lists, id, new)
           buyer == new.buyer
<1>1. lists[buyer] \in Seq(SwapId)
  BY DEF LegTypeOK
<1>2. /\ lists2[buyer] = Append(lists[buyer], id)
      /\ \A a \in Account \ {buyer} : lists2[a] = lists[a]
  BY DEF LegTypeOK, IdsWhenOpen
<1>3. /\ Len(lists2[buyer]) = Len(lists[buyer]) + 1
      /\ lists2[buyer][Len(lists[buyer]) + 1] = id
      /\ \A i \in 1..Len(lists[buyer]) : lists2[buyer][i] = lists[buyer][i]
  BY <1>1, <1>2
<1>4. /\ sw2[id].id = id
      /\ sw2[id].buyer = buyer
      /\ sw2[id].idsIndex = Len(lists[buyer])
      /\ IsActive(sw2, id)
  BY DEF LegTypeOK, SwapsWhenOpen, IsActive, ACTIVE
<1>5. \A j \in SwapId \ {id} : sw2[j] = sw[j]
  BY DEF LegTypeOK, SwapsWhenOpen
<1>6. \A a \in Account : \A i \in 1..Len(lists[a]) :
          lists[a][i] \in SwapId /\ lists[a][i] # id
  BY DEF LegTypeOK, LegConsistent, ListedSwapsActive
<1>7. ActiveSwapsListed(sw2, lists2)
  <2> SUFFICES ASSUME NEW j \in SwapId, IsActive(sw2, j)
               PROVE  /\ sw2[j].id = j
                      /\ sw2[j].buyer \in Account
                      /\ sw2[j].idsIndex < Len(lists2[sw2[j].buyer])
                      /\ lists2[sw2[j].buyer][sw2[j].idsIndex + 1] = j
    BY DEF ActiveSwapsListed
  <2>1. CASE j = id
    BY <2>1, <1>1, <1>3, <1>4
  <2>2. CASE j # id
    <3>1. /\ sw[j].id = j
          /\ sw[j].buyer \in Account
          /\ sw[j].idsIndex < Len(lists[sw[j].buyer])
          /\ lists[sw[j].buyer][sw[j].idsIndex + 1] = j
      BY <2>2, <1>5 DEF LegConsistent, ActiveSwapsListed, IsActive
    <3>2. sw[j].idsIndex \in Nat
      BY DEF LegTypeOK, Swap, UInt32
    <3>3. sw[j].idsIndex + 1 \in 1..Len(lists[sw[j].buyer])
      BY <3>1, <3>2 DEF LegTypeOK
    <3>4. sw2[j] = sw[j]
      BY <2>2, <1>5
    <3>5. CASE sw[j].buyer = buyer
      <4>1. /\ Len(lists2[buyer]) = Len(lists[buyer]) + 1
            /\ lists2[buyer][sw[j].idsIndex + 1] = lists[buyer][sw[j].idsIndex + 1]
        BY <1>3, <3>3, <3>5
      <4> QED
        BY <1>1, <3>1, <3>2, <3>4, <3>5, <4>1
    <3>6. CASE sw[j].buyer # buyer
      <4>1. lists2[sw[j].buyer] = lists[sw[j].buyer]
        BY <1>2, <3>1, <3>6
      <4> QED
        BY <3>1, <3>4, <4>1
    <3> QED
      BY <3>5, <3>6
  <2> QED BY <2>1, <2>2
<1>8. ListedSwapsActive(sw2, lists2)
  <2> SUFFICES ASSUME NEW a \in Account, NEW i \in 1..Len(lists2[a])
               PROVE  /\ IsActive(sw2, lists2[a][i])
                      /\ sw2[lists2[a][i]].buyer = a
                      /\ sw2[lists2[a][i]].idsIndex = i - 1
    BY DEF ListedSwapsActive
  <2>1. CASE a = buyer /\ i = Len(lists[buyer]) + 1
    BY <2>1, <1>1, <1>3, <1>4
  <2>2. CASE i \in 1..Len(lists[a])
    <3>1. /\ lists2[a][i] = lists[a][i]
          /\ lists[a][i] \in SwapId \ {id}
      BY <2>2, <1>2, <1>3, <1>6
    <3>2. /\ IsActive(sw, lists[a][i])
          /\ sw[lists[a][i]].buyer = a
          /\ sw[lists[a][i]].idsIndex = i - 1
      BY <2>2 DEF LegConsistent, ListedSwapsActive
    <3> QED BY <3>1, <3>2, <1>5 DEF IsActive
  <2>3. (a = buyer /\ i = Len(lists[buyer]) + 1) \/ i \in 1..Len(lists[a])
    BY <1>1, <1>2, <1>3
  <2> QED BY <2>1, <2>2, <2>3
<1> QED BY <1>7, <1>8 DEF LegConsistent

(* Closing an active swap by swap-and-pop removes its id from the list of its
   buyer, tells the swap that moved, and keeps the leg consistent. *)
LEMMA CloseKeepsLegConsistent ==
    ASSUME NEW sw, NEW lists, LegTypeOK(sw, lists), LegConsistent(sw, lists),
           NEW id \in SwapId, IsActive(sw, id)
    PROVE  /\ LegConsistent(SwapsWhenClose(sw, lists, sw[id]), IdsWhenClose(lists, sw[id]))
           /\ LegTypeOK(SwapsWhenClose(sw, lists, sw[id]), IdsWhenClose(lists, sw[id]))
<1> DEFINE swap   == sw[id]
           buyer  == swap.buyer
           list   == lists[buyer]
           n      == Len(list)
           k      == swap.idsIndex
           moved  == MovedId(lists, buyer)
           sw2    == SwapsWhenClose(sw, lists, swap)
           lists2 == IdsWhenClose(lists, swap)
<1>1. /\ swap.id = id
      /\ buyer \in Account
      /\ k < n
      /\ list[k + 1] = id
  BY DEF LegConsistent, ActiveSwapsListed
<1>2. /\ list \in Seq(SwapId)
      /\ n \in Nat
      /\ k \in Nat
      /\ k \in UInt32
  BY <1>1 DEF LegTypeOK, Swap, UInt32
<1>3. /\ n \in 1..n
      /\ k + 1 \in 1..n
      /\ n - 1 \in Nat
  BY <1>1, <1>2
<1>4. /\ moved \in SwapId
      /\ IsActive(sw, moved)
      /\ sw[moved].buyer = buyer
      /\ sw[moved].idsIndex = n - 1
      /\ moved = list[n]
  BY <1>1, <1>2, <1>3 DEF MovedId, LegConsistent, ListedSwapsActive
<1>5. IsLast(lists, swap) <=> k = n - 1
  BY <1>1, <1>2 DEF IsLast
<1>6. moved = id <=> k = n - 1
  BY <1>1, <1>2, <1>4
(* The swaps afterwards. *)
<1>7. /\ sw2 \in [SwapId -> Swap]
      /\ ~IsActive(sw2, id)
      /\ \A j \in SwapId \ {id} :
             /\ sw2[j].id = sw[j].id
             /\ sw2[j].buyer = sw[j].buyer
             /\ sw2[j].state = sw[j].state
             /\ sw2[j].idsIndex = IF j = moved THEN k ELSE sw[j].idsIndex
  <2>1. CASE k = n - 1
    <3>1. sw2 = [sw EXCEPT ![id].state = INACTIVE]
      BY <1>1, <1>5, <2>1 DEF SwapsWhenClose
    <3> QED
      BY <3>1, <2>1, <1>6 DEF LegTypeOK, Swap, IsActive, ACTIVE, INACTIVE
  <2>2. CASE k # n - 1
    <3>1. sw2 = [[sw EXCEPT ![moved].idsIndex = k] EXCEPT ![id].state = INACTIVE]
      BY <1>1, <1>5, <2>2 DEF SwapsWhenClose
    <3>2. DEFINE told == [sw EXCEPT ![moved].idsIndex = k]
    <3>3. /\ told \in [SwapId -> Swap]
          /\ \A j \in SwapId :
                /\ told[j].id = sw[j].id
                /\ told[j].buyer = sw[j].buyer
                /\ told[j].state = sw[j].state
                /\ told[j].idsIndex = IF j = moved THEN k ELSE sw[j].idsIndex
      BY <1>2, <1>4 DEF LegTypeOK, Swap
    <3> QED
      BY <3>1, <3>3 DEF Swap, IsActive, ACTIVE, INACTIVE
  <2> QED BY <2>1, <2>2
(* The lists afterwards. *)
<1>8. /\ lists2[buyer] \in Seq(SwapId)
      /\ Len(lists2[buyer]) = n - 1
      /\ \A i \in 1..(n - 1) : lists2[buyer][i] = IF i = k + 1 THEN moved ELSE list[i]
      /\ \A a \in Account \ {buyer} : lists2[a] = lists[a]
  <2> DEFINE put == IF IsLast(lists, swap) THEN list
                    ELSE [list EXCEPT ![k + 1] = moved]
  <2>1. lists2 = [lists EXCEPT ![buyer] = SubSeq(put, 1, n - 1)]
    BY DEF IdsWhenClose
  <2>2. /\ put \in Seq(SwapId)
        /\ Len(put) = n
        /\ \A i \in 1..(n - 1) : put[i] = IF i = k + 1 THEN moved ELSE list[i]
    BY <1>2, <1>3, <1>4, <1>5
  <2>3. /\ SubSeq(put, 1, n - 1) \in Seq(SwapId)
        /\ Len(SubSeq(put, 1, n - 1)) = n - 1
        /\ \A i \in 1..(n - 1) : SubSeq(put, 1, n - 1)[i] = put[i]
    BY <2>2, <1>2, <1>3
  <2> QED
    BY <2>1, <2>2, <2>3, <1>1 DEF LegTypeOK
<1>9. LegTypeOK(sw2, lists2)
  BY <1>7, <1>8, <1>1 DEF LegTypeOK, IdsWhenClose
<1>10. \A i \in 1..n : list[i] \in SwapId /\ (list[i] = id => i = k + 1)
                        /\ (list[i] = moved => i = n)
  BY <1>1, <1>2, <1>4 DEF LegConsistent, ListedSwapsActive
<1>11. ActiveSwapsListed(sw2, lists2)
  <2> SUFFICES ASSUME NEW j \in SwapId, IsActive(sw2, j)
               PROVE  /\ sw2[j].id = j
                      /\ sw2[j].buyer \in Account
                      /\ sw2[j].idsIndex < Len(lists2[sw2[j].buyer])
                      /\ lists2[sw2[j].buyer][sw2[j].idsIndex + 1] = j
    BY DEF ActiveSwapsListed
  <2>1. j # id /\ IsActive(sw, j)
    BY <1>7 DEF IsActive
  <2>2. /\ sw[j].id = j
        /\ sw[j].buyer \in Account
        /\ sw[j].idsIndex < Len(lists[sw[j].buyer])
        /\ lists[sw[j].buyer][sw[j].idsIndex + 1] = j
        /\ sw[j].idsIndex \in Nat
    BY <2>1 DEF LegConsistent, ActiveSwapsListed, LegTypeOK, Swap, UInt32
  <2>3. /\ sw2[j].id = j
        /\ sw2[j].buyer = sw[j].buyer
        /\ sw2[j].idsIndex = IF j = moved THEN k ELSE sw[j].idsIndex
    BY <1>7, <2>1, <2>2
  <2>4. CASE sw[j].buyer # buyer
    BY <2>2, <2>3, <2>4, <1>4, <1>8
  <2>5. CASE j = moved
    <3>1. k # n - 1
      BY <2>1, <2>5, <1>6
    <3>2. k + 1 \in 1..(n - 1)
      BY <3>1, <1>1, <1>2
    <3>3. lists2[buyer][k + 1] = moved
      BY <3>2, <1>8
    <3>4. sw2[j].id = j /\ sw2[j].buyer = buyer /\ sw2[j].idsIndex = k
      BY <2>2, <2>3, <2>5, <1>4
    <3>5. k < Len(lists2[buyer])
      BY <3>2, <1>1, <1>2, <1>8
    <3> QED
      BY <2>5, <3>3, <3>4, <3>5, <1>1
  <2>6. CASE sw[j].buyer = buyer /\ j # moved
    <3> DEFINE i == sw[j].idsIndex + 1
    <3>1. i \in 1..n /\ list[i] = j
      BY <2>2, <2>6, <1>2
    <3>2. i # n /\ i # k + 1
      BY <3>1, <2>1, <2>6, <1>1, <1>4
    <3>3. i \in 1..(n - 1)
      BY <3>1, <3>2, <1>2
    <3>4. lists2[buyer][i] = j
      BY <1>8, <3>1, <3>2, <3>3
    <3> QED
      BY <2>2, <2>3, <2>6, <3>3, <3>4, <1>8, <1>2
  <2> QED BY <2>4, <2>5, <2>6
<1>12. ListedSwapsActive(sw2, lists2)
  <2> SUFFICES ASSUME NEW a \in Account, NEW i \in 1..Len(lists2[a])
               PROVE  /\ IsActive(sw2, lists2[a][i])
                      /\ sw2[lists2[a][i]].buyer = a
                      /\ sw2[lists2[a][i]].idsIndex = i - 1
    BY DEF ListedSwapsActive
  <2>1. CASE a # buyer
    <3>1. lists2[a] = lists[a]
      BY <2>1, <1>8
    <3>2. /\ lists[a][i] \in SwapId
          /\ IsActive(sw, lists[a][i])
          /\ sw[lists[a][i]].buyer = a
          /\ sw[lists[a][i]].idsIndex = i - 1
      BY <3>1 DEF LegConsistent, ListedSwapsActive, LegTypeOK
    <3>3. lists[a][i] # id /\ lists[a][i] # moved
      BY <2>1, <3>2, <1>4
    <3> QED
      BY <3>1, <3>2, <3>3, <1>7 DEF IsActive
  <2>2. CASE a = buyer
    <3>1. i \in 1..(n - 1) /\ i \in 1..n
      BY <2>2, <1>2, <1>8
    <3>2. CASE i = k + 1
      <4>1. lists2[a][i] = moved
        BY <2>2, <3>1, <3>2, <1>8
      <4>2. moved # id
        BY <3>1, <3>2, <1>2, <1>6
      <4>3. sw2[moved].idsIndex = k /\ sw2[moved].buyer = buyer /\ IsActive(sw2, moved)
        BY <4>2, <1>4, <1>7 DEF IsActive
      <4> QED
        BY <4>1, <4>3, <2>2, <3>2, <1>2
    <3>3. CASE i # k + 1
      <4>1. lists2[a][i] = list[i]
        BY <2>2, <3>1, <3>3, <1>8
      <4>2. list[i] \in SwapId /\ list[i] # id /\ list[i] # moved
        BY <3>1, <3>3, <1>2, <1>10
      <4>3. /\ IsActive(sw, list[i])
            /\ sw[list[i]].buyer = buyer
            /\ sw[list[i]].idsIndex = i - 1
        BY <3>1, <1>1 DEF LegConsistent, ListedSwapsActive
      <4> QED
        BY <4>1, <4>2, <4>3, <2>2, <1>7 DEF IsActive
    <3> QED BY <3>2, <3>3
  <2> QED BY <2>1, <2>2
<1> QED BY <1>9, <1>11, <1>12 DEF LegConsistent

-----------------------------------------------------------------------------
(* The arithmetic stays within the integers, and interest within the naturals. *)
LEMMA ProductOfNaturals == \A x, y \in Nat : x * y \in Nat
  BY SMT

(* A year in fixed point is a divisor that is never zero. *)
LEMMA WadYearPositive == WAD_YEAR_IN_SECONDS \in Nat \ {0}
<1>1. D18 \in Nat /\ D18 > 0 /\ YEAR_IN_SECONDS \in Nat /\ YEAR_IN_SECONDS > 0
  BY D18Assumption, YearAssumption
<1>2. D18 * YEAR_IN_SECONDS > 0 /\ D18 * YEAR_IN_SECONDS \in Nat
  BY <1>1
<1> QED BY <1>2 DEF WAD_YEAR_IN_SECONDS

(* Half-up division of naturals by a positive number is a natural. *)
LEMMA DivisionType ==
    ASSUME NEW x \in Int, NEW y \in Nat \ {0}
    PROVE  /\ Division(x, y) \in Int
           /\ DivisionInt(x, y) \in Int
           /\ x >= 0 => Division(x, y) >= 0
  BY DEF Division, DivisionInt, TruncDiv

(* Capping an integer by a collateral yields an integer no larger than the
   collateral in either direction. *)
LEMMA NormalizeType ==
    ASSUME NEW collateral \in Nat, NEW value \in Int
    PROVE  NormalizeSwapValue(collateral, value) \in Int
  BY DEF NormalizeSwapValue

(* A payoff is an integer, capped by the collateral of the swap. *)
LEMMA PayoffType ==
    ASSUME NEW leg \in Leg, NEW swap \in Swap, NEW t \in Nat, NEW price \in Nat
    PROVE  CalculatePayoff(leg, swap, t, price) \in -swap.collateral..swap.collateral
<1> DEFINE quasi == QuasiPayoff(leg, swap, t, price)
<1>1. /\ swap.collateral \in Nat
      /\ swap.notional \in Nat
      /\ swap.ibtQuantity \in Nat
      /\ swap.fixedInterestRate \in Nat
      /\ swap.openTimestamp \in Nat
  BY StorageAssumption DEF Swap, UInt32, UInt64, UInt128
<1>2. quasi \in Int
  <2>1. QuasiInterestFixed(swap.notional, swap.fixedInterestRate, t - swap.openTimestamp) \in Int
    BY <1>1, WadYearPositive DEF QuasiInterestFixed
  <2>2. QuasiInterestFloating(swap.ibtQuantity, price) \in Int
    BY <1>1, YearAssumption DEF QuasiInterestFloating
  <2> QED BY <2>1, <2>2 DEF QuasiPayoff
<1>3. DivisionInt(quasi, WAD_YEAR_IN_SECONDS) \in Int
  BY <1>2, WadYearPositive, DivisionType
<1> HIDE DEF quasi
<1> QED BY <1>1, <1>3 DEF CalculatePayoff, NormalizeSwapValue, quasi

(* The income fee, a share of the payoff's size, is a natural. *)
LEMMA IncomeFeeType ==
    ASSUME NEW payoff \in Int, NEW rate \in 0..D18
    PROVE  PercentOf(AbsoluteValue(payoff), rate) \in Nat
<1>1. AbsoluteValue(payoff) \in Nat
  BY DEF AbsoluteValue
<1>2. rate \in Nat
  BY D18Assumption
<1>3. AbsoluteValue(payoff) * rate \in Nat
  BY <1>1, <1>2, ProductOfNaturals
<1> QED BY <1>3, D18Assumption, DivisionType DEF PercentOf

-----------------------------------------------------------------------------
(* Types of the books after each operation. *)
SoapOfLegType ==
    [qhic: Nat, totalNotional: UInt128, totalIbtQuantity: UInt128,
     averageInterestRate: UInt64, rebalanceTimestamp: UInt32]

(* A natural that passes a cast (toUint32, toUint64, toUint128) is in the range
   of the type. *)
LEMMA FitsType ==
    ASSUME NEW x \in Int, NEW max \in Nat, Fits(x, max)
    PROVE  x \in 0..max
  BY DEF Fits

(* A record of integers that passed the casts has the type of the stored one. *)
LEMMA SoapFitsType ==
    ASSUME NEW q \in Nat, NEW n \in Int, NEW i \in Int, NEW r \in Int, NEW t \in Int,
           SoapFits([qhic |-> q, totalNotional |-> n, totalIbtQuantity |-> i,
                     averageInterestRate |-> r, rebalanceTimestamp |-> t])
    PROVE  [qhic |-> q, totalNotional |-> n, totalIbtQuantity |-> i,
            averageInterestRate |-> r, rebalanceTimestamp |-> t] \in SoapOfLegType
<1>1. /\ Fits(n, MAX_UINT128)
      /\ Fits(i, MAX_UINT128)
      /\ Fits(r, MAX_UINT64)
      /\ Fits(t, MAX_UINT32)
  BY DEF SoapFits
<1>2. n \in UInt128 /\ i \in UInt128 /\ r \in UInt64 /\ t \in UInt32
  BY <1>1, FitsType, StorageAssumption DEF UInt32, UInt64, UInt128
<1> QED BY <1>2 DEF SoapOfLegType

(* Balances that are integers and passed the casts have the type of _balances. *)
LEMMA BalancesFitType ==
    ASSUME NEW c \in [Leg -> Int], NEW l \in Int, NEW v \in Int, NEW p \in Int, NEW t \in Int,
           BalancesFit([totalCollateral |-> c, liquidityPool |-> l, vault |-> v,
                        iporPublicationFee |-> p, treasury |-> t])
    PROVE  [totalCollateral |-> c, liquidityPool |-> l, vault |-> v,
            iporPublicationFee |-> p, treasury |-> t] \in Balances
<1>1. /\ \A leg \in Leg : Fits(c[leg], MAX_UINT128)
      /\ Fits(l, MAX_UINT128)
      /\ Fits(v, MAX_UINT128)
      /\ Fits(p, MAX_UINT128)
      /\ Fits(t, MAX_UINT128)
  BY DEF BalancesFit
<1>2. \A leg \in Leg : c[leg] \in UInt128
  BY <1>1, FitsType, StorageAssumption DEF UInt128
<1>3. l \in UInt128 /\ v \in UInt128 /\ p \in UInt128 /\ t \in UInt128
  BY <1>1, FitsType, StorageAssumption DEF UInt128
<1> QED BY <1>2, <1>3 DEF Balances

(* Opening leaves SOAP indicators of the stored type (rebalanceWhenOpenSwap
   followed by the casts of _updateSoapIndicatorsWhenOpenSwap). *)
LEMMA SoapOpenType ==
    ASSUME NEW si \in SoapOfLegType, NEW new,
           new.notional \in Nat, new.fixedInterestRate \in Nat, new.ibtQuantity \in Nat,
           new.openTimestamp \in UInt32,
           CanUpdateSoapWhenOpen(si, new)
    PROVE  RebalanceWhenOpenSwap(si, new) \in SoapOfLegType
<1> DEFINE time == new.openTimestamp
           si2 == RebalanceWhenOpenSwap(si, new)
<1>1. /\ new.notional \in Nat
      /\ new.fixedInterestRate \in Nat
      /\ new.ibtQuantity \in Nat
  OBVIOUS
<1>2. /\ si.qhic \in Nat
      /\ si.totalNotional \in Nat
      /\ si.totalIbtQuantity \in Nat
      /\ si.averageInterestRate \in Nat
      /\ si.rebalanceTimestamp \in Nat
      /\ time \in Nat
  BY StorageAssumption DEF SoapOfLegType, UInt32, UInt64, UInt128
<1>3. time - si.rebalanceTimestamp \in Nat /\ si.totalNotional + new.notional \in Nat \ {0}
  BY <1>1, <1>2 DEF CanUpdateSoapWhenOpen, CanRebalanceWhenOpenSwap
<1>4. QuasiHypotheticalInterestTotal(si, time) \in Nat
  BY <1>2, <1>3, D18Assumption, ProductOfNaturals
     DEF QuasiHypotheticalInterestTotal, QuasiHypotheticalInterestDelta
<1>5. AverageInterestRateWhenOpenSwap(si, new) \in Int
  <2>1. si.totalNotional * si.averageInterestRate + new.notional * new.fixedInterestRate \in Int
    BY <1>1, <1>2
  <2> QED
    BY <1>3, <2>1, DivisionType DEF AverageInterestRateWhenOpenSwap
<1>6. si2 = [qhic                |-> QuasiHypotheticalInterestTotal(si, time),
             totalNotional       |-> si.totalNotional + new.notional,
             totalIbtQuantity    |-> si.totalIbtQuantity + new.ibtQuantity,
             averageInterestRate |-> AverageInterestRateWhenOpenSwap(si, new),
             rebalanceTimestamp  |-> time]
  BY DEF RebalanceWhenOpenSwap
<1>7. SoapFits(si2)
  BY DEF CanUpdateSoapWhenOpen
<1> HIDE DEF time, si2
<1>8. si2 \in SoapOfLegType
  BY <1>1, <1>2, <1>4, <1>5, <1>6, <1>7, SoapFitsType
<1> QED BY <1>8 DEF si2

(* Closing leaves SOAP indicators of the stored type, in both branches of
   rebalanceWhenCloseSwap. *)
LEMMA SoapCloseType ==
    ASSUME NEW si \in SoapOfLegType, NEW swap \in Swap, NEW t \in UInt32,
           CanUpdateSoapWhenClose(si, swap, t)
    PROVE  RebalanceWhenCloseSwap(si, swap, t) \in SoapOfLegType
<1> DEFINE si2 == RebalanceWhenCloseSwap(si, swap, t)
<1>1. /\ si.qhic \in Nat
      /\ si.totalNotional \in Nat
      /\ si.totalIbtQuantity \in Nat
      /\ si.averageInterestRate \in Nat
      /\ si.rebalanceTimestamp \in Nat
      /\ t \in Nat
      /\ swap.notional \in Nat
      /\ swap.ibtQuantity \in Nat
      /\ swap.fixedInterestRate \in Nat
      /\ swap.openTimestamp \in Nat
  BY StorageAssumption DEF SoapOfLegType, Swap, UInt32, UInt64, UInt128
<1>2. SoapFits(si2)
  BY DEF CanUpdateSoapWhenClose
<1>3. CASE swap.notional = si.totalNotional
  <2>1. si2 = [EmptyIndicators EXCEPT !.rebalanceTimestamp = t]
    BY <1>3 DEF RebalanceWhenCloseSwap
  <2> QED
    BY <2>1, <1>1, StorageAssumption DEF EmptyIndicators, SoapOfLegType, UInt64, UInt128
<1>4. CASE swap.notional # si.totalNotional
  <2>1. /\ si.totalNotional - swap.notional \in Nat \ {0}
        /\ WeightAfterClose(si, swap) >= 0
        /\ QuasiInterestAfterClose(si, swap, t) >= 0
        /\ swap.ibtQuantity <= si.totalIbtQuantity
        /\ t - si.rebalanceTimestamp \in Nat
        /\ t - swap.openTimestamp \in Nat
    BY <1>1, <1>4 DEF CanUpdateSoapWhenClose, CanRebalanceWhenCloseSwap
  <2>2. QuasiHypotheticalInterestTotal(si, t) \in Nat
    BY <1>1, <2>1, D18Assumption, ProductOfNaturals
       DEF QuasiHypotheticalInterestTotal, QuasiHypotheticalInterestDelta
  <2>3. QuasiInterestPaidOut(swap, t) \in Nat
    BY <1>1, <2>1, D18Assumption, ProductOfNaturals DEF QuasiInterestPaidOut
  <2>4. QuasiInterestAfterClose(si, swap, t) \in Nat
    BY <2>1, <2>2, <2>3 DEF QuasiInterestAfterClose
  <2>5. WeightAfterClose(si, swap) \in Int
    BY <1>1, ProductOfNaturals DEF WeightAfterClose
  <2>6. AverageInterestRateWhenCloseSwap(si, swap) \in Int
    BY <1>4, <2>1, <2>5, DivisionType DEF AverageInterestRateWhenCloseSwap
  <2>7. si2 = [qhic                |-> QuasiInterestAfterClose(si, swap, t),
               totalNotional       |-> si.totalNotional - swap.notional,
               totalIbtQuantity    |-> si.totalIbtQuantity - swap.ibtQuantity,
               averageInterestRate |-> AverageInterestRateWhenCloseSwap(si, swap),
               rebalanceTimestamp  |-> t]
    BY <1>4 DEF RebalanceWhenCloseSwap
  <2> HIDE DEF si2
  <2>8. si2 \in SoapOfLegType
    BY <1>1, <1>2, <2>4, <2>6, <2>7, SoapFitsType
  <2> QED BY <2>8 DEF si2
<1> QED BY <1>3, <1>4

(* Opening leaves balances of the stored type. *)
LEMMA BalancesOpenType ==
    ASSUME NEW b \in Balances, NEW leg \in Leg, NEW new, NEW publicationFee \in Nat,
           new.collateral \in Nat, new.openingFeeLPAmount \in Nat,
           new.openingFeeTreasuryAmount \in Nat,
           BalancesFit(BalancesWhenOpen(b, leg, new, publicationFee))
    PROVE  BalancesWhenOpen(b, leg, new, publicationFee) \in Balances
<1>1. /\ new.collateral \in Nat
      /\ new.openingFeeLPAmount \in Nat
      /\ new.openingFeeTreasuryAmount \in Nat
  OBVIOUS
<1>2. /\ b.totalCollateral \in [Leg -> Int]
      /\ b.liquidityPool \in Int
      /\ b.vault \in Int
      /\ b.iporPublicationFee \in Int
      /\ b.treasury \in Int
  BY StorageAssumption DEF Balances, UInt128
<1> DEFINE coll == [b.totalCollateral EXCEPT ![leg] = @ + new.collateral]
           b2   == BalancesWhenOpen(b, leg, new, publicationFee)
<1>3. coll \in [Leg -> Int]
  BY <1>1, <1>2
<1>4. b2 = [b EXCEPT !.totalCollateral = coll,
                     !.iporPublicationFee = @ + publicationFee,
                     !.liquidityPool = @ + new.openingFeeLPAmount,
                     !.treasury = @ + new.openingFeeTreasuryAmount]
  BY DEF BalancesWhenOpen
<1>5. BalancesFit(b2)
  OBVIOUS
<1> HIDE DEF coll, b2
<1>6. b2 = [totalCollateral    |-> coll,
            liquidityPool      |-> b.liquidityPool + new.openingFeeLPAmount,
            vault              |-> b.vault,
            iporPublicationFee |-> b.iporPublicationFee + publicationFee,
            treasury           |-> b.treasury + new.openingFeeTreasuryAmount]
  BY <1>4 DEF Balances
<1>7. /\ b.liquidityPool + new.openingFeeLPAmount \in Int
      /\ b.iporPublicationFee + publicationFee \in Int
      /\ b.treasury + new.openingFeeTreasuryAmount \in Int
  BY <1>1, <1>2
<1>8. b2 \in Balances
  BY <1>2, <1>3, <1>5, <1>6, <1>7, BalancesFitType
<1> QED BY <1>8 DEF b2

(* Closing leaves balances of the stored type, whether the buyer wins or loses. *)
LEMMA BalancesCloseType ==
    ASSUME NEW b \in Balances, NEW leg \in Leg, NEW swap \in Swap,
           NEW payoff \in Int, NEW fee \in Nat,
           BalancesFit(BalancesWhenClose(b, leg, swap, payoff, fee))
    PROVE  BalancesWhenClose(b, leg, swap, payoff, fee) \in Balances
<1> DEFINE pool == IF payoff > 0 THEN b.liquidityPool - payoff
                   ELSE b.liquidityPool + (-payoff - fee)
<1>1. /\ b.totalCollateral \in [Leg -> Int]
      /\ b.liquidityPool \in Int
      /\ b.vault \in Int
      /\ b.iporPublicationFee \in Int
      /\ b.treasury \in Int
      /\ swap.collateral \in Int
  BY StorageAssumption DEF Balances, UInt128, Swap
<1> DEFINE coll == [b.totalCollateral EXCEPT ![leg] = @ - swap.collateral]
           b2   == BalancesWhenClose(b, leg, swap, payoff, fee)
<1>2. coll \in [Leg -> Int]
  BY <1>1
<1>3. pool \in Int /\ b.treasury + fee \in Int
  BY <1>1
<1>4. b2 = [b EXCEPT !.treasury = @ + fee, !.liquidityPool = pool, !.totalCollateral = coll]
  BY DEF BalancesWhenClose
<1> HIDE DEF coll, pool, b2
<1>5. b2 = [totalCollateral    |-> coll,
            liquidityPool      |-> pool,
            vault              |-> b.vault,
            iporPublicationFee |-> b.iporPublicationFee,
            treasury           |-> b.treasury + fee]
  BY <1>4 DEF Balances
<1>6. BalancesFit(b2)
  BY DEF b2
<1>7. b2 \in Balances
  BY <1>1, <1>2, <1>3, <1>5, <1>6, BalancesFitType
<1> QED BY <1>7 DEF b2

-----------------------------------------------------------------------------
(* What closing leaves alone *)

(* Closing changes no swap but the one closed and, of an active swap, the
   place: the terms of every swap and the whole of every inactive one stay. *)
LEMMA CloseKeepsTerms ==
    ASSUME NEW sw, NEW lists, LegTypeOK(sw, lists), LegConsistent(sw, lists),
           NEW id \in SwapId, IsActive(sw, id)
    PROVE  \A j \in SwapId :
              LET sw2 == SwapsWhenClose(sw, lists, sw[id])
              IN  /\ sw2[j].id = sw[j].id
                  /\ SwapTermsOf(sw2[j]) = SwapTermsOf(sw[j])
                  /\ ~IsActive(sw, j) => sw2[j] = sw[j]
<1> DEFINE moved == MovedId(lists, sw[id].buyer)
           sw2   == SwapsWhenClose(sw, lists, sw[id])
           told  == [sw EXCEPT ![moved].idsIndex = sw[id].idsIndex]
<1>1. /\ sw[id].id = id
      /\ sw[id].buyer \in Account
      /\ sw[id].idsIndex < Len(lists[sw[id].buyer])
      /\ sw[id].idsIndex \in Nat
      /\ lists[sw[id].buyer] \in Seq(SwapId)
  BY DEF LegConsistent, ActiveSwapsListed, LegTypeOK, Swap, UInt32
<1>2. Len(lists[sw[id].buyer]) \in 1..Len(lists[sw[id].buyer])
  BY <1>1
<1>3. moved \in SwapId /\ IsActive(sw, moved)
  BY <1>1, <1>2 DEF MovedId, LegConsistent, ListedSwapsActive
<1>4. \A j \in SwapId : sw[j] \in Swap
  BY DEF LegTypeOK
<1>5. sw2 = [sw EXCEPT ![id].state = INACTIVE] \/ sw2 = [told EXCEPT ![id].state = INACTIVE]
  BY <1>1 DEF SwapsWhenClose
<1> HIDE DEF sw2, moved
<1>6. /\ told \in [SwapId -> Swap]
      /\ \A j \in SwapId \ {moved} : told[j] = sw[j]
      /\ told[moved] = [sw[moved] EXCEPT !.idsIndex = sw[id].idsIndex]
  BY <1>3, <1>4 DEF LegTypeOK, Swap
<1>7. \A s \in Swap : \A i :
          /\ SwapTermsOf([s EXCEPT !.idsIndex = i]) = SwapTermsOf(s)
          /\ [s EXCEPT !.idsIndex = i].id = s.id
  BY DEF Swap, SwapTermsOf
<1>8. \A j \in SwapId :
          /\ told[j].id = sw[j].id
          /\ SwapTermsOf(told[j]) = SwapTermsOf(sw[j])
          /\ ~IsActive(sw, j) => told[j] = sw[j]
  BY <1>3, <1>4, <1>6, <1>7
<1> HIDE DEF told
<1>9. \A j \in SwapId :
          /\ sw2[j].id = sw[j].id
          /\ SwapTermsOf(sw2[j]) = SwapTermsOf(sw[j])
          /\ ~IsActive(sw, j) => sw2[j] = sw[j]
  <2>1. CASE sw2 = [sw EXCEPT ![id].state = INACTIVE]
    <3>1. /\ \A j \in SwapId \ {id} : sw2[j] = sw[j]
          /\ sw2[id] = [sw[id] EXCEPT !.state = INACTIVE]
      BY <2>1, <1>4 DEF LegTypeOK
    <3>2. /\ sw2[id].id = sw[id].id
          /\ SwapTermsOf(sw2[id]) = SwapTermsOf(sw[id])
      BY <3>1, <1>4 DEF Swap, SwapTermsOf
    <3> QED BY <3>1, <3>2
  <2>2. CASE sw2 = [told EXCEPT ![id].state = INACTIVE]
    <3>1. /\ \A j \in SwapId \ {id} : sw2[j] = told[j]
          /\ sw2[id] = [told[id] EXCEPT !.state = INACTIVE]
          /\ told[id] \in Swap
      BY <2>2, <1>6
    <3>2. /\ sw2[id].id = told[id].id
          /\ SwapTermsOf(sw2[id]) = SwapTermsOf(told[id])
      BY <3>1 DEF Swap, SwapTermsOf
    <3> QED BY <3>1, <3>2, <1>8
  <2> QED BY <1>5, <2>1, <2>2
<1> QED BY <1>9 DEF sw2

(* Closing makes no list of ids longer than the counter allows. *)
LEMMA CloseShortensList ==
    ASSUME NEW sw, NEW lists, LegTypeOK(sw, lists), LegConsistent(sw, lists),
           NEW id \in SwapId, IsActive(sw, id), NEW a \in Account
    PROVE  LET lists2 == IdsWhenClose(lists, sw[id])
           IN  lists2[a] = lists[a] \/ Len(lists2[a]) = Len(lists[a]) - 1
<1> DEFINE buyer == sw[id].buyer
           list  == lists[buyer]
           put   == IF IsLast(lists, sw[id]) THEN list
                    ELSE [list EXCEPT ![sw[id].idsIndex + 1] = MovedId(lists, buyer)]
<1>1. /\ buyer \in Account
      /\ sw[id].idsIndex \in Nat
      /\ sw[id].idsIndex < Len(list)
      /\ list \in Seq(SwapId)
  BY DEF LegTypeOK, LegConsistent, ActiveSwapsListed, Swap, UInt32
<1>2. MovedId(lists, buyer) \in SwapId
  BY <1>1 DEF MovedId
<1>3. put \in Seq(SwapId) /\ Len(put) = Len(list)
  BY <1>1, <1>2
<1>4. Len(SubSeq(put, 1, Len(list) - 1)) = Len(list) - 1
  BY <1>1, <1>3
<1> QED
  BY <1>1, <1>4 DEF IdsWhenClose, LegTypeOK

(* Swap-and-pop ends the swap that is closed and no other. *)
LEMMA CloseEndsOneSwap ==
    ASSUME NEW sw, NEW lists, LegTypeOK(sw, lists), LegConsistent(sw, lists),
           NEW id \in SwapId, IsActive(sw, id)
    PROVE  LET sw2 == SwapsWhenClose(sw, lists, sw[id])
           IN  /\ ~IsActive(sw2, id)
               /\ \A j \in SwapId \ {id} : IsActive(sw2, j) <=> IsActive(sw, j)
<1> DEFINE moved == MovedId(lists, sw[id].buyer)
           sw2   == SwapsWhenClose(sw, lists, sw[id])
           told  == [sw EXCEPT ![moved].idsIndex = sw[id].idsIndex]
<1>1. sw[id].id = id /\ sw \in [SwapId -> Swap]
  BY DEF LegConsistent, ActiveSwapsListed, LegTypeOK
<1>2. sw2 = [sw EXCEPT ![id].state = INACTIVE] \/ sw2 = [told EXCEPT ![id].state = INACTIVE]
  BY <1>1 DEF SwapsWhenClose
<1> HIDE DEF sw2, moved
<1>3. \A s \in Swap : \A i : [s EXCEPT !.idsIndex = i].state = s.state
  BY DEF Swap
<1>4. /\ DOMAIN told = SwapId
      /\ \A j \in SwapId : told[j].state = sw[j].state
  BY <1>1, <1>3
<1> HIDE DEF told
<1>5. /\ sw2[id].state = INACTIVE
      /\ \A j \in SwapId \ {id} : sw2[j].state = sw[j].state
  <2>1. CASE sw2 = [sw EXCEPT ![id].state = INACTIVE]
    BY <2>1, <1>1 DEF Swap
  <2>2. CASE sw2 = [told EXCEPT ![id].state = INACTIVE]
    <3>1. sw2[id] = [told[id] EXCEPT !.state = INACTIVE]
      BY <2>2, <1>4
    <3> QED BY <2>2, <3>1, <1>4
  <2> QED BY <1>2, <2>1, <2>2
<1> QED BY <1>5 DEF IsActive, ACTIVE, INACTIVE, sw2

-----------------------------------------------------------------------------
(* Roundings *)

(* x is at most half of e away from zero. *)
Within(x, e) == -e <= 2 * x /\ 2 * x <= e

LEMMA WithinSum ==
    \A x, y, e, f \in Int : Within(x, e) /\ Within(y, f) => Within(x + y, e + f)
  BY DEF Within

LEMMA ProductMonotonic == \A k \in Nat, x, y \in Int : x <= y => k * x <= k * y
  BY SMT

LEMMA WithinProduct ==
    ASSUME NEW x \in Int, NEW e \in Int, NEW k \in Nat, Within(x, e)
    PROVE  Within(k * x, k * e)
<1>1. -e <= 2 * x /\ 2 * x <= e /\ -e \in Int /\ 2 * x \in Int
  BY DEF Within
<1>2. k * (-e) <= k * (2 * x) /\ k * (2 * x) <= k * e
  BY <1>1, ProductMonotonic
<1>3. k * (-e) = -(k * e) /\ k * (2 * x) = 2 * (k * x)
  OBVIOUS
<1> QED BY <1>2, <1>3 DEF Within

(* Half-up division is off by at most half of the divisor. *)
LEMMA DivisionWithin ==
    ASSUME NEW x \in Int, NEW y \in Nat \ {0}
    PROVE  Within(y * Division(x, y) - x, y)
<1> DEFINE z == x + (y \div 2)
<1>1. /\ z \in Int /\ y \div 2 \in Int
      /\ 2 * (y \div 2) <= y
      /\ y <= 2 * (y \div 2) + 1
  OBVIOUS
<1>2. z = y * (z \div y) + (z % y) /\ z % y \in 0..(y - 1) /\ z \div y \in Int
  BY <1>1
<1>3. Division(x, y) = z \div y
  BY DEF Division
<1> DEFINE p == y * (z \div y)
           m == z % y
           h == y \div 2
<1>4. p \in Int /\ z = p + m /\ z = x + h /\ h \in Int /\ m \in 0..(y - 1)
  <2>1. z \div y \in Int /\ y * (z \div y) \in Int
    BY <1>2
  <2> QED BY <1>1, <1>2, <2>1
<1>5. 2 * h <= y /\ y <= 2 * h + 1
  BY <1>1
<1>6. Within(p - x, y)
  <2> HIDE DEF p, z, m, h
  <2> QED BY <1>4, <1>5 DEF Within
<1> QED BY <1>3, <1>6

(* An exact division stays exact. *)
LEMMA DivisionExact ==
    ASSUME NEW x \in Int, NEW y \in Nat \ {0}
    PROVE  Division(y * x, y) = x
<1>1. y \div 2 \in 0..(y - 1)
  OBVIOUS
<1>2. \A m \in 0..(y - 1) : (y * x + m) \div y = x
  BY SMT
<1> QED BY <1>1, <1>2 DEF Division

=============================================================================
