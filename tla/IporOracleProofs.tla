-------------------------- MODULE IporOracleProofs --------------------------
(***************************************************************************)
(* What holds of the oracle for every set of assets and accounts, every    *)
(* list of publications and every decay factor that satisfies              *)
(* DecayAssumption.                                                        *)
(***************************************************************************)
EXTENDS IporOracleSpec, FiniteSums, TLAPS

-----------------------------------------------------------------------------
(* Arithmetic *)

LEMMA Unit == D18 \in Nat /\ D18 > 0
BY D18Assumption

LEMMA Products ==
    /\ \A x, y \in Nat : x * y \in Nat
    /\ \A x, y, z \in Nat : x <= y => x * z <= y * z
OBVIOUS

LEMMA OneMore == \A x, y \in Nat : x * y \in Nat /\ x * (y + 1) = x * y + x
OBVIOUS

(* Rounding half up does not leave an interval with whole bounds. *)
LEMMA DivisionBetween ==
    ASSUME NEW x \in Nat, NEW y \in Nat, y > 0, NEW low \in Nat, NEW high \in Nat,
           low * y <= x, x <= high * y
    PROVE  low <= Division(x, y) /\ Division(x, y) <= high /\ Division(x, y) \in Nat
<1> DEFINE q == (x + (y \div 2)) \div y
           h == y \div 2
<1>1. h \in Nat /\ h < y
  OBVIOUS
<1>2. q \in Nat /\ q * y <= x + h /\ x + h < q * y + y
  BY <1>1
<1>3. low <= q
  <2>1. SUFFICES ASSUME q + 1 <= low PROVE FALSE
    BY <1>2
  <2>2. (q + 1) * y <= low * y
    BY <2>1, <1>2, Products
  <2>3. (q + 1) * y = q * y + y
    BY <1>2
  <2> QED BY <2>2, <2>3, <1>1, <1>2
<1>4. q <= high
  <2>1. SUFFICES ASSUME high + 1 <= q PROVE FALSE
    BY <1>2
  <2>2. (high + 1) * y <= q * y
    BY <2>1, <1>2, Products
  <2>3. (high + 1) * y = high * y + y
    OBVIOUS
  <2> QED BY <2>2, <2>3, <1>1, <1>2
<1> QED BY <1>2, <1>3, <1>4 DEF Division

(* A line that falls to no less than zero stays between zero and its base. *)
LEMMA LineBetween ==
    ASSUME NEW slope \in Int, slope <= 0, NEW base \in Int, NEW last \in Nat,
           LinearFunction(slope, base, last) >= 0, NEW s \in 0..last
    PROVE  LinearFunction(slope, base, s) \in 0..base
<1> DEFINE fall == -slope
<1>1. fall \in Nat
  OBVIOUS
<1>2. fall * s <= fall * last /\ fall * s \in Nat
  BY <1>1
<1>3. slope * s = -(fall * s) /\ slope * last = -(fall * last)
  OBVIOUS
<1> QED BY <1>2, <1>3 DEF LinearFunction

(* The decay factor is between 0 and 1.0, and 1.0 when no time has passed
   (DecayFactorCalculation.calculate). *)
THEOREM DecayFactorRange ==
    /\ \A seconds \in Nat : DecayFactor(seconds) \in 0..D18
    /\ DecayFactor(0) = D18
<1>1. ASSUME NEW s \in Nat PROVE DecayFactor(s) \in 0..D18
  <2>1. CASE s < END_INTERVAL_ONE
    <3>1. LinearFunction(SLOPE_FACTOR_ONE, BASE_ONE, s) \in 0..BASE_ONE
      BY <2>1, DecayAssumption, LineBetween, s \in 0..(END_INTERVAL_ONE - 1)
    <3> QED BY <2>1, <3>1, Unit, DecayAssumption DEF DecayFactor
  <2>2. CASE ~(s < END_INTERVAL_ONE) /\ s < END_INTERVAL_TWO
    <3>1. LinearFunction(SLOPE_FACTOR_TWO, BASE_TWO, s) \in 0..BASE_TWO
      BY <2>2, DecayAssumption, LineBetween, s \in 0..(END_INTERVAL_TWO - 1)
    <3> QED BY <2>2, <3>1, Unit, DecayAssumption DEF DecayFactor
  <2>3. CASE ~(s < END_INTERVAL_ONE) /\ ~(s < END_INTERVAL_TWO) /\ s < END_INTERVAL_THREE
    <3>1. LinearFunction(SLOPE_FACTOR_THREE, BASE_THREE, s) \in 0..BASE_THREE
      BY <2>3, DecayAssumption, LineBetween, s \in 0..(END_INTERVAL_THREE - 1)
    <3> QED BY <2>3, <3>1, Unit, DecayAssumption DEF DecayFactor
  <2>4. CASE ~(s < END_INTERVAL_ONE) /\ ~(s < END_INTERVAL_TWO) /\ ~(s < END_INTERVAL_THREE)
    BY <2>4, Unit DEF DecayFactor
  <2> QED BY <2>1, <2>2, <2>3, <2>4
<1>2. DecayFactor(0) = D18
  BY DecayAssumption DEF DecayFactor, LinearFunction
<1> QED BY <1>1, <1>2

(* The lines of DecayFactorCalculation.sol satisfy DecayAssumption. *)
LEMMA LinesOfTheCode ==
    /\ LinearFunction(-2782991070840, 1000000000000000000, 179666 - 1) >= 0
    /\ LinearFunction(-958849469240, 672268604625703800, 596832 - 1) >= 0
    /\ LinearFunction(-133388866004, 179609917339805645, 1346513 - 1) >= 0
BY DEF LinearFunction

(* A weighted average of two numbers, rounded, stays between bounds of both
   (calculateExponentialMovingAverage). *)
LEMMA AverageBetween ==
    ASSUME NEW last \in Nat, NEW value \in Nat, NEW alpha \in 0..D18,
           NEW low \in Nat, NEW high \in Nat,
           low <= last, low <= value, last <= high, value <= high
    PROVE  LET average == CalculateExponentialMovingAverage(last, value, alpha)
           IN  low <= average /\ average <= high
<1> DEFINE beta == D18 - alpha
           x == last * alpha + value * beta
<1>1. alpha \in Nat /\ beta \in Nat
  BY Unit
<1>2. low * alpha <= last * alpha /\ low * beta <= value * beta
  BY <1>1, Products
<1>3. last * alpha <= high * alpha /\ value * beta <= high * beta
  BY <1>1, Products
<1>4. low * D18 = low * alpha + low * beta /\ high * D18 = high * alpha + high * beta
  BY <1>1, Unit
<1> HIDE DEF beta
<1>5. {low * alpha, low * beta, last * alpha, value * beta, high * alpha, high * beta}
          \subseteq Nat
  BY <1>1, Products
<1>6. x \in Nat /\ low * D18 <= x /\ x <= high * D18
  BY <1>2, <1>3, <1>4, <1>5
<1> HIDE DEF x
<1>7. low <= Division(x, D18) /\ Division(x, D18) <= high
  BY <1>6, Unit, DivisionBetween
<1> QED BY <1>7 DEF CalculateExponentialMovingAverage, x, beta

LEMMA DivisionExact ==
    ASSUME NEW x \in Nat, NEW y \in Nat, y > 0
    PROVE  Division(x * y, y) = x
<1>1. x * y \in Nat
  BY Products
<1> QED BY <1>1, DivisionBetween

-----------------------------------------------------------------------------
(* One publication *)

(* The inductive invariant, for one asset: with PriceIsIntegral goes what holds
   of an asset whose first timestamp is in the future, and is still to accrue. *)
Sound(ipor, t, e, values) ==
    IsSupported(ipor) =>
        /\ IF ipor.lastUpdateTimestamp <= t
           THEN AccrueQuasiIbtPrice(ipor, t) = WAD_YEAR_IN_SECONDS + e
           ELSE ipor.quasiIbtPrice = WAD_YEAR_IN_SECONDS /\ ipor.indexValue = 0 /\ e = 0
        /\ \E low, high \in values :
              low <= ipor.exponentialMovingAverage /\ ipor.exponentialMovingAverage <= high

KeptInBlock(before, after, t) ==
    before.lastUpdateTimestamp = t =>
        after = [before EXCEPT !.indexValue = after.indexValue]

LEMMA WadYear == WAD_YEAR_IN_SECONDS \in Nat /\ WAD_YEAR_IN_SECONDS > 0
<1>1. D18 \in Nat /\ D18 > 0 /\ YEAR_IN_SECONDS \in Nat /\ YEAR_IN_SECONDS > 0
  BY D18Assumption, YearAssumption
<1>2. D18 * YEAR_IN_SECONDS > 0 /\ D18 * YEAR_IN_SECONDS \in Nat
  BY <1>1
<1> QED BY <1>2 DEF WAD_YEAR_IN_SECONDS

LEMMA IporType ==
    ASSUME NEW ipor \in IPOR
    PROVE  /\ ipor.quasiIbtPrice \in Nat /\ ipor.exponentialMovingAverage \in Nat
           /\ ipor.exponentialWeightedMovingVariance \in Nat
           /\ ipor.indexValue \in Nat /\ ipor.lastUpdateTimestamp \in Nat
BY OracleAssumption DEF IPOR, UInt32, UInt64, UInt128

(* With no time passed the weight of the new value is nil. *)
LEMMA RepublishedSame ==
    ASSUME NEW ipor \in IPOR, NEW value \in Nat
    PROVE  Published(ipor, value, ipor.lastUpdateTimestamp)
               = [ipor EXCEPT !.indexValue = value]
<1> DEFINE t    == ipor.lastUpdateTimestamp
           last == ipor.exponentialMovingAverage
           var  == ipor.exponentialWeightedMovingVariance
<1>1. t - t = 0 /\ last \in Nat /\ var \in Nat /\ ipor.quasiIbtPrice \in Nat /\ ipor.indexValue \in Nat
  BY IporType
<1>2. DecayFactor(t - t) = D18
  BY <1>1, DecayFactorRange
<1>3. CalculateExponentialMovingAverage(last, value, D18) = last
  <2>1. last * D18 + value * (D18 - D18) = last * D18
    BY <1>1, Unit
  <2> QED BY <2>1, <1>1, Unit, DivisionExact DEF CalculateExponentialMovingAverage
<1>4. CalculateExponentialWeightedMovingVariance(var, last, value, D18) = var
  <2> DEFINE d == AbsoluteValue(value - last)
             cube == D18 * D18 * D18
  <2>1. d \in Int
    BY <1>1 DEF AbsoluteValue
  <2>2. (D18 - D18) * d * d = 0
    BY <2>1, Unit
  <2>3. cube \in Nat /\ cube > 0
    <3>1. D18 * D18 \in Nat /\ D18 * D18 > 0
      BY Unit
    <3> QED BY <3>1, Unit
  <2>4. D18 * (var * D18 * D18 + 0) = var * cube
    BY <1>1, Unit
  <2>5. Division(var * cube, cube) = var
    BY <1>1, <2>3, DivisionExact
  <2> QED BY <2>2, <2>4, <2>5 DEF CalculateExponentialWeightedMovingVariance
<1>5. AccrueQuasiIbtPrice(ipor, t) = ipor.quasiIbtPrice
  BY <1>1 DEF AccrueQuasiIbtPrice
<1>6. Published(ipor, value, t) =
         [quasiIbtPrice |-> ipor.quasiIbtPrice, exponentialMovingAverage |-> last,
          exponentialWeightedMovingVariance |-> var, indexValue |-> value,
          lastUpdateTimestamp |-> t]
  BY <1>2, <1>3, <1>4, <1>5 DEF Published
<1> QED BY <1>6 DEF IPOR

(* What a publication does to a supported asset (_updateIndex). *)
LEMMA PublishedOne ==
    ASSUME NEW ipor \in IPOR, NEW value \in Nat, NEW t \in Nat, NEW e \in Nat,
           NEW values \in SUBSET Nat, value \in values,
           Sound(ipor, t, e, values), CanPublish(ipor, value, t)
    PROVE  LET new == Published(ipor, value, t)
           IN  /\ new \in IPOR
               /\ IsSupported(new)
               /\ Sound(new, t, e, values)
               /\ KeptInBlock(ipor, new, t)
<1> DEFINE new == Published(ipor, value, t)
<1>1. /\ IsSupported(ipor) /\ ipor.lastUpdateTimestamp <= t /\ new \in IPOR
  BY DEF CanPublish
<1>2. /\ new.quasiIbtPrice = AccrueQuasiIbtPrice(ipor, t)
      /\ new.indexValue = value /\ new.lastUpdateTimestamp = t
      /\ new.exponentialMovingAverage =
            CalculateExponentialMovingAverage(ipor.exponentialMovingAverage, value,
                DecayFactor(t - ipor.lastUpdateTimestamp))
  BY DEF Published
<1> HIDE DEF new
<1>3. AccrueQuasiIbtPrice(ipor, t) = WAD_YEAR_IN_SECONDS + e
  BY <1>1 DEF Sound
<1>4. IsSupported(new)
  BY <1>2, <1>3, WadYear DEF IsSupported
<1>5. AccrueQuasiIbtPrice(new, t) = WAD_YEAR_IN_SECONDS + e
  <2>1. value * (t - t) = 0
    OBVIOUS
  <2> QED BY <2>1, <1>2, <1>3, WadYear DEF AccrueQuasiIbtPrice
<1>6. \E low, high \in values :
         low <= new.exponentialMovingAverage /\ new.exponentialMovingAverage <= high
  <2> DEFINE last  == ipor.exponentialMovingAverage
             alpha == DecayFactor(t - ipor.lastUpdateTimestamp)
  <2>1. PICK l, h \in values : l <= last /\ last <= h
    BY <1>1 DEF Sound
  <2>2. alpha \in 0..D18
    BY <1>1, IporType, DecayFactorRange, t - ipor.lastUpdateTimestamp \in Nat
  <2>3. PICK low \in values : low <= last /\ low <= value
    BY <2>1, IporType
  <2>4. PICK high \in values : last <= high /\ value <= high
    BY <2>1, IporType
  <2> HIDE DEF alpha
  <2>5. low \in Nat /\ high \in Nat /\ last \in Nat
    BY IporType
  <2>6. /\ low <= CalculateExponentialMovingAverage(last, value, alpha)
        /\ CalculateExponentialMovingAverage(last, value, alpha) <= high
    BY <2>2, <2>3, <2>4, <2>5, AverageBetween
  <2> QED BY <2>6, <1>2 DEF alpha
<1>7. Sound(new, t, e, values)
  BY <1>2, <1>5, <1>6, IporType, <1>1 DEF Sound
<1>8. KeptInBlock(ipor, new, t)
  BY <1>2, RepublishedSame DEF KeptInBlock, new
<1> QED BY <1>1, <1>4, <1>7, <1>8 DEF new

-----------------------------------------------------------------------------
(* A list of publications *)

(* The function that PublishedList defines exists: it has a value for no
   publication, and one more whenever it has one for n. *)
LEMMA ListTrace ==
    ASSUME NEW batch \in Seq(Publication)
    PROVE  \E after :
              /\ after[0] = [ok |-> TRUE, indexes |-> indexes]
              /\ \A n \in 1..Len(batch) :
                    after[n] = PublishNext(after[n - 1], batch[n].asset, batch[n].value)
              /\ PublishedList(batch) = after[Len(batch)]
<1> DEFINE first == [ok |-> TRUE, indexes |-> indexes]
           Next1(r, n) == PublishNext(r, batch[n].asset, batch[n].value)
           IsTrace(f, m) == f = [n \in 0..m |-> IF n = 0 THEN first ELSE Next1(f[n - 1], n)]
           S == {m \in 0..Len(batch) : \E f : IsTrace(f, m)}
<1>1. Len(batch) \in Nat
  OBVIOUS
<1> HIDE DEF first, Next1
<1>2. 0 \in S
  <2> DEFINE h == [n \in 0..0 |-> first]
  <2>1. \A n \in 0..0 : first = IF n = 0 THEN first ELSE Next1(h[n - 1], n)
    OBVIOUS
  <2>2. IsTrace(h, 0)
    BY <2>1
  <2>3. \E g : IsTrace(g, 0)
    <3> HIDE DEF IsTrace, h
    <3> QED BY <2>2
  <2> QED BY <2>3, <1>1
<1>3. ASSUME NEW m \in 0..(Len(batch) - 1), m \in S PROVE m + 1 \in S
  <2>1. PICK f : IsTrace(f, m)
    BY <1>3
  <2> DEFINE h == [n \in 0..(m + 1) |-> IF n = m + 1 THEN Next1(f[m], m + 1) ELSE f[n]]
  <2>2. \A n \in 0..m : h[n] = f[n]
    OBVIOUS
  <2>3. h[m + 1] = Next1(h[m], m + 1)
    BY <2>2
  <2>4. ASSUME NEW n \in 0..(m + 1)
        PROVE  h[n] = IF n = 0 THEN first ELSE Next1(h[n - 1], n)
    <3>1. CASE n = m + 1
      BY <3>1, <2>3
    <3>2. CASE n = 0
      BY <3>2, <2>1, <2>2
    <3>3. CASE n \in 1..m
      <4>1. f[n] = Next1(f[n - 1], n)
        BY <3>3, <2>1
      <4> QED BY <4>1, <3>3, <2>2, n - 1 \in 0..m
    <3> QED BY <3>1, <3>2, <3>3
  <2>5. IsTrace(h, m + 1)
    <3>1. h = [n \in 0..(m + 1) |-> h[n]]
      OBVIOUS
    <3> HIDE DEF h
    <3>2. [n \in 0..(m + 1) |-> h[n]]
             = [n \in 0..(m + 1) |-> IF n = 0 THEN first ELSE Next1(h[n - 1], n)]
      BY <2>4
    <3> QED BY <3>1, <3>2
  <2>6. \E g : IsTrace(g, m + 1)
    <3> HIDE DEF IsTrace, h
    <3> QED BY <2>5
  <2> QED BY <2>6, m + 1 \in 0..Len(batch)
<1>4. Len(batch) \in S
  <2> HIDE DEF S
  <2>1. \A i \in 0..Len(batch) : i \in S
    BY <1>1, <1>2, <1>3, UpTo
  <2> QED BY <2>1, <1>1
<1> DEFINE after == CHOOSE f : IsTrace(f, Len(batch))
<1>5. IsTrace(after, Len(batch))
  BY <1>4
<1>6. PublishedList(batch) = after[Len(batch)]
  BY DEF PublishedList, first, Next1
<1> HIDE DEF after
<1>7. after[0] = first
  BY <1>5, <1>1
<1>8. \A n \in 1..Len(batch) : after[n] = Next1(after[n - 1], n)
  BY <1>5, <1>1
<1> QED BY <1>6, <1>7, <1>8 DEF first, Next1

(* Every publication of a list leaves each asset sound, supported or not as it
   was, and, if it was published in this block before, all but its index. *)
LEMMA ListKeeps ==
    ASSUME NEW batch \in Seq(Publication), PublishedList(batch).ok,
           now \in Nat, indexes \in [Asset -> IPOR],
           NEW e \in [Asset -> Nat], NEW values \in [Asset -> SUBSET Nat],
           \A i \in 1..Len(batch) : batch[i].value \in values[batch[i].asset],
           \A a \in Asset : Sound(indexes[a], now, e[a], values[a])
    PROVE  LET new == PublishedList(batch).indexes
           IN  /\ new \in [Asset -> IPOR]
               /\ \A a \in Asset : /\ Sound(new[a], now, e[a], values[a])
                                   /\ IsSupported(new[a]) = IsSupported(indexes[a])
                                   /\ KeptInBlock(indexes[a], new[a], now)
<1>1. PICK after :
          /\ after[0] = [ok |-> TRUE, indexes |-> indexes]
          /\ \A n \in 1..Len(batch) :
                after[n] = PublishNext(after[n - 1], batch[n].asset, batch[n].value)
          /\ PublishedList(batch) = after[Len(batch)]
  BY ListTrace
<1> DEFINE Good(new) ==
               /\ new \in [Asset -> IPOR]
               /\ \A a \in Asset : /\ Sound(new[a], now, e[a], values[a])
                                   /\ IsSupported(new[a]) = IsSupported(indexes[a])
                                   /\ KeptInBlock(indexes[a], new[a], now)
           S == {n \in 0..Len(batch) : after[n].ok => Good(after[n].indexes)}
<1>2. 0 \in S
  <2>1. Good(indexes)
    BY DEF KeptInBlock, IPOR
  <2> HIDE DEF Good
  <2> QED BY <1>1, <2>1
<1>3. ASSUME NEW m \in 0..(Len(batch) - 1), m \in S PROVE m + 1 \in S
  <2> DEFINE old   == after[m].indexes
             asset == batch[m + 1].asset
             value == batch[m + 1].value
             new   == [old EXCEPT ![asset] = Published(@, value, now)]
  <2>1. after[m + 1] = PublishNext(after[m], asset, value)
    BY <1>1, m + 1 \in 1..Len(batch), (m + 1) - 1 = m
  <2>2. after[m + 1].ok = (after[m].ok /\ CanPublish(old[asset], value, now))
    BY <2>1 DEF PublishNext
  <2>3. after[m + 1].indexes = new
    BY <2>1 DEF PublishNext
  <2>4. asset \in Asset /\ value \in Nat /\ value \in values[asset]
    <3>1. m + 1 \in 1..Len(batch)
      OBVIOUS
    <3>2. batch[m + 1] \in Publication
      BY <3>1
    <3> QED BY <3>1, <3>2 DEF Publication
  <2> SUFFICES ASSUME after[m + 1].ok PROVE Good(new)
    BY <2>3, m + 1 \in 0..Len(batch)
  <2>5. Good(old) /\ CanPublish(old[asset], value, now)
    BY <1>3, <2>2
  <2> HIDE DEF old, asset, value
  <2>6. /\ Published(old[asset], value, now) \in IPOR
        /\ IsSupported(Published(old[asset], value, now))
        /\ Sound(Published(old[asset], value, now), now, e[asset], values[asset])
        /\ KeptInBlock(old[asset], Published(old[asset], value, now), now)
    BY <2>4, <2>5, PublishedOne
  <2>7. new \in [Asset -> IPOR]
    BY <2>4, <2>5, <2>6
  <2>8. ASSUME NEW a \in Asset
        PROVE  /\ Sound(new[a], now, e[a], values[a])
               /\ IsSupported(new[a]) = IsSupported(indexes[a])
               /\ KeptInBlock(indexes[a], new[a], now)
    <3>1. CASE a # asset
      BY <3>1, <2>5
    <3>2. CASE a = asset
      <4>1. new[a] = Published(old[asset], value, now)
        BY <3>2, <2>4, <2>5
      <4>2. IsSupported(old[asset])
        BY <2>5 DEF CanPublish
      <4>3. KeptInBlock(indexes[a], new[a], now)
        BY <3>2, <4>1, <2>5, <2>6 DEF KeptInBlock, IPOR
      <4> QED BY <3>2, <4>1, <4>2, <4>3, <2>5, <2>6
    <3> QED BY <3>1, <3>2
  <2> QED BY <2>7, <2>8
<1>4. Len(batch) \in S
  <2> HIDE DEF S
  <2>1. \A i \in 0..Len(batch) : i \in S
    BY <1>2, <1>3, UpTo, Len(batch) \in Nat
  <2> QED BY <2>1, Len(batch) \in Nat
<1> QED BY <1>1, <1>4

-----------------------------------------------------------------------------
(* The inductive invariant *)

OracleInv ==
    /\ TypeOK
    /\ \A a \in Asset : Sound(indexes[a], now, earned[a], published[a])

LEMMA NoIndexType == NoIndex \in IPOR /\ ~IsSupported(NoIndex)
BY OracleAssumption DEF NoIndex, IPOR, UInt32, UInt64, UInt128, IsSupported

LEMMA UInt32Type == UInt32 \subseteq Nat /\ MaxTime \in Nat
BY OracleAssumption, OracleSpecAssumption DEF UInt32

(* An asset as it is added, with a timestamp in the past or in the future. *)
LEMMA NewIndexSound ==
    ASSUME NEW timestamp \in Nat, NEW average \in Nat, NEW variance \in Nat, NEW t \in Nat
    PROVE  Sound(NewIndex(timestamp, average, variance), t, 0, {average})
BY WadYear DEF Sound, NewIndex, AccrueQuasiIbtPrice

LEMMA InitSound == Init => OracleInv
<1> SUFFICES ASSUME Init PROVE OracleInv
  OBVIOUS
<1>1. indexes \in [Asset -> IPOR]
  BY NoIndexType DEF Init, InitialIndexes
<1>2. ASSUME NEW a \in Asset PROVE Sound(indexes[a], now, earned[a], published[a])
  <2>1. CASE indexes[a] = NoIndex
    BY <2>1, NoIndexType DEF Sound
  <2>2. CASE indexes[a] \in InitialIndexes
    <3>1. PICK t \in AddTimestamps, average \in AddAverages, variance \in AddVariances :
             indexes[a] = NewIndex(t, average, variance)
      BY <2>2 DEF InitialIndexes
    <3>2. t \in Nat /\ average \in Nat /\ variance \in Nat
      BY OracleSpecAssumption
    <3>3. IsSupported(indexes[a]) /\ indexes[a].exponentialMovingAverage = average
      BY <3>1, WadYear DEF NewIndex, IsSupported
    <3>4. now \in Nat /\ earned[a] = 0 /\ published[a] = {average}
      BY <3>3 DEF Init
    <3> QED BY <3>1, <3>2, <3>4, NewIndexSound
  <2> QED BY <2>1, <2>2 DEF Init
<1>3. /\ earned \in [Asset -> Nat]
      /\ now \in 0..MaxTime
  BY UInt32Type DEF Init
<1>4. published \in [Asset -> SUBSET Nat]
  BY <1>1, IporType DEF Init
<1> QED BY <1>1, <1>2, <1>3, <1>4 DEF OracleInv, TypeOK, Init, OwnableInit, OwnableTypeOK

(* A list published by an updater (updateIndexes, updateIndex with a value). *)
LEMMA PublishKeeps ==
    ASSUME OracleInv, NEW sender, NEW batch \in Seq(Publication), Publish(sender, batch)
    PROVE  /\ OracleInv'
           /\ \A a \in Asset : /\ IsSupported(indexes'[a]) = IsSupported(indexes[a])
                               /\ KeptInBlock(indexes[a], indexes'[a], now)
<1> DEFINE new    == PublishedList(batch).indexes
           values == [a \in Asset |-> published[a] \cup ValuesFor(a, batch)]
<1>1. /\ PublishedList(batch).ok
      /\ indexes' = new /\ published' = values
      /\ UNCHANGED <<owner, appointedOwner, updaters, iporAlgorithmFacade, paused, now, earned>>
  BY DEF Publish, UpdateIndexes, ownableVars
<1>2. /\ now \in Nat /\ indexes \in [Asset -> IPOR] /\ earned \in [Asset -> Nat]
      /\ published \in [Asset -> SUBSET Nat]
  BY UInt32Type DEF OracleInv, TypeOK
<1>3. \A i \in 1..Len(batch) : batch[i] \in Publication
  OBVIOUS
<1>4. \A a \in Asset : ValuesFor(a, batch) \subseteq Nat
  BY <1>3 DEF ValuesFor, Publication
<1>5. values \in [Asset -> SUBSET Nat]
  BY <1>2, <1>4
<1>6. \A i \in 1..Len(batch) : batch[i].value \in values[batch[i].asset]
  BY <1>3 DEF ValuesFor, Publication
<1>7. \A a \in Asset : Sound(indexes[a], now, earned[a], values[a])
  <2>1. \A a \in Asset : published[a] \subseteq values[a]
    OBVIOUS
  <2> HIDE DEF values
  <2> QED BY <2>1 DEF OracleInv, Sound
<1> HIDE DEF values
<1>8. /\ new \in [Asset -> IPOR]
      /\ \A a \in Asset : /\ Sound(new[a], now, earned[a], values[a])
                          /\ IsSupported(new[a]) = IsSupported(indexes[a])
                          /\ KeptInBlock(indexes[a], new[a], now)
  BY <1>1, <1>2, <1>5, <1>6, <1>7, ListKeeps
<1> HIDE DEF new
<1>9. TypeOK'
  BY <1>1, <1>5, <1>8 DEF OracleInv, TypeOK, OwnableTypeOK
<1> QED BY <1>1, <1>8, <1>9 DEF OracleInv

(* One value, from the algorithm. *)
LEMMA PublishFromAlgorithmKeeps ==
    ASSUME OracleInv, NEW sender, PublishFromAlgorithm(sender)
    PROVE  /\ OracleInv'
           /\ \A a \in Asset : /\ IsSupported(indexes'[a]) = IsSupported(indexes[a])
                               /\ KeptInBlock(indexes[a], indexes'[a], now)
<1>1. PICK asset \in Asset, value \in IndexValues :
         /\ UpdateIndexFromAlgorithm(sender, asset, value)
         /\ published' = [published EXCEPT ![asset] = @ \cup {value}]
         /\ UNCHANGED earned
  BY DEF PublishFromAlgorithm
<1> DEFINE new == Published(indexes[asset], value, now)
<1>2. /\ CanPublish(indexes[asset], value, now)
      /\ indexes' = [indexes EXCEPT ![asset] = new]
      /\ UNCHANGED <<owner, appointedOwner, updaters, iporAlgorithmFacade, paused, now>>
  BY <1>1 DEF UpdateIndexFromAlgorithm, ownableVars
<1>3. /\ now \in Nat /\ value \in Nat /\ indexes[asset] \in IPOR /\ earned[asset] \in Nat
      /\ published[asset] \cup {value} \in SUBSET Nat
  BY UInt32Type, OracleSpecAssumption DEF OracleInv, TypeOK
<1>4. Sound(indexes[asset], now, earned[asset], published[asset] \cup {value})
  BY DEF OracleInv, Sound
<1> HIDE DEF new
<1>5. /\ new \in IPOR /\ IsSupported(new)
      /\ Sound(new, now, earned[asset], published[asset] \cup {value})
      /\ KeptInBlock(indexes[asset], new, now)
  BY <1>2, <1>3, <1>4, PublishedOne DEF new
<1>6. IsSupported(indexes[asset])
  BY <1>2 DEF CanPublish
<1>7. TypeOK'
  BY <1>1, <1>2, <1>3, <1>5 DEF OracleInv, TypeOK, OwnableTypeOK
<1>8. ASSUME NEW a \in Asset
      PROVE  /\ Sound(indexes[a], now, earned[a], published[a])'
             /\ IsSupported(indexes'[a]) = IsSupported(indexes[a])
             /\ KeptInBlock(indexes[a], indexes'[a], now)
  <2>1. CASE a = asset
    BY <2>1, <1>1, <1>2, <1>5, <1>6 DEF OracleInv, TypeOK
  <2>2. CASE a # asset
    <3>1. indexes'[a] = indexes[a] /\ published'[a] = published[a]
      BY <2>2, <1>1, <1>2 DEF OracleInv, TypeOK
    <3>2. KeptInBlock(indexes[a], indexes[a], now)
      BY DEF KeptInBlock, OracleInv, TypeOK, IPOR
    <3> QED BY <3>1, <3>2, <1>1, <1>2 DEF OracleInv
  <2> QED BY <2>1, <2>2
<1> QED BY <1>7, <1>8 DEF OracleInv

(* An asset is added (addAsset) or removed (removeAsset). *)
LEMMA AddKeeps ==
    ASSUME OracleInv, NEW sender, Add(sender) PROVE OracleInv'
<1>1. PICK asset \in Asset, t \in AddTimestamps, average \in AddAverages,
           variance \in AddVariances :
         /\ AddAsset(sender, asset, t, average, variance)
         /\ earned' = [earned EXCEPT ![asset] = 0]
         /\ published' = [published EXCEPT ![asset] = {average}]
  BY DEF Add
<1> DEFINE new == NewIndex(t, average, variance)
<1>2. /\ new \in IPOR
      /\ indexes' = [indexes EXCEPT ![asset] = new]
      /\ UNCHANGED <<owner, appointedOwner, updaters, iporAlgorithmFacade, paused, now>>
  BY <1>1 DEF AddAsset, ownableVars
<1>3. t \in Nat /\ average \in Nat /\ variance \in Nat /\ now \in Nat
  BY OracleSpecAssumption, UInt32Type DEF OracleInv, TypeOK
<1> HIDE DEF new
<1>4. Sound(new, now, 0, {average})
  BY <1>3, NewIndexSound DEF new
<1>5. TypeOK'
  BY <1>1, <1>2, <1>3 DEF OracleInv, TypeOK, OwnableTypeOK
<1>6. ASSUME NEW a \in Asset PROVE Sound(indexes[a], now, earned[a], published[a])'
  BY <1>1, <1>2, <1>4 DEF OracleInv, TypeOK
<1> QED BY <1>5, <1>6 DEF OracleInv

LEMMA RemoveKeeps ==
    ASSUME OracleInv, NEW sender, Remove(sender) PROVE OracleInv'
<1>1. PICK asset \in Asset :
         /\ RemoveAsset(sender, asset)
         /\ earned' = [earned EXCEPT ![asset] = 0]
         /\ published' = [published EXCEPT ![asset] = {}]
  BY DEF Remove
<1>2. /\ indexes' = [indexes EXCEPT ![asset] = NoIndex]
      /\ UNCHANGED <<owner, appointedOwner, updaters, iporAlgorithmFacade, paused, now>>
  BY <1>1 DEF RemoveAsset, ownableVars
<1>3. Sound(NoIndex, now, 0, {})
  BY NoIndexType DEF Sound
<1>4. TypeOK'
  BY <1>1, <1>2, NoIndexType DEF OracleInv, TypeOK, OwnableTypeOK
<1>5. ASSUME NEW a \in Asset PROVE Sound(indexes[a], now, earned[a], published[a])'
  BY <1>1, <1>2, <1>3 DEF OracleInv, TypeOK
<1> QED BY <1>4, <1>5 DEF OracleInv

(* Calls that leave the assets, the time and the history alone. *)
LEMMA AdministrationKeeps ==
    ASSUME OracleInv, NEW sender \in Account, Administer(sender) \/ ChangeOwner(sender)
    PROVE  OracleInv' /\ UNCHANGED <<indexes, now>>
<1>1. UNCHANGED <<indexes, now, earned, published>>
  BY DEF Administer, ChangeOwner, AddUpdater, RemoveUpdater, SetIporAlgorithmFacade,
         PauseOracle, UnpauseOracle, historyVars
<1>2. /\ OwnableTypeOK' /\ (updaters \subseteq Account)'
      /\ (iporAlgorithmFacade \in Facades \cup {NoAddress})' /\ (paused \in BOOLEAN)'
  <2>1. CASE Administer(sender)
    BY <2>1 DEF Administer, AddUpdater, RemoveUpdater, SetIporAlgorithmFacade,
                PauseOracle, UnpauseOracle, ownableVars, OracleInv, TypeOK, OwnableTypeOK
  <2>2. CASE ChangeOwner(sender)
    BY <2>2, OracleSpecAssumption
    DEF ChangeOwner, TransferOwnership, ConfirmTransferOwnership, RenounceOwnership,
        OracleInv, TypeOK, OwnableTypeOK
  <2> QED BY <2>1, <2>2
<1> QED BY <1>1, <1>2 DEF OracleInv, TypeOK

(* A second passes: the index earns it, also from the timestamp of a new asset
   on, which has no index yet. *)
LEMMA TickKeeps ==
    ASSUME OracleInv, Tick PROVE OracleInv'
<1>1. /\ now \in Nat /\ now < MaxTime /\ now' = now + 1
      /\ earned' = [a \in Asset |-> earned[a] + indexes[a].indexValue]
      /\ UNCHANGED <<owner, appointedOwner, indexes, updaters, iporAlgorithmFacade,
                     paused, published>>
  BY UInt32Type DEF Tick, OracleInv, TypeOK, ownableVars
<1>2. \A a \in Asset : indexes[a] \in IPOR /\ earned[a] \in Nat
  BY DEF OracleInv, TypeOK
<1>3. TypeOK'
  <2>1. (now \in 0..MaxTime)'
    BY <1>1, UInt32Type
  <2>2. (earned \in [Asset -> Nat])'
    BY <1>1, <1>2, IporType
  <2> QED BY <1>1, <2>1, <2>2 DEF OracleInv, TypeOK, OwnableTypeOK
<1>4. ASSUME NEW a \in Asset, IsSupported(indexes[a])
      PROVE  IF indexes[a].lastUpdateTimestamp <= now + 1
             THEN AccrueQuasiIbtPrice(indexes[a], now + 1) = WAD_YEAR_IN_SECONDS + earned'[a]
             ELSE /\ indexes[a].quasiIbtPrice = WAD_YEAR_IN_SECONDS
                  /\ indexes[a].indexValue = 0 /\ earned'[a] = 0
  <2> DEFINE last == indexes[a].lastUpdateTimestamp
             index == indexes[a].indexValue
  <2>1. /\ last \in Nat /\ index \in Nat /\ indexes[a].quasiIbtPrice \in Nat
        /\ earned'[a] = earned[a] + index
    BY <1>1, <1>2, IporType
  <2>2. CASE last <= now
    <3>1. AccrueQuasiIbtPrice(indexes[a], now) = WAD_YEAR_IN_SECONDS + earned[a]
      BY <2>2, <1>4 DEF OracleInv, Sound
    <3> DEFINE quasi == indexes[a].quasiIbtPrice
               passed == now - last
    <3>2. passed \in Nat /\ (now + 1) - last = passed + 1
      BY <1>1, <2>1, <2>2
    <3>3. quasi + index * passed = WAD_YEAR_IN_SECONDS + earned[a]
      BY <3>1 DEF AccrueQuasiIbtPrice
    <3>4. AccrueQuasiIbtPrice(indexes[a], now + 1) = quasi + index * (passed + 1)
      BY <3>2 DEF AccrueQuasiIbtPrice
    <3>5. last <= now + 1
      BY <1>1, <2>1, <2>2
    <3> HIDE DEF last, index, quasi, passed
    <3>6. index * passed \in Nat /\ index * (passed + 1) = index * passed + index
      BY <2>1, <3>2, OneMore
    <3>7. quasi \in Nat /\ earned[a] \in Nat
      BY <2>1, <1>2 DEF quasi
    <3> QED BY <2>1, <3>3, <3>4, <3>5, <3>6, <3>7, WadYear DEF last
  <2>3. CASE ~(last <= now)
    <3>1. /\ indexes[a].quasiIbtPrice = WAD_YEAR_IN_SECONDS
          /\ index = 0 /\ earned[a] = 0
      BY <2>3, <1>4 DEF OracleInv, Sound
    <3>2. 0 * ((now + 1) - last) = 0
      BY <1>1, <2>1
    <3> QED BY <2>1, <2>3, <3>1, <3>2, <1>1, WadYear DEF AccrueQuasiIbtPrice
  <2> QED BY <2>2, <2>3
<1>5. ASSUME NEW a \in Asset PROVE Sound(indexes[a], now, earned[a], published[a])'
  BY <1>1, <1>4 DEF OracleInv, Sound
<1> QED BY <1>3, <1>5 DEF OracleInv

LEMMA NextKeepsInv == OracleInv /\ [Next]_vars => OracleInv'
<1> SUFFICES ASSUME OracleInv, [Next]_vars PROVE OracleInv'
  OBVIOUS
<1>1. ASSUME NEW sender \in Account, PublishOne(sender) PROVE OracleInv'
  <2>1. PICK asset \in Asset, value \in IndexValues :
           Publish(sender, <<[asset |-> asset, value |-> value]>>)
    BY <1>1 DEF PublishOne
  <2>2. <<[asset |-> asset, value |-> value]>> \in Seq(Publication)
    BY OracleSpecAssumption DEF Publication
  <2> QED BY <2>1, <2>2, PublishKeeps
<1>2. ASSUME NEW sender \in Account, PublishBatch(sender) PROVE OracleInv'
  BY <1>2, OracleSpecAssumption, PublishKeeps DEF PublishBatch
<1>3. CASE UNCHANGED vars
  BY <1>3 DEF vars, ownableVars, historyVars, OracleInv, TypeOK, OwnableTypeOK, Sound
<1> QED BY <1>1, <1>2, <1>3, PublishFromAlgorithmKeeps, AddKeeps, RemoveKeeps,
           AdministrationKeeps, TickKeeps DEF Next

LEMMA InvAlways == Spec => []OracleInv
<1> QED BY InitSound, NextKeepsInv, PTL DEF Spec

-----------------------------------------------------------------------------
(* TypeOK holds in every reachable state: what is stored fits its type. *)
THEOREM OracleTypeCorrect == Spec => []TypeOK
<1>1. OracleInv => TypeOK
  BY DEF OracleInv
<1> QED BY <1>1, InvAlways, PTL

(* PriceIsIntegral holds in every reachable state: the price is 1.0 plus the
   integral of the index, whatever was published when and in which lists. *)
THEOREM PriceAlwaysIntegral == Spec => []PriceIsIntegral
<1>1. OracleInv => PriceIsIntegral
  BY DEF OracleInv, PriceIsIntegral, Sound
<1> QED BY <1>1, InvAlways, PTL

(* AverageWithinPublished holds in every reachable state: no decay factor and
   no rounding takes the average beyond what was published. *)
THEOREM AverageAlwaysWithinPublished == Spec => []AverageWithinPublished
<1>1. OracleInv => AverageWithinPublished
  BY DEF OracleInv, AverageWithinPublished, Sound
<1> QED BY <1>1, InvAlways, PTL

LEMMA NextKeepsInBlock ==
    ASSUME OracleInv, [Next]_vars, NEW a \in Asset,
           IsSupported(indexes[a]), IsSupported(indexes'[a])
    PROVE  KeptInBlock(indexes[a], indexes'[a], now)
<1>1. \A b \in Asset : KeptInBlock(indexes[b], indexes[b], now)
  BY DEF KeptInBlock, OracleInv, TypeOK, IPOR
<1>2. ASSUME NEW sender \in Account, PublishOne(sender) \/ PublishBatch(sender)
      PROVE  KeptInBlock(indexes[a], indexes'[a], now)
  <2>1. PICK batch \in Seq(Publication) : Publish(sender, batch)
    <3>1. CASE PublishOne(sender)
      <4>1. PICK asset \in Asset, value \in IndexValues :
               Publish(sender, <<[asset |-> asset, value |-> value]>>)
        BY <3>1 DEF PublishOne
      <4>2. <<[asset |-> asset, value |-> value]>> \in Seq(Publication)
        BY OracleSpecAssumption DEF Publication
      <4> QED BY <4>1, <4>2
    <3>2. CASE PublishBatch(sender)
      BY <3>2, OracleSpecAssumption DEF PublishBatch
    <3> QED BY <1>2, <3>1, <3>2
  <2> QED BY <2>1, PublishKeeps
<1>3. ASSUME NEW sender \in Account, Add(sender) \/ Remove(sender)
      PROVE  indexes'[a] = indexes[a]
  <2>1. CASE Add(sender)
    BY <2>1 DEF Add, AddAsset, OracleInv, TypeOK
  <2>2. CASE Remove(sender)
    BY <2>2, NoIndexType DEF Remove, RemoveAsset, OracleInv, TypeOK
  <2> QED BY <1>3, <2>1, <2>2
<1>4. CASE Tick \/ UNCHANGED vars
  BY <1>4, <1>1 DEF Tick, vars
<1> QED BY <1>1, <1>2, <1>3, <1>4, PublishFromAlgorithmKeeps, AdministrationKeeps DEF Next

(* RepublishingMovesOnlyTheIndex holds of every step: what is published again
   in a block replaces the index and nothing else. *)
THEOREM RepublishingAlwaysMovesOnlyTheIndex == Spec => RepublishingMovesOnlyTheIndex
<1>1. OracleInv /\ [Next]_vars =>
        [\A a \in Asset :
            /\ IsSupported(indexes[a]) /\ IsSupported(indexes'[a])
            /\ indexes[a].lastUpdateTimestamp = now
            => indexes'[a] = [indexes[a] EXCEPT !.indexValue = indexes'[a].indexValue]]_vars
  BY NextKeepsInBlock DEF KeptInBlock
<1> QED BY <1>1, InvAlways, PTL DEF Spec, RepublishingMovesOnlyTheIndex

LEMMA OrphanedStep ==
    ASSUME OracleInv, Next, Orphaned
    PROVE  /\ UNCHANGED <<ownableVars, updaters, iporAlgorithmFacade, paused>>
           /\ \A a \in Asset : IsSupported(indexes'[a]) = IsSupported(indexes[a])
<1>1. \A sender \in Account : sender # owner /\ sender # appointedOwner
  BY OwnableAssumption DEF Orphaned
<1>2. ASSUME NEW sender \in Account
      PROVE  /\ ~Add(sender) /\ ~Remove(sender)
             /\ ~Administer(sender) /\ ~ChangeOwner(sender)
  BY <1>1 DEF Add, AddAsset, Remove, RemoveAsset, Administer, AddUpdater, RemoveUpdater,
              SetIporAlgorithmFacade, PauseOracle, UnpauseOracle, ChangeOwner,
              TransferOwnership, ConfirmTransferOwnership, RenounceOwnership
<1>3. ASSUME NEW sender \in Account, PublishOne(sender) \/ PublishBatch(sender)
      PROVE  /\ UNCHANGED <<ownableVars, updaters, iporAlgorithmFacade, paused>>
             /\ \A a \in Asset : IsSupported(indexes'[a]) = IsSupported(indexes[a])
  <2>1. CASE PublishOne(sender)
    <3>1. PICK asset \in Asset, value \in IndexValues :
             Publish(sender, <<[asset |-> asset, value |-> value]>>)
      BY <2>1 DEF PublishOne
    <3>2. <<[asset |-> asset, value |-> value]>> \in Seq(Publication)
      BY OracleSpecAssumption DEF Publication
    <3>3. UNCHANGED <<ownableVars, updaters, iporAlgorithmFacade, paused>>
      BY <3>1 DEF Publish, UpdateIndexes
    <3> QED BY <3>1, <3>2, <3>3, PublishKeeps
  <2>2. CASE PublishBatch(sender)
    <3>1. PICK batch \in Batches : Publish(sender, batch)
      BY <2>2 DEF PublishBatch
    <3>2. UNCHANGED <<ownableVars, updaters, iporAlgorithmFacade, paused>>
      BY <3>1 DEF Publish, UpdateIndexes
    <3> QED BY <3>1, <3>2, OracleSpecAssumption, PublishKeeps
  <2> QED BY <1>3, <2>1, <2>2
<1>4. ASSUME NEW sender \in Account, PublishFromAlgorithm(sender)
      PROVE  /\ UNCHANGED <<ownableVars, updaters, iporAlgorithmFacade, paused>>
             /\ \A a \in Asset : IsSupported(indexes'[a]) = IsSupported(indexes[a])
  <2>1. UNCHANGED <<ownableVars, updaters, iporAlgorithmFacade, paused>>
    BY <1>4 DEF PublishFromAlgorithm, UpdateIndexFromAlgorithm
  <2> QED BY <2>1, <1>4, PublishFromAlgorithmKeeps
<1>5. CASE Tick
  BY <1>5 DEF Tick
<1> QED BY <1>2, <1>3, <1>4, <1>5 DEF Next

(* OrphanedIsFrozen holds of every step: an oracle that nobody owns and nobody
   may come to own is administered by nobody. *)
THEOREM OrphanedAlwaysFrozen == Spec => OrphanedIsFrozen
<1>1. OracleInv /\ [Next]_vars =>
        [Orphaned => /\ UNCHANGED <<ownableVars, updaters, iporAlgorithmFacade, paused>>
                     /\ \A a \in Asset : IsSupported(indexes'[a]) = IsSupported(indexes[a])]_vars
  BY OrphanedStep
<1> QED BY <1>1, InvAlways, PTL DEF Spec, OrphanedIsFrozen
=============================================================================
