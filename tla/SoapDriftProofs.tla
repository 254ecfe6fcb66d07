-------------------------- MODULE SoapDriftProofs --------------------------
(***************************************************************************)
(* SOAP follows the payoffs of the open swaps up to the recorded           *)
(* roundings, for any swaps, opened and closed at any times.               *)
(*                                                                         *)
(* For one leg let T, a, q, rt be its total notional, average rate,        *)
(* cumulated interest and time of the last rebalance, W the sum over its   *)
(* active swaps of notional * rate, and O that of notional * rate *        *)
(* opening time.  The leg is followed exactly when T * a = W and           *)
(* q = D18 * (rt * W - O); the invariant bounds the two differences by     *)
(* the recorded drifts.                                                    *)
(***************************************************************************)
EXTENDS SoapDrift, MiltonStorageSums

-----------------------------------------------------------------------------
(* One rebalance, as an equation between integers: the difference of the
   interest grows by that of the rate over the time that has passed. *)
LEMMA InterestGrows ==
    \A q, W, O, X, rt, t, d \in Int :
        (q + X * (t - rt) * d) - d * (t * W - O)
            = (q - d * (rt * W - O)) + d * ((t - rt) * (X - W))
  BY SMT

-----------------------------------------------------------------------------
(* The inductive invariant *)

Opening(leg) ==
    [id \in SwapId |-> swaps[leg][id].notional * swaps[leg][id].fixedInterestRate
                           * swaps[leg][id].openTimestamp]

RateSum(leg)    == SumFunctionOnSet(RateWeight(leg), ActiveIds(leg))
OpeningSum(leg) == SumFunctionOnSet(Opening(leg), ActiveIds(leg))

RateError(leg) == soap[leg].totalNotional * soap[leg].averageInterestRate - RateSum(leg)

InterestError(leg) ==
    soap[leg].qhic
        - D18 * (soap[leg].rebalanceTimestamp * RateSum(leg) - OpeningSum(leg))

LegFollowed(leg) ==
    /\ Within(RateError(leg), rateDrift[leg])
    /\ Within(InterestError(leg), D18 * interestDrift[leg])

(* No swap was opened and no leg rebalanced in the future. *)
NothingFromTheFuture ==
    \A leg \in Leg :
        /\ soap[leg].rebalanceTimestamp <= now
        /\ \A id \in SwapId : swaps[leg][id].openTimestamp <= now

(* A leg without notional carries neither rate nor interest. *)
EmptyLegIsClean ==
    \A leg \in Leg :
        soap[leg].totalNotional = 0 =>
            soap[leg].qhic = 0 /\ soap[leg].averageInterestRate = 0

DriftTypeOK == rateDrift \in [Leg -> Nat] /\ interestDrift \in [Leg -> Nat]

DriftInv ==
    /\ SumsInv
    /\ DriftTypeOK
    /\ NothingFromTheFuture
    /\ EmptyLegIsClean
    /\ \A leg \in Leg : LegFollowed(leg)

(* The integers that the invariant of a leg is about. *)
LEMMA LegTypes ==
    ASSUME StorageInv, NEW leg \in Leg
    PROVE  /\ soap[leg].qhic \in Nat
           /\ soap[leg].totalNotional \in Nat
           /\ soap[leg].totalIbtQuantity \in Nat
           /\ soap[leg].averageInterestRate \in Nat
           /\ soap[leg].rebalanceTimestamp \in Nat
           /\ now \in Nat
           /\ D18 \in Nat \ {0}
           /\ \A id \in SwapId :
                 /\ swaps[leg][id] \in Swap
                 /\ swaps[leg][id].notional \in Nat
                 /\ swaps[leg][id].ibtQuantity \in Nat
                 /\ swaps[leg][id].fixedInterestRate \in Nat
                 /\ swaps[leg][id].openTimestamp \in Nat
<1>1. soap[leg] \in SoapOfLegType /\ now \in UInt32 /\ swaps[leg] \in [SwapId -> Swap]
  BY DEF StorageInv, TypeOK, StorageTypeOK, SoapOfLegType
<1>2. \A s \in Swap : /\ s.notional \in Nat
                      /\ s.ibtQuantity \in Nat
                      /\ s.fixedInterestRate \in Nat
                      /\ s.openTimestamp \in Nat
  BY StorageAssumption DEF Swap, UInt32, UInt64, UInt128
<1>3. \A si \in SoapOfLegType : /\ si.qhic \in Nat
                                /\ si.totalNotional \in Nat
                                /\ si.totalIbtQuantity \in Nat
                                /\ si.averageInterestRate \in Nat
                                /\ si.rebalanceTimestamp \in Nat
  BY StorageAssumption DEF SoapOfLegType, UInt32, UInt64, UInt128
<1> QED BY <1>1, <1>2, <1>3, D18Assumption, StorageAssumption DEF UInt32

(* What is weighed are natural numbers, at this time and at any other. *)
LEMMA WeightTypes ==
    ASSUME StorageInv, NEW leg \in Leg, NEW id \in SwapId
    PROVE  /\ RateWeight(leg)[id]
                  = swaps[leg][id].notional * swaps[leg][id].fixedInterestRate
           /\ Opening(leg)[id]
                  = swaps[leg][id].notional * swaps[leg][id].fixedInterestRate
                        * swaps[leg][id].openTimestamp
           /\ RateWeight(leg)[id] \in Nat
           /\ Opening(leg)[id] \in Nat
  BY LegTypes, ProductOfNaturals DEF RateWeight, Opening

LEMMA SumTypes ==
    ASSUME StorageInv, NEW leg \in Leg
    PROVE  /\ RateSum(leg) \in Nat
           /\ OpeningSum(leg) \in Nat
           /\ RateError(leg) \in Int
           /\ InterestError(leg) \in Int
<1>1. IsFiniteSet(ActiveIds(leg)) /\ ActiveIds(leg) \subseteq SwapId
  BY ActiveIdsFinite
<1>2. RateSum(leg) \in Nat
  <2>1. \A id \in ActiveIds(leg) : RateWeight(leg)[id] \in Nat
    BY <1>1, WeightTypes
  <2> QED BY <1>1, <2>1, SumOfNaturals DEF RateSum
<1>3. OpeningSum(leg) \in Nat
  <2>1. \A id \in ActiveIds(leg) : Opening(leg)[id] \in Nat
    BY <1>1, WeightTypes
  <2> QED BY <1>1, <2>1, SumOfNaturals DEF OpeningSum
<1> QED BY <1>2, <1>3, LegTypes DEF RateError, InterestError

(* Without notional nothing is weighed. *)
LEMMA NothingWeighed ==
    ASSUME SumsInv, NEW leg \in Leg, soap[leg].totalNotional = 0
    PROVE  RateSum(leg) = 0 /\ OpeningSum(leg) = 0
<1> DEFINE A == ActiveIds(leg)
           n == Notional(leg)
           w == RateWeight(leg)
           o == Opening(leg)
<1>1. IsFiniteSet(A) /\ A \subseteq SwapId /\ StorageInv
  BY ActiveIdsFinite DEF SumsInv
<1>2. \A id \in A : n[id] \in Nat /\ n[id] = swaps[leg][id].notional
  BY <1>1, LegTypes DEF Notional
<1>3. SumFunctionOnSet(n, A) = 0
  BY DEF SumsInv, SoapTotalsBacked
<1>4. \A id \in A : n[id] <= SumFunctionOnSet(n, A)
  <2> HIDE DEF A, n
  <2> QED BY <1>1, <1>2, SumOfNaturals
<1>5. \A id \in A : swaps[leg][id].notional = 0
  BY <1>2, <1>3, <1>4
<1>6. \A r, t \in Nat : 0 * r = 0 /\ 0 * r * t = 0
  OBVIOUS
<1>7. \A id \in A : w[id] = 0 /\ o[id] = 0
  BY <1>1, <1>5, <1>6, LegTypes DEF RateWeight, Opening
<1>8. SumFunctionOnSet(w, A) = 0 /\ SumFunctionOnSet(o, A) = 0
  <2> HIDE DEF A, w, o
  <2> QED BY <1>1, <1>7, SumOfZeros
<1> QED BY <1>8 DEF RateSum, OpeningSum

-----------------------------------------------------------------------------
(* What the steps do to the sums *)

LEMMA OpenWeights ==
    ASSUME StorageInv, NEW caller, NEW leg \in Leg, NEW terms \in SwapTerms,
           NEW buyer \in Account,
           UpdateStorageWhenOpenSwap(caller, leg, NewSwap(terms, buyer), PUBLICATION_FEE),
           StorageInv'
    PROVE  /\ RateSum(leg)' = RateSum(leg) + terms.notional * terms.fixedInterestRate
           /\ OpeningSum(leg)' = OpeningSum(leg)
                                     + terms.notional * terms.fixedInterestRate * now
<1> DEFINE id == lastSwapId + 1
           A  == ActiveIds(leg)
           w  == RateWeight(leg)
           o  == Opening(leg)
           w2 == RateWeight(leg)'
           o2 == Opening(leg)'
<1>1. /\ id \in SwapId /\ id \notin A
      /\ ActiveIds(leg)' = A \cup {id}
      /\ swaps'[leg][id].notional = terms.notional
      /\ swaps'[leg][id].fixedInterestRate = terms.fixedInterestRate
      /\ swaps'[leg][id].openTimestamp = now
      /\ \A j \in SwapId \ {id} : swaps'[leg][j] = swaps[leg][j]
  BY OpenAddsSwap
<1> HIDE DEF id
<1>2. IsFiniteSet(A) /\ A \subseteq SwapId \ {id}
  BY <1>1, ActiveIdsFinite
<1>3. \A j \in A : w[j] \in Int /\ w2[j] = w[j]
  BY <1>1, <1>2, WeightTypes DEF RateWeight
<1>4. \A j \in A : o[j] \in Int /\ o2[j] = o[j]
  BY <1>1, <1>2, WeightTypes DEF Opening
<1>5. /\ w2[id] = terms.notional * terms.fixedInterestRate
      /\ o2[id] = terms.notional * terms.fixedInterestRate * now
  BY <1>1 DEF RateWeight, Opening
<1>6. w2[id] \in Int /\ o2[id] \in Int
  <2>1. /\ terms.notional \in Nat /\ terms.fixedInterestRate \in Nat /\ now \in Nat
    BY SpecAssumption, LegTypes DEF SwapTermsType
  <2> QED BY <1>5, <2>1
<1>7. RateSum(leg)' = SumFunctionOnSet(w2, A \cup {id})
  BY <1>1 DEF RateSum
<1>8. OpeningSum(leg)' = SumFunctionOnSet(o2, A \cup {id})
  BY <1>1 DEF OpeningSum
<1> HIDE DEF A, w, o, w2, o2
<1>9. SumFunctionOnSet(w2, A \cup {id}) = SumFunctionOnSet(w, A) + w2[id]
  BY <1>1, <1>2, <1>3, <1>6, SumWithOneMore
<1>10. SumFunctionOnSet(o2, A \cup {id}) = SumFunctionOnSet(o, A) + o2[id]
  BY <1>1, <1>2, <1>4, <1>6, SumWithOneMore
<1> QED BY <1>5, <1>7, <1>8, <1>9, <1>10 DEF RateSum, OpeningSum, A, w, o

LEMMA CloseWeights ==
    ASSUME StorageInv, NEW caller, NEW leg \in Leg, NEW id \in SwapId, NEW liquidator,
           NEW payoff, NEW fee,
           UpdateStorageWhenCloseSwap(caller, leg, liquidator, swaps[leg][id],
                                      payoff, fee, now),
           StorageInv'
    PROVE  /\ RateSum(leg)' = RateSum(leg) - RateWeight(leg)[id]
           /\ OpeningSum(leg)' = OpeningSum(leg) - Opening(leg)[id]
<1> DEFINE A  == ActiveIds(leg)
           w  == RateWeight(leg)
           o  == Opening(leg)
           w2 == RateWeight(leg)'
           o2 == Opening(leg)'
<1>1. /\ id \in A
      /\ ActiveIds(leg)' = A \ {id}
      /\ \A j \in SwapId :
            /\ swaps'[leg][j].notional = swaps[leg][j].notional
            /\ swaps'[leg][j].fixedInterestRate = swaps[leg][j].fixedInterestRate
            /\ swaps'[leg][j].openTimestamp = swaps[leg][j].openTimestamp
  <2>1. /\ id \in ActiveIds(leg)
        /\ ActiveIds(leg)' = ActiveIds(leg) \ {id}
        /\ \A j \in SwapId :
              /\ swaps'[leg][j].collateral = swaps[leg][j].collateral
              /\ swaps'[leg][j].notional = swaps[leg][j].notional
              /\ swaps'[leg][j].ibtQuantity = swaps[leg][j].ibtQuantity
              /\ swaps'[leg][j].fixedInterestRate = swaps[leg][j].fixedInterestRate
              /\ swaps'[leg][j].openTimestamp = swaps[leg][j].openTimestamp
        /\ \A l \in Leg \ {leg} : swaps'[l] = swaps[l] /\ soap'[l] = soap[l]
    BY CloseTakesSwap, Zenon
  <2> QED BY <2>1, Zenon
<1>2. IsFiniteSet(A) /\ id \in A
  BY <1>1, ActiveIdsFinite
<1>3. A \subseteq SwapId
  BY ActiveIdsFinite
<1>4. \A j \in A : w[j] \in Int
  BY <1>3, WeightTypes
<1>5. \A j \in A \ {id} : w2[j] = w[j]
  BY <1>1, <1>3 DEF RateWeight
<1>6. \A j \in A : o[j] \in Int
  BY <1>3, WeightTypes
<1>7. \A j \in A \ {id} : o2[j] = o[j]
  BY <1>1, <1>3 DEF Opening
<1>8. RateSum(leg)' = SumFunctionOnSet(w2, A \ {id})
  BY <1>1 DEF RateSum
<1>9. OpeningSum(leg)' = SumFunctionOnSet(o2, A \ {id})
  BY <1>1 DEF OpeningSum
<1> HIDE DEF A, w, o, w2, o2
<1>10. SumFunctionOnSet(w2, A \ {id}) = SumFunctionOnSet(w, A) - w[id]
  BY <1>2, <1>4, <1>5, SumWithOneLess
<1>11. SumFunctionOnSet(o2, A \ {id}) = SumFunctionOnSet(o, A) - o[id]
  BY <1>2, <1>6, <1>7, SumWithOneLess
<1> QED BY <1>8, <1>9, <1>10, <1>11 DEF RateSum, OpeningSum, A, w, o

(* Only the swaps of the leg matter. *)
LEMMA SameSwapsSameWeights ==
    ASSUME NEW leg, swaps'[leg] = swaps[leg]
    PROVE  RateSum(leg)' = RateSum(leg) /\ OpeningSum(leg)' = OpeningSum(leg)
  BY DEF RateSum, OpeningSum, RateWeight, Opening, ActiveIds, IsActive

-----------------------------------------------------------------------------
(* A leg stays followed *)

(* An average that is rounded adds its divisor to the drift of the rate. *)
LEMMA Averaged ==
    ASSUME NEW x \in Int, NEW w \in Int, NEW e \in Int, NEW y \in Nat \ {0},
           Within(x - w, e)
    PROVE  Within(y * Division(x, y) - w, e + y)
<1> DEFINE p == y * Division(x, y)
<1>1. p \in Int
  BY DivisionType
<1>2. Within(p - x, y)
  BY DivisionWithin
<1> HIDE DEF p
<1>3. Within((x - w) + (p - x), e + y)
  BY <1>1, <1>2, WithinSum
<1>4. (x - w) + (p - x) = p - w
  BY <1>1
<1> QED BY <1>3, <1>4 DEF p

(* Interest that accrues at a drifting rate drifts by that of the rate over the
   time that passes. *)
LEMMA Accrued ==
    ASSUME NEW q \in Int, NEW W \in Int, NEW O \in Int, NEW X \in Int,
           NEW rt \in Nat, NEW t \in Nat, rt <= t, NEW d \in Nat,
           NEW D \in Int, NEW E \in Int,
           Within(X - W, E), Within(q - d * (rt * W - O), d * D)
    PROVE  Within((q + X * (t - rt) * d) - d * (t * W - O), d * (D + E * (t - rt)))
<1> DEFINE s == t - rt
           Y == X - W
           Q == q - d * (rt * W - O)
<1>1. s \in Nat /\ Y \in Int /\ Q \in Int
  OBVIOUS
<1>2. (q + X * (t - rt) * d) - d * (t * W - O) = Q + d * (s * Y)
  BY InterestGrows
<1> HIDE DEF s, Y, Q
<1>3. s * Y \in Int /\ s * E \in Int /\ Within(s * Y, s * E)
  BY <1>1, WithinProduct DEF Y
<1>4. d * (s * Y) \in Int /\ d * (s * E) \in Int /\ Within(d * (s * Y), d * (s * E))
  BY <1>3, WithinProduct
<1>5. Within(Q, d * D)
  BY DEF Q
<1>6. Within(Q + d * (s * Y), d * D + d * (s * E))
  BY <1>1, <1>4, <1>5, WithinSum
<1>7. d * D + d * (s * E) = d * (D + E * s)
  BY <1>1
<1> QED BY <1>2, <1>6, <1>7 DEF s

(* At the time of the block the interest of a leg is that of its swaps up to
   the drift recorded by then. *)
LEMMA InterestFollowed ==
    ASSUME DriftInv, NEW leg \in Leg
    PROVE  Within(QuasiHypotheticalInterestTotal(soap[leg], now)
                      - D18 * (now * RateSum(leg) - OpeningSum(leg)),
                  D18 * InterestDriftAt(leg, now))
<1>1. StorageInv /\ LegFollowed(leg) /\ soap[leg].rebalanceTimestamp <= now
  BY DEF DriftInv, SumsInv, NothingFromTheFuture
<1>2. /\ RateSum(leg) \in Int /\ OpeningSum(leg) \in Int
      /\ rateDrift[leg] \in Int /\ interestDrift[leg] \in Int
  BY <1>1, SumTypes DEF DriftInv, DriftTypeOK
<1> DEFINE X == soap[leg].totalNotional * soap[leg].averageInterestRate
<1>3. X \in Int /\ soap[leg].qhic \in Int /\ D18 \in Nat
      /\ now \in Nat /\ soap[leg].rebalanceTimestamp \in Nat
  BY <1>1, LegTypes
<1>4. Within(X - RateSum(leg), rateDrift[leg])
  BY <1>1 DEF LegFollowed, RateError
<1>5. Within(soap[leg].qhic - D18 * (soap[leg].rebalanceTimestamp * RateSum(leg)
                                         - OpeningSum(leg)),
             D18 * interestDrift[leg])
  BY <1>1 DEF LegFollowed, InterestError
<1>6. QuasiHypotheticalInterestTotal(soap[leg], now)
         = soap[leg].qhic + X * (now - soap[leg].rebalanceTimestamp) * D18
  BY DEF QuasiHypotheticalInterestTotal, QuasiHypotheticalInterestDelta
<1> HIDE DEF X
<1> QED BY <1>1, <1>2, <1>3, <1>4, <1>5, <1>6, Accrued DEF InterestDriftAt

(* A leg that the step does not touch is followed as before. *)
LEMMA UntouchedLeg ==
    ASSUME DriftInv, NEW leg \in Leg, RecordDrift,
           swaps'[leg] = swaps[leg], soap'[leg] = soap[leg]
    PROVE  LegFollowed(leg)'
<1>1. LegFollowed(leg) /\ SumsInv /\ StorageInv
  BY DEF DriftInv, SumsInv
<1>2. RateError(leg)' = RateError(leg) /\ InterestError(leg)' = InterestError(leg)
  BY SameSwapsSameWeights DEF RateError, InterestError
<1>3. CASE soap[leg].totalNotional = 0
  <2>1. rateDrift'[leg] = 0 /\ interestDrift'[leg] = 0
    BY <1>3 DEF RecordDrift
  <2>2. RateSum(leg) = 0 /\ OpeningSum(leg) = 0
    BY <1>1, <1>3, NothingWeighed
  <2>3. soap[leg].qhic = 0 /\ soap[leg].averageInterestRate = 0
    BY <1>3 DEF DriftInv, EmptyLegIsClean
  <2>4. soap[leg].rebalanceTimestamp \in Int /\ D18 \in Int
    BY <1>1, LegTypes
  <2>5. RateError(leg) = 0 /\ InterestError(leg) = 0 /\ D18 * 0 = 0
    BY <1>3, <2>2, <2>3, <2>4 DEF RateError, InterestError
  <2> QED BY <1>2, <2>1, <2>5 DEF LegFollowed, Within
<1>4. CASE soap[leg].totalNotional # 0
  <2>1. rateDrift'[leg] = rateDrift[leg] /\ interestDrift'[leg] = interestDrift[leg]
    BY <1>4 DEF RecordDrift
  <2> QED BY <1>1, <1>2, <2>1 DEF LegFollowed
<1> QED BY <1>3, <1>4

(* The same in the state after a step. *)
LEMMA NothingWeighedAfter ==
    (SumsInv => \A leg \in Leg : soap[leg].totalNotional = 0 =>
                    RateSum(leg) = 0 /\ OpeningSum(leg) = 0)'
<1>1. SumsInv => \A leg \in Leg : soap[leg].totalNotional = 0 =>
                    RateSum(leg) = 0 /\ OpeningSum(leg) = 0
  BY NothingWeighed
<1> QED BY <1>1, PTL

(* A leg that is left without notional is followed exactly. *)
LEMMA EmptiedLeg ==
    ASSUME SumsInv', NEW leg \in Leg, RecordDrift,
           soap'[leg].totalNotional = 0, soap'[leg].qhic = 0,
           soap'[leg].averageInterestRate = 0, soap'[leg].rebalanceTimestamp \in Int
    PROVE  LegFollowed(leg)'
<1>1. rateDrift'[leg] = 0 /\ interestDrift'[leg] = 0
  BY DEF RecordDrift
<1>2. RateSum(leg)' = 0 /\ OpeningSum(leg)' = 0
  BY NothingWeighedAfter
<1>3. D18 \in Int
  BY D18Assumption
<1>4. RateError(leg)' = 0 /\ InterestError(leg)' = 0 /\ D18 * 0 = 0
  BY <1>2, <1>3 DEF RateError, InterestError
<1> QED BY <1>1, <1>4 DEF LegFollowed, Within

(* A leg that had notional and still has some after a rebalance: x is the weight
   that the new average is taken of. *)
LEMMA RebalancedLeg ==
    ASSUME DriftInv, NEW leg \in Leg, RecordDrift, NEW x \in Int,
           soap[leg].totalNotional # 0,
           soap'[leg].totalNotional \in Nat \ {0},
           soap'[leg].averageInterestRate = Division(x, soap'[leg].totalNotional),
           soap'[leg].rebalanceTimestamp = now,
           RateSum(leg)' \in Int,
           x - RateSum(leg)' = RateError(leg),
           soap'[leg].qhic - D18 * (now * RateSum(leg)' - OpeningSum(leg)')
               = QuasiHypotheticalInterestTotal(soap[leg], now)
                     - D18 * (now * RateSum(leg) - OpeningSum(leg)),
           soap'[leg] = soap[leg] => RateSum(leg)' = RateSum(leg)
    PROVE  LegFollowed(leg)'
<1>1. StorageInv /\ LegFollowed(leg)
  BY DEF DriftInv, SumsInv
<1>2. /\ RateError(leg) \in Int
      /\ rateDrift[leg] \in Int
  BY <1>1, SumTypes DEF DriftInv, DriftTypeOK
<1>3. InterestError(leg)' = QuasiHypotheticalInterestTotal(soap[leg], now)
                                - D18 * (now * RateSum(leg) - OpeningSum(leg))
  BY DEF InterestError
<1>4. CASE soap'[leg] # soap[leg]
  <2>1. /\ rateDrift'[leg] = rateDrift[leg] + soap'[leg].totalNotional
        /\ interestDrift'[leg] = InterestDriftAt(leg, now)
    BY <1>4 DEF RecordDrift
  <2>2. Within(InterestError(leg)', D18 * interestDrift'[leg])
    BY <1>3, <2>1, InterestFollowed
  <2>3. Within(x - RateSum(leg)', rateDrift[leg])
    BY <1>1 DEF LegFollowed
  <2>4. Within(soap'[leg].totalNotional * Division(x, soap'[leg].totalNotional)
                   - RateSum(leg)',
               rateDrift[leg] + soap'[leg].totalNotional)
    BY <1>2, <2>3, Averaged
  <2>5. Within(RateError(leg)', rateDrift'[leg])
    BY <2>1, <2>4 DEF RateError
  <2> QED BY <2>2, <2>5 DEF LegFollowed
<1>5. CASE soap'[leg] = soap[leg]
  <2>1. rateDrift'[leg] = rateDrift[leg] /\ interestDrift'[leg] = interestDrift[leg]
    BY <1>5 DEF RecordDrift
  <2>2. RateError(leg)' = RateError(leg)
    BY <1>5 DEF RateError
  <2>3. /\ soap[leg].totalNotional * soap[leg].averageInterestRate \in Int
        /\ soap[leg].qhic \in Int /\ now \in Int /\ D18 \in Int
        /\ soap[leg].rebalanceTimestamp = now
    BY <1>1, <1>5, LegTypes
  <2>4. QuasiHypotheticalInterestTotal(soap[leg], now) = soap[leg].qhic
    <3>1. \A y \in Int, q, t, d \in Int : q + y * (t - t) * d = q
      OBVIOUS
    <3> QED BY <2>3, <3>1 DEF QuasiHypotheticalInterestTotal, QuasiHypotheticalInterestDelta
  <2>5. InterestError(leg)' = InterestError(leg)
    BY <1>3, <2>3, <2>4 DEF InterestError
  <2> QED BY <1>1, <2>1, <2>2, <2>5 DEF LegFollowed
<1> QED BY <1>4, <1>5

(* Opening a swap: the first of the leg is averaged exactly, the others add a
   rounding. *)
LEMMA OpenFollowed ==
    ASSUME DriftInv, NEW caller, NEW leg \in Leg, NEW terms \in SwapTerms,
           NEW buyer \in Account,
           UpdateStorageWhenOpenSwap(caller, leg, NewSwap(terms, buyer), PUBLICATION_FEE),
           StorageInv', RecordDrift
    PROVE  /\ LegFollowed(leg)'
           /\ soap'[leg].totalNotional # 0
           /\ soap'[leg].rebalanceTimestamp = now
<1> DEFINE n  == terms.notional
           r  == terms.fixedInterestRate
           si == soap[leg]
           X  == si.totalNotional * si.averageInterestRate
<1>1. StorageInv
  BY DEF DriftInv, SumsInv
<1>2. /\ n \in Nat /\ r \in Nat
      /\ si.totalNotional \in Nat /\ si.averageInterestRate \in Nat
      /\ now \in Nat /\ D18 \in Nat
  BY <1>1, LegTypes, SpecAssumption DEF SwapTermsType
<1>3. /\ soap'[leg] = RebalanceWhenOpenSwap(si, NewSwap(terms, buyer))
      /\ si.totalNotional + n > 0
  <2>1. DOMAIN soap = Leg
    BY <1>1 DEF StorageInv, TypeOK, StorageTypeOK
  <2> QED BY <2>1 DEF UpdateStorageWhenOpenSwap, CanUpdateSoapWhenOpen,
                      CanRebalanceWhenOpenSwap, NewSwap
<1>4. /\ soap'[leg].qhic = QuasiHypotheticalInterestTotal(si, now)
      /\ soap'[leg].totalNotional = si.totalNotional + n
      /\ soap'[leg].averageInterestRate = Division(X + n * r, si.totalNotional + n)
      /\ soap'[leg].rebalanceTimestamp = now
  BY <1>3 DEF RebalanceWhenOpenSwap, AverageInterestRateWhenOpenSwap, NewSwap
<1>5. /\ RateSum(leg)' = RateSum(leg) + n * r
      /\ OpeningSum(leg)' = OpeningSum(leg) + n * r * now
  BY <1>1, OpenWeights
<1>6. /\ RateSum(leg) \in Int /\ OpeningSum(leg) \in Int
      /\ n * r \in Int /\ X \in Int /\ X + n * r \in Int
  BY <1>1, <1>2, SumTypes
<1>7. si.totalNotional + n \in Nat \ {0}
  BY <1>2, <1>3
<1>8. now * RateSum(leg)' - OpeningSum(leg)' = now * RateSum(leg) - OpeningSum(leg)
  <2>1. \A t, w, o, y \in Int : t * (w + y) - (o + y * t) = t * w - o
    OBVIOUS
  <2> HIDE DEF n, r
  <2> QED BY <1>2, <1>5, <1>6, <2>1
<1>9. CASE si.totalNotional = 0
  <2>1. si.qhic = 0 /\ si.averageInterestRate = 0
    BY <1>9 DEF DriftInv, EmptyLegIsClean
  <2>2. RateSum(leg) = 0 /\ OpeningSum(leg) = 0
    BY <1>9, NothingWeighed DEF DriftInv
  <2>3. rateDrift'[leg] = 0 /\ interestDrift'[leg] = 0
    BY <1>9 DEF RecordDrift
  <2>4. n \in Nat \ {0} /\ X = 0
    BY <1>2, <1>7, <1>9
  <2>5. soap'[leg].averageInterestRate = r /\ soap'[leg].totalNotional = n
    <3>1. Division(n * r, n) = r
      <4> HIDE DEF n, r
      <4> QED BY <1>2, <2>4, DivisionExact
    <3>2. X + n * r = n * r /\ si.totalNotional + n = n
      <4> HIDE DEF n, r, X
      <4> QED BY <1>2, <1>6, <1>9, <2>4
    <3> HIDE DEF n, r, X
    <3> QED BY <1>4, <3>1, <3>2
  <2>6. RateError(leg)' = 0
    <3> HIDE DEF n, r
    <3> QED BY <1>2, <1>5, <2>2, <2>5 DEF RateError
  <2>7. soap'[leg].qhic = 0
    <3>1. si.rebalanceTimestamp \in Int
      BY <1>1, LegTypes
    <3>2. \A a, b, c, d \in Int : 0 + 0 * a * b * c = 0
      OBVIOUS
    <3> QED BY <1>2, <1>4, <1>9, <2>1, <3>1, <3>2
            DEF QuasiHypotheticalInterestTotal, QuasiHypotheticalInterestDelta
  <2>8. InterestError(leg)' = 0
    <3>1. now * RateSum(leg)' - OpeningSum(leg)' = 0
      BY <1>2, <1>8, <2>2
    <3> QED BY <1>2, <1>4, <2>7, <3>1 DEF InterestError
  <2> QED BY <1>2, <1>4, <1>7, <2>3, <2>6, <2>8 DEF LegFollowed, Within
<1>10. CASE si.totalNotional # 0
  <2>1. (X + n * r) - RateSum(leg)' = RateError(leg)
    BY <1>5, <1>6 DEF RateError
  <2>2. soap'[leg] = si => RateSum(leg)' = RateSum(leg)
    <3>1. ASSUME soap'[leg] = si PROVE n = 0
      <4>1. si.totalNotional = si.totalNotional + n
        BY <1>4, <3>1
      <4> HIDE DEF n
      <4> QED BY <1>2, <4>1
    <3>2. \A y \in Int : 0 * r = 0 /\ y + 0 = y
      BY <1>2
    <3> HIDE DEF n, r
    <3> QED BY <1>5, <1>6, <3>1, <3>2
  <2>3. RateSum(leg)' \in Int
    BY <1>5, <1>6
  <2> DEFINE x == X + n * r
  <2> HIDE DEF n, r, X, x
  <2>4. x \in Int /\ x - RateSum(leg)' = RateError(leg)
        /\ soap'[leg].averageInterestRate = Division(x, soap'[leg].totalNotional)
    BY <1>4, <1>6, <2>1 DEF x
  <2> QED BY <1>4, <1>7, <1>8, <1>10, <2>2, <2>3, <2>4, RebalancedLeg
<1> QED BY <1>2, <1>4, <1>7, <1>9, <1>10

(* Closing a swap: the last one resets the leg, the others add a rounding. *)
LEMMA CloseFollowed ==
    ASSUME DriftInv, NEW caller, NEW leg \in Leg, NEW id \in SwapId, NEW liquidator,
           NEW payoff, NEW fee,
           UpdateStorageWhenCloseSwap(caller, leg, liquidator, swaps[leg][id],
                                      payoff, fee, now),
           SumsInv', RecordDrift
    PROVE  /\ LegFollowed(leg)'
           /\ soap'[leg].totalNotional = 0 =>
                 soap'[leg].qhic = 0 /\ soap'[leg].averageInterestRate = 0
           /\ soap'[leg].rebalanceTimestamp = now
<1> DEFINE n  == swaps[leg][id].notional
           r  == swaps[leg][id].fixedInterestRate
           o  == swaps[leg][id].openTimestamp
           si == soap[leg]
           X  == si.totalNotional * si.averageInterestRate
<1>1. StorageInv /\ StorageInv'
  BY DEF DriftInv, SumsInv
<1>2. /\ n \in Nat /\ r \in Nat /\ o \in Nat
      /\ si.totalNotional \in Nat /\ si.averageInterestRate \in Nat
      /\ now \in Nat /\ D18 \in Nat
  BY <1>1, LegTypes
<1>3. /\ soap'[leg] = RebalanceWhenCloseSwap(si, swaps[leg][id], now)
      /\ n <= si.totalNotional
  <2>1. DOMAIN soap = Leg
    BY <1>1 DEF StorageInv, TypeOK, StorageTypeOK
  <2> QED BY <2>1 DEF UpdateStorageWhenCloseSwap, CanUpdateSoapWhenClose,
                      CanRebalanceWhenCloseSwap
<1>4. CASE n = si.totalNotional
  <2>1. soap'[leg] = [EmptyIndicators EXCEPT !.rebalanceTimestamp = now]
    BY <1>3, <1>4 DEF RebalanceWhenCloseSwap
  <2>2. /\ soap'[leg].totalNotional = 0 /\ soap'[leg].qhic = 0
        /\ soap'[leg].averageInterestRate = 0 /\ soap'[leg].rebalanceTimestamp = now
    BY <2>1 DEF EmptyIndicators
  <2> QED BY <1>2, <2>2, EmptiedLeg
<1>5. CASE n # si.totalNotional
  <2>1. /\ soap'[leg].qhic = QuasiHypotheticalInterestTotal(si, now)
                                 - n * r * (now - o) * D18
        /\ soap'[leg].totalNotional = si.totalNotional - n
        /\ soap'[leg].averageInterestRate = Division(X - n * r, si.totalNotional - n)
        /\ soap'[leg].rebalanceTimestamp = now
    BY <1>3, <1>5
       DEF RebalanceWhenCloseSwap, QuasiInterestAfterClose, QuasiInterestPaidOut,
           AverageInterestRateWhenCloseSwap, WeightAfterClose
  <2>2. /\ RateSum(leg)' = RateSum(leg) - n * r
        /\ OpeningSum(leg)' = OpeningSum(leg) - n * r * o
    BY <1>1, CloseWeights, WeightTypes
  <2>3. /\ RateSum(leg) \in Int /\ OpeningSum(leg) \in Int
        /\ n * r \in Int /\ X \in Int /\ X - n * r \in Int
        /\ QuasiHypotheticalInterestTotal(si, now) \in Int
    <3>1. QuasiHypotheticalInterestTotal(si, now) \in Int
      BY <1>1, LegTypes DEF QuasiHypotheticalInterestTotal, QuasiHypotheticalInterestDelta
    <3> QED BY <1>1, <1>2, <3>1, SumTypes
  <2>4. si.totalNotional - n \in Nat \ {0} /\ si.totalNotional # 0
    BY <1>2, <1>3, <1>5
  <2>5. soap'[leg].qhic - D18 * (now * RateSum(leg)' - OpeningSum(leg)')
           = QuasiHypotheticalInterestTotal(si, now)
                 - D18 * (now * RateSum(leg) - OpeningSum(leg))
    <3>1. \A q, y, t, u, d, w, v \in Int :
              (q - y * (t - u) * d) - d * (t * (w - y) - (v - y * u)) = q - d * (t * w - v)
      BY SMT
    <3> DEFINE y == n * r
    <3>2. y \in Int
      BY <2>3
    <3> HIDE DEF y, n, o
    <3> QED BY <1>2, <2>1, <2>2, <2>3, <3>1, <3>2 DEF y
  <2>6. (X - n * r) - RateSum(leg)' = RateError(leg)
    BY <2>2, <2>3 DEF RateError
  <2>7. soap'[leg] = si => RateSum(leg)' = RateSum(leg)
    <3>1. soap'[leg] = si => n = 0
      BY <1>2, <2>1
    <3> QED BY <1>2, <2>2, <2>3, <3>1
  <2>8. RateSum(leg)' \in Int
    BY <2>2, <2>3
  <2> DEFINE x == X - n * r
  <2> HIDE DEF n, r, X, x
  <2>9. x \in Int /\ x - RateSum(leg)' = RateError(leg)
        /\ soap'[leg].averageInterestRate = Division(x, soap'[leg].totalNotional)
    BY <2>1, <2>3, <2>6 DEF x
  <2> QED BY <2>1, <2>4, <2>5, <2>7, <2>8, <2>9, RebalancedLeg
<1> QED BY <1>4, <1>5

-----------------------------------------------------------------------------
(* The step *)

LEMMA TimeDoesNotTurnBack == StorageInv /\ Next => now <= now'
<1>1. StorageInv => now \in Nat
  BY StorageAssumption DEF StorageInv, TypeOK, UInt32
<1> QED BY <1>1
     DEF Next, Open, Close, Withdraw, Deposit, Provide, Redeem, TransferToCharlie,
         TransferToTreasury, Administer, Tick

(* The types of a leg in the state after a step. *)
LEMMA NotionalAfter == (StorageInv => \A leg \in Leg : soap[leg].totalNotional \in Nat)'
<1>1. StorageInv => \A leg \in Leg : soap[leg].totalNotional \in Nat
  BY LegTypes
<1> QED BY <1>1, PTL

LEMMA DriftGrows ==
    ASSUME DriftInv, NEW leg \in Leg
    PROVE  InterestDriftAt(leg, now) \in Nat
<1>1. /\ now \in Nat /\ soap[leg].rebalanceTimestamp \in Nat
      /\ soap[leg].rebalanceTimestamp <= now
  BY LegTypes DEF DriftInv, SumsInv, NothingFromTheFuture
<1>2. rateDrift[leg] \in Nat /\ interestDrift[leg] \in Nat
  BY DEF DriftInv, DriftTypeOK
<1> DEFINE s == now - soap[leg].rebalanceTimestamp
<1>3. s \in Nat
  BY <1>1
<1> HIDE DEF s
<1>4. rateDrift[leg] * s \in Nat
  BY <1>2, <1>3, ProductOfNaturals
<1> QED BY <1>2, <1>4 DEF InterestDriftAt, s

LEMMA DriftTyped == DriftInv /\ StorageInv' /\ RecordDrift => DriftTypeOK'
<1> SUFFICES ASSUME DriftInv, StorageInv', RecordDrift PROVE DriftTypeOK'
  OBVIOUS
<1>1. \A leg \in Leg : soap'[leg].totalNotional \in Nat
  BY NotionalAfter
<1>2. \A leg \in Leg : InterestDriftAt(leg, now) \in Nat
  BY DriftGrows
<1>3. \A leg \in Leg : rateDrift[leg] \in Nat /\ interestDrift[leg] \in Nat
  BY DEF DriftInv, DriftTypeOK
<1> QED BY <1>1, <1>2, <1>3 DEF RecordDrift, DriftTypeOK

LEMMA NextKeepsDrift == DriftInv /\ DriftNext => DriftInv'
<1> SUFFICES ASSUME DriftInv, Next, RecordDrift PROVE DriftInv'
  BY DEF DriftNext
<1>1. StorageInv /\ SumsInv /\ SumsInv' /\ StorageInv'
  BY NextKeepsSums DEF DriftInv, SumsInv
<1>2. DriftTypeOK'
  BY <1>1, DriftTyped
<1>3. now \in Nat /\ now' \in Nat /\ now <= now'
  BY <1>1, TimeDoesNotTurnBack, StorageAssumption DEF StorageInv, TypeOK, UInt32
<1>4. \A leg \in Leg : /\ soap[leg].rebalanceTimestamp \in Nat
                       /\ \A id \in SwapId : swaps[leg][id].openTimestamp \in Nat
  BY <1>1, LegTypes
<1>5. ASSUME NEW leg \in Leg, swaps'[leg] = swaps[leg], soap'[leg] = soap[leg]
      PROVE  /\ LegFollowed(leg)'
             /\ soap'[leg].rebalanceTimestamp <= now'
             /\ \A id \in SwapId : swaps'[leg][id].openTimestamp <= now'
             /\ soap'[leg].totalNotional = 0 =>
                    soap'[leg].qhic = 0 /\ soap'[leg].averageInterestRate = 0
  <2>1. LegFollowed(leg)'
    BY <1>5, UntouchedLeg
  <2> QED BY <1>3, <1>4, <1>5, <2>1 DEF DriftInv, NothingFromTheFuture, EmptyLegIsClean
<1>6. ASSUME NEW caller, NEW leg \in Leg, NEW terms \in SwapTerms, NEW buyer \in Account,
             UpdateStorageWhenOpenSwap(caller, leg, NewSwap(terms, buyer), PUBLICATION_FEE),
             UNCHANGED now
      PROVE  DriftInv'
  <2>1. /\ LegFollowed(leg)'
        /\ soap'[leg].totalNotional # 0
        /\ soap'[leg].rebalanceTimestamp = now
    BY <1>1, <1>6, OpenFollowed
  <2>2. /\ \A l \in Leg \ {leg} : swaps'[l] = swaps[l] /\ soap'[l] = soap[l]
        /\ \A id \in SwapId : \/ swaps'[leg][id].openTimestamp = now
                              \/ swaps'[leg][id] = swaps[leg][id]
    BY <1>1, <1>6, OpenAddsSwap
  <2>3. \A id \in SwapId : swaps'[leg][id].openTimestamp <= now'
    BY <1>3, <1>6, <2>2 DEF DriftInv, NothingFromTheFuture
  <2>4. \A l \in Leg : LegFollowed(l)'
    BY <1>5, <2>1, <2>2
  <2>5. NothingFromTheFuture'
    BY <1>3, <1>5, <1>6, <2>1, <2>2, <2>3 DEF NothingFromTheFuture
  <2>6. EmptyLegIsClean'
    BY <1>5, <2>1, <2>2 DEF EmptyLegIsClean
  <2> QED BY <1>1, <1>2, <2>4, <2>5, <2>6 DEF DriftInv
<1>7. ASSUME NEW caller, NEW leg \in Leg, NEW id \in SwapId, NEW liquidator,
             NEW payoff, NEW fee,
             UpdateStorageWhenCloseSwap(caller, leg, liquidator, swaps[leg][id],
                                        payoff, fee, now),
             UNCHANGED now
      PROVE  DriftInv'
  <2>1. /\ LegFollowed(leg)'
        /\ soap'[leg].totalNotional = 0 =>
              soap'[leg].qhic = 0 /\ soap'[leg].averageInterestRate = 0
        /\ soap'[leg].rebalanceTimestamp = now
    BY <1>1, <1>7, CloseFollowed
  <2>2. /\ \A l \in Leg \ {leg} : swaps'[l] = swaps[l] /\ soap'[l] = soap[l]
        /\ \A j \in SwapId : swaps'[leg][j].openTimestamp = swaps[leg][j].openTimestamp
    BY <1>1, <1>7, CloseTakesSwap
  <2>3. \A j \in SwapId : swaps'[leg][j].openTimestamp <= now'
    BY <1>3, <1>7, <2>2 DEF DriftInv, NothingFromTheFuture
  <2>4. \A l \in Leg : LegFollowed(l)'
    BY <1>5, <2>1, <2>2
  <2>5. NothingFromTheFuture'
    BY <1>3, <1>5, <1>7, <2>1, <2>2, <2>3 DEF NothingFromTheFuture
  <2>6. EmptyLegIsClean'
    BY <1>5, <2>1, <2>2 DEF EmptyLegIsClean
  <2> QED BY <1>1, <1>2, <2>4, <2>5, <2>6 DEF DriftInv
<1>8. ASSUME UNCHANGED <<swaps, soap>>
      PROVE  DriftInv'
  <2>1. \A l \in Leg : LegFollowed(l)'
    BY <1>5, <1>8
  <2>2. NothingFromTheFuture'
    BY <1>5, <1>8 DEF NothingFromTheFuture
  <2>3. EmptyLegIsClean'
    BY <1>5, <1>8 DEF EmptyLegIsClean
  <2> QED BY <1>1, <1>2, <2>1, <2>2, <2>3 DEF DriftInv
<1> QED BY <1>1, <1>6, <1>7, <1>8, StepKinds

LEMMA StutterKeepsDrift == DriftInv /\ UNCHANGED driftVars => DriftInv'
<1> SUFFICES ASSUME DriftInv, UNCHANGED driftVars PROVE DriftInv'
  OBVIOUS
<1>1. UNCHANGED <<vars, swaps, soap, now, rateDrift, interestDrift>>
  BY DEF driftVars, vars, storageVars, bookVars
<1>2. SumsInv'
  BY <1>1, NextKeepsSums DEF DriftInv
<1>3. \A leg \in Leg : LegFollowed(leg)'
  BY <1>1, SameSwapsSameWeights DEF DriftInv, LegFollowed, RateError, InterestError
<1> QED BY <1>1, <1>2, <1>3
     DEF DriftInv, DriftTypeOK, NothingFromTheFuture, EmptyLegIsClean

LEMMA InitDrift == DriftInit => DriftInv
<1> SUFFICES ASSUME DriftInit PROVE DriftInv
  OBVIOUS
<1>1. SumsInv
  BY InitSums DEF DriftInit
<1>2. \A leg \in Leg : soap[leg] = EmptyIndicators /\ \A id \in SwapId : swaps[leg][id] = NoSwap
  BY DEF DriftInit, Init, StorageInit, BooksInit
<1>3. now = 0 /\ DriftTypeOK
  BY DEF DriftInit, Init, DriftTypeOK
<1>4. NothingFromTheFuture /\ EmptyLegIsClean
  BY <1>2, <1>3 DEF NothingFromTheFuture, EmptyLegIsClean, EmptyIndicators, NoSwap
<1>5. ASSUME NEW leg \in Leg PROVE LegFollowed(leg)
  <2>1. rateDrift[leg] = 0 /\ interestDrift[leg] = 0
    BY DEF DriftInit
  <2>2. RateSum(leg) = 0 /\ OpeningSum(leg) = 0
    BY <1>1, <1>2, NothingWeighed DEF EmptyIndicators
  <2>3. D18 \in Int
    BY D18Assumption
  <2>4. RateError(leg) = 0 /\ InterestError(leg) = 0 /\ D18 * 0 = 0
    BY <1>2, <2>2, <2>3 DEF RateError, InterestError, EmptyIndicators
  <2> QED BY <2>1, <2>4 DEF LegFollowed, Within
<1> QED BY <1>1, <1>3, <1>4, <1>5 DEF DriftInv

LEMMA DriftInvAlways == DriftSpec => []DriftInv
<1>1. DriftInv /\ [DriftNext]_driftVars => DriftInv'
  BY NextKeepsDrift, StutterKeepsDrift
<1> QED BY <1>1, InitDrift, PTL DEF DriftSpec

-----------------------------------------------------------------------------
(* The sum of the payoffs *)

(* The interest at the fixed rates, from the two sums that the indicators follow. *)
LEMMA FixedInterestSum ==
    ASSUME StorageInv, NEW leg \in Leg
    PROVE  /\ SumFunctionOnSet(FixedInterest(leg), ActiveIds(leg))
                  = now * RateSum(leg) - OpeningSum(leg)
           /\ \A id \in ActiveIds(leg) : FixedInterest(leg)[id] \in Int
<1> DEFINE A == ActiveIds(leg)
           w == RateWeight(leg)
           o == Opening(leg)
           h == FixedInterest(leg)
<1>1. IsFiniteSet(A) /\ A \subseteq SwapId
  BY ActiveIdsFinite
<1>2. now \in Int /\ -1 \in Int
  BY LegTypes
<1>3. \A x, t, u \in Int : x * (t - u) = t * x + (-1) * (x * u)
  OBVIOUS
<1>4. ASSUME NEW id \in A
      PROVE  w[id] \in Int /\ o[id] \in Int /\ h[id] = now * w[id] + (-1) * o[id]
  <2>1. /\ w[id] \in Int /\ o[id] \in Int
        /\ w[id] = swaps[leg][id].notional * swaps[leg][id].fixedInterestRate
        /\ o[id] = swaps[leg][id].notional * swaps[leg][id].fixedInterestRate
                       * swaps[leg][id].openTimestamp
    BY <1>1, WeightTypes
  <2>2. h[id] = swaps[leg][id].notional * swaps[leg][id].fixedInterestRate
                    * (now - swaps[leg][id].openTimestamp)
    BY <1>1 DEF FixedInterest
  <2>3. swaps[leg][id].openTimestamp \in Int
    BY <1>1, LegTypes
  <2> HIDE DEF w, o, h
  <2> QED BY <1>2, <1>3, <2>1, <2>2, <2>3
<1> HIDE DEF A, w, o, h
<1>5. SumFunctionOnSet(h, A) = now * SumFunctionOnSet(w, A) + (-1) * SumFunctionOnSet(o, A)
  BY <1>1, <1>2, <1>4, SumIsLinear
<1>6. SumFunctionOnSet(w, A) \in Int /\ SumFunctionOnSet(o, A) \in Int
  BY <1>1, <1>4, SumType
<1>7. \A i, j \in Int : i * j \in Int
  OBVIOUS
<1>8. \A x, y \in Int : x + (-1) * y = x - y
  OBVIOUS
<1>9. \A id \in A : h[id] \in Int
  BY <1>2, <1>4, <1>7
<1> QED BY <1>2, <1>5, <1>6, <1>7, <1>8, <1>9 DEF RateSum, OpeningSum, A, w, o, h

(* What the swaps of a leg are worth, before the fixed interest. *)
Principal(leg, ibtPrice) ==
    [id \in SwapId |-> ibtPrice * YEAR_IN_SECONDS * IbtQuantity(leg)[id]
                           + (-WAD_YEAR_IN_SECONDS) * Notional(leg)[id]]

LEMMA PrincipalSum ==
    ASSUME SumsInv, NEW leg \in Leg, NEW ibtPrice \in Nat
    PROVE  /\ SumFunctionOnSet(Principal(leg, ibtPrice), ActiveIds(leg))
                  = ibtPrice * YEAR_IN_SECONDS * soap[leg].totalIbtQuantity
                        + (-WAD_YEAR_IN_SECONDS) * soap[leg].totalNotional
           /\ \A id \in ActiveIds(leg) : Principal(leg, ibtPrice)[id] \in Int
<1> DEFINE A == ActiveIds(leg)
           q == IbtQuantity(leg)
           n == Notional(leg)
           h == Principal(leg, ibtPrice)
           a == ibtPrice * YEAR_IN_SECONDS
           b == -WAD_YEAR_IN_SECONDS
<1>1. IsFiniteSet(A) /\ A \subseteq SwapId /\ StorageInv
  BY ActiveIdsFinite DEF SumsInv
<1>2. a \in Int /\ b \in Int
  BY YearAssumption, WadYearPositive
<1>3. \A id \in A : q[id] \in Int /\ n[id] \in Int
  BY <1>1, LegTypes DEF IbtQuantity, Notional
<1>4. \A id \in A : h[id] = a * q[id] + b * n[id]
  BY <1>1 DEF Principal
<1>5. /\ SumFunctionOnSet(q, A) = soap[leg].totalIbtQuantity
      /\ SumFunctionOnSet(n, A) = soap[leg].totalNotional
  BY DEF SumsInv, SoapTotalsBacked
<1> HIDE DEF A, q, n, h, a, b
<1>6. SumFunctionOnSet(h, A) = a * SumFunctionOnSet(q, A) + b * SumFunctionOnSet(n, A)
  BY <1>1, <1>2, <1>3, <1>4, SumIsLinear
<1>7. \A id \in A : h[id] \in Int
  BY <1>2, <1>3, <1>4
<1> QED BY <1>5, <1>6, <1>7 DEF A, h, a, b

(* The payoffs add up to the principal less the fixed interest, or the other
   way round for the receivers of the fixed rate. *)
LEMMA PayoffSum ==
    ASSUME SumsInv, NEW leg \in Leg, NEW ibtPrice \in Nat
    PROVE  LET principal == SumFunctionOnSet(Principal(leg, ibtPrice), ActiveIds(leg))
               interest  == SumFunctionOnSet(FixedInterest(leg), ActiveIds(leg))
           IN  /\ principal \in Int /\ interest \in Int
               /\ SumFunctionOnSet(Payoff(leg, ibtPrice), ActiveIds(leg))
                      = IF leg = PayFixed THEN principal - interest
                                          ELSE interest - principal
<1> DEFINE A == ActiveIds(leg)
           p == Principal(leg, ibtPrice)
           i == FixedInterest(leg)
           h == Payoff(leg, ibtPrice)
           s == IF leg = PayFixed THEN 1 ELSE -1
           m == -s
<1>1. IsFiniteSet(A) /\ A \subseteq SwapId /\ StorageInv
  BY ActiveIdsFinite DEF SumsInv
<1>2. s \in Int /\ m \in Int
  OBVIOUS
<1>3. \A id \in A : p[id] \in Int /\ i[id] \in Int
  BY <1>1, FixedInterestSum, PrincipalSum
<1>4. ASSUME NEW id \in A
      PROVE  h[id] = s * p[id] + m * i[id]
  <2> DEFINE sw == swaps[leg][id]
             t  == now - sw.openTimestamp
  <2>1. sw.notional \in Int /\ sw.fixedInterestRate \in Int /\ sw.ibtQuantity \in Int
        /\ t \in Int /\ YEAR_IN_SECONDS \in Int /\ WAD_YEAR_IN_SECONDS \in Int
    BY <1>1, LegTypes, YearAssumption, WadYearPositive
  <2>2. i[id] = sw.notional * sw.fixedInterestRate * t
    BY <1>1 DEF FixedInterest
  <2>3. p[id] = ibtPrice * YEAR_IN_SECONDS * sw.ibtQuantity
                    + (-WAD_YEAR_IN_SECONDS) * sw.notional
    BY <1>1 DEF Principal, IbtQuantity, Notional
  <2>4. h[id] = IF leg = PayFixed
                THEN sw.ibtQuantity * ibtPrice * YEAR_IN_SECONDS
                         - (sw.notional * WAD_YEAR_IN_SECONDS
                                + sw.notional * sw.fixedInterestRate * t)
                ELSE (sw.notional * WAD_YEAR_IN_SECONDS
                          + sw.notional * sw.fixedInterestRate * t)
                         - sw.ibtQuantity * ibtPrice * YEAR_IN_SECONDS
    <3>1. h[id] = QuasiPayoff(leg, sw, now, ibtPrice)
      BY <1>1 DEF Payoff
    <3>2. CASE leg = PayFixed
      BY <3>1, <3>2 DEF QuasiPayoff, QuasiInterestFixed, QuasiInterestFloating
    <3>3. CASE leg # PayFixed
      BY <3>1, <3>3 DEF QuasiPayoff, QuasiInterestFixed, QuasiInterestFloating
    <3> QED BY <3>2, <3>3
  <2>5. \A q, u, y, n, w, r, v \in Int :
           /\ q * u * y - (n * w + n * r * v)
                = 1 * (u * y * q + (-w) * n) + (-1) * (n * r * v)
           /\ (n * w + n * r * v) - q * u * y
                = (-1) * (u * y * q + (-w) * n) + 1 * (n * r * v)
    BY SMT
  <2>6. /\ h[id] = 1 * p[id] + (-1) * i[id]    \/ leg # PayFixed
        /\ h[id] = (-1) * p[id] + 1 * i[id] \/ leg = PayFixed
    <3> HIDE DEF sw, t, h, p, i
    <3> QED BY <2>1, <2>2, <2>3, <2>4, <2>5
  <2> HIDE DEF h, p, i
  <2> QED BY <2>6
<1> HIDE DEF A, p, i, h, s, m
<1>5. SumFunctionOnSet(h, A) = s * SumFunctionOnSet(p, A) + m * SumFunctionOnSet(i, A)
  <2>1. \A id \in A : p[id] \in Int /\ i[id] \in Int /\ h[id] = s * p[id] + m * i[id]
    BY <1>3, <1>4
  <2> QED BY <1>1, <1>2, <2>1, SumIsLinear
<1>6. SumFunctionOnSet(p, A) \in Int /\ SumFunctionOnSet(i, A) \in Int
  BY <1>1, <1>3, SumType
<1> QED BY <1>5, <1>6 DEF A, p, i, h, s, m

LEMMA AbsoluteWithin == \A x, e \in Int : Within(x, e) => 2 * AbsoluteValue(x) <= e
                                              /\ 2 * AbsoluteValue(-x) <= e
  BY DEF Within, AbsoluteValue

(* For any swaps, in any number and at any price and time: SOAP is the sum of
   the payoffs up to the roundings since the leg was last empty.  Rebalancing
   never loses or repeats the interest of a swap. *)
THEOREM SoapAlwaysSumOfPayoffs == DriftSpec => []SoapIsSumOfPayoffs
<1>1. ASSUME DriftInv, NEW leg \in Leg, NEW ibtPrice \in IbtPrices
      PROVE  2 * AbsoluteValue(QuasiSoap(leg, soap[leg], now, ibtPrice)
                    - D18 * SumFunctionOnSet(Payoff(leg, ibtPrice), ActiveIds(leg)))
                 <= D18 * InterestDriftAt(leg, now)
  <2> DEFINE P == SumFunctionOnSet(Principal(leg, ibtPrice), ActiveIds(leg))
             F == SumFunctionOnSet(FixedInterest(leg), ActiveIds(leg))
             S == SumFunctionOnSet(Payoff(leg, ibtPrice), ActiveIds(leg))
             H == QuasiHypotheticalInterestTotal(soap[leg], now)
             n == soap[leg].totalNotional
             q == soap[leg].totalIbtQuantity
             E == D18 * InterestDriftAt(leg, now)
             C == QuasiSoap(leg, soap[leg], now, ibtPrice)
  <2>1. SumsInv /\ StorageInv /\ ibtPrice \in Nat
    BY <1>1, SpecAssumption DEF DriftInv, SumsInv
  <2>2. /\ n \in Int /\ q \in Int /\ H \in Int /\ E \in Int
        /\ D18 \in Int /\ YEAR_IN_SECONDS \in Int
    <3>1. InterestDriftAt(leg, now) \in Nat
      BY <1>1, DriftGrows
    <3>2. H \in Int
      BY <2>1, LegTypes DEF QuasiHypotheticalInterestTotal, QuasiHypotheticalInterestDelta
    <3> HIDE DEF H
    <3> QED BY <2>1, <3>1, <3>2, LegTypes, D18Assumption, YearAssumption
  <2>3. /\ P \in Int /\ F \in Int
        /\ S = IF leg = PayFixed THEN P - F ELSE F - P
    BY <2>1, PayoffSum
  <2>4. P = ibtPrice * YEAR_IN_SECONDS * q + (-(D18 * YEAR_IN_SECONDS)) * n
    BY <2>1, PrincipalSum DEF WAD_YEAR_IN_SECONDS
  <2>5. Within(H - D18 * F, E)
    <3>1. F = now * RateSum(leg) - OpeningSum(leg)
      BY <2>1, FixedInterestSum
    <3>2. Within(H - D18 * (now * RateSum(leg) - OpeningSum(leg)), E)
      BY <1>1, InterestFollowed
    <3> HIDE DEF F, H, E
    <3> QED BY <3>1, <3>2
  <2>6. C = IF leg = PayFixed
            THEN q * ibtPrice * (D18 * YEAR_IN_SECONDS)
                     - (n * (D18 * D18 * YEAR_IN_SECONDS) + H)
            ELSE (n * (D18 * D18 * YEAR_IN_SECONDS) + H)
                     - q * ibtPrice * (D18 * YEAR_IN_SECONDS)
    <3> HIDE DEF H
    <3>1. CASE leg = PayFixed
      BY <3>1 DEF QuasiSoap, WAD_YEAR_IN_SECONDS, WAD_P2_YEAR_IN_SECONDS, H
    <3>2. CASE leg # PayFixed
      BY <3>2 DEF QuasiSoap, WAD_YEAR_IN_SECONDS, WAD_P2_YEAR_IN_SECONDS, H
    <3> QED BY <3>1, <3>2
  <2> HIDE DEF P, F, S, H, n, q, E, C
  <2>7. \A x, y, d, u, v, f, m \in Int :
            /\ x * y * (d * u) - (v * (d * d * u) + f)
                   - d * ((y * u * x + (-(d * u)) * v) - m) = -(f - d * m)
            /\ ((v * (d * d * u) + f) - x * y * (d * u))
                   - d * (m - (y * u * x + (-(d * u)) * v)) = f - d * m
    BY SMT
  <2>8. \/ C - D18 * S = H - D18 * F
        \/ C - D18 * S = -(H - D18 * F)
    <3>1. CASE leg = PayFixed
      <4>1. S = P - F /\ C = q * ibtPrice * (D18 * YEAR_IN_SECONDS)
                                 - (n * (D18 * D18 * YEAR_IN_SECONDS) + H)
        BY <2>3, <2>6, <3>1
      <4> QED BY <2>1, <2>2, <2>3, <2>4, <2>7, <4>1
    <3>2. CASE leg # PayFixed
      <4>1. S = F - P /\ C = (n * (D18 * D18 * YEAR_IN_SECONDS) + H)
                                 - q * ibtPrice * (D18 * YEAR_IN_SECONDS)
        BY <2>3, <2>6, <3>2
      <4> QED BY <2>1, <2>2, <2>3, <2>4, <2>7, <4>1
    <3> QED BY <3>1, <3>2
  <2>9. H - D18 * F \in Int
    BY <2>2, <2>3
  <2>10. 2 * AbsoluteValue(C - D18 * S) <= E
    BY <2>2, <2>5, <2>8, <2>9, AbsoluteWithin
  <2> QED BY <2>10 DEF C, S, E
<1>2. DriftInv => SoapIsSumOfPayoffs
  BY <1>1 DEF SoapIsSumOfPayoffs
<1> QED BY <1>2, DriftInvAlways, PTL

-----------------------------------------------------------------------------
(* Closing is never blocked by more than the roundings *)

(* The totals of a leg cover each of its active swaps. *)
LEMMA TotalsCoverSwap ==
    ASSUME SumsInv, NEW leg \in Leg, NEW id \in ActiveIds(leg)
    PROVE  /\ swaps[leg][id].notional <= soap[leg].totalNotional
           /\ swaps[leg][id].ibtQuantity <= soap[leg].totalIbtQuantity
<1> DEFINE A == ActiveIds(leg)
           q == IbtQuantity(leg)
           n == Notional(leg)
<1>1. IsFiniteSet(A) /\ A \subseteq SwapId /\ StorageInv
  BY ActiveIdsFinite DEF SumsInv
<1>2. \A j \in A : n[j] \in Nat
  BY <1>1, LegTypes DEF Notional
<1>3. \A j \in A : q[j] \in Nat
  BY <1>1, LegTypes DEF IbtQuantity
<1>4. /\ n[id] = swaps[leg][id].notional
      /\ q[id] = swaps[leg][id].ibtQuantity
  BY <1>1 DEF Notional, IbtQuantity
<1>5. /\ SumFunctionOnSet(q, A) = soap[leg].totalIbtQuantity
      /\ SumFunctionOnSet(n, A) = soap[leg].totalNotional
  BY DEF SumsInv, SoapTotalsBacked
<1>6. id \in A
  OBVIOUS
<1> HIDE DEF A, q, n
<1>7. n[id] <= SumFunctionOnSet(n, A) /\ q[id] <= SumFunctionOnSet(q, A)
  BY <1>1, <1>2, <1>3, <1>6, SumOfNaturals
<1> QED BY <1>4, <1>5, <1>7

(* A sum over the leg is the share of one swap and that of the others. *)
LEMMA SharesOfOthers ==
    ASSUME StorageInv, NEW leg \in Leg, NEW id \in ActiveIds(leg)
    PROVE  LET others == ActiveIds(leg) \ {id}
           IN  /\ SumFunctionOnSet(RateWeight(leg), others) \in Int
               /\ SumFunctionOnSet(FixedInterest(leg), others) \in Int
               /\ RateSum(leg) = RateWeight(leg)[id]
                                     + SumFunctionOnSet(RateWeight(leg), others)
               /\ SumFunctionOnSet(FixedInterest(leg), ActiveIds(leg))
                      = FixedInterest(leg)[id]
                            + SumFunctionOnSet(FixedInterest(leg), others)
<1> DEFINE A == ActiveIds(leg)
           w == RateWeight(leg)
           i == FixedInterest(leg)
           R == A \ {id}
<1>1. IsFiniteSet(A) /\ A \subseteq SwapId /\ id \in A
  BY ActiveIdsFinite
<1>2. \A j \in A : w[j] \in Int
  BY <1>1, WeightTypes
<1>3. \A j \in A : i[j] \in Int
  BY FixedInterestSum
<1>4. RateSum(leg) = SumFunctionOnSet(w, A)
  BY DEF RateSum
<1> HIDE DEF A, w, i
<1>5. /\ SumFunctionOnSet(w, A) = w[id] + SumFunctionOnSet(w, A \ {id})
      /\ SumFunctionOnSet(i, A) = i[id] + SumFunctionOnSet(i, A \ {id})
  BY <1>1, <1>2, <1>3, SumRemove
<1>6. IsFiniteSet(R) /\ \A j \in R : j \in A
  BY <1>1, FS_Subset
<1> HIDE DEF R
<1>7. (\A j \in R : w[j] \in Int) /\ \A j \in R : i[j] \in Int
  BY <1>2, <1>3, <1>6
<1>8. SumFunctionOnSet(w, R) \in Int
  BY <1>6, <1>7, SumType
<1>9. SumFunctionOnSet(i, R) \in Int
  BY <1>6, <1>7, SumType
<1> QED BY <1>4, <1>5, <1>8, <1>9 DEF A, w, i, R

(* Closing a swap is never blocked by the checked subtractions of a rebalance
   as long as the other swaps of the leg outweigh the recorded roundings: no
   order of opening and closing makes the indicators fall behind by more. *)
THEOREM SoapBlocksAlwaysWithinRounding == DriftSpec => []SoapBlocksOnlyWithinRounding
<1>1. ASSUME DriftInv, NEW leg \in Leg, NEW id \in ActiveIds(leg),
             2 * SumFunctionOnSet(RateWeight(leg), ActiveIds(leg) \ {id}) >= rateDrift[leg],
             2 * SumFunctionOnSet(FixedInterest(leg), ActiveIds(leg) \ {id})
                 >= InterestDriftAt(leg, now)
      PROVE  CanRebalanceWhenCloseSwap(soap[leg], swaps[leg][id], now)
  <2> DEFINE wo == SumFunctionOnSet(RateWeight(leg), ActiveIds(leg) \ {id})
             io == SumFunctionOnSet(FixedInterest(leg), ActiveIds(leg) \ {id})
             w  == RateWeight(leg)[id]
             i  == FixedInterest(leg)[id]
             F  == SumFunctionOnSet(FixedInterest(leg), ActiveIds(leg))
             H  == QuasiHypotheticalInterestTotal(soap[leg], now)
             X  == soap[leg].totalNotional * soap[leg].averageInterestRate
             e  == rateDrift[leg]
             f  == InterestDriftAt(leg, now)
  <2>1. SumsInv /\ StorageInv /\ LegFollowed(leg) /\ id \in SwapId
    BY <1>1, ActiveIdsFinite DEF DriftInv, SumsInv
  <2>2. /\ soap[leg].rebalanceTimestamp <= now
        /\ swaps[leg][id].openTimestamp <= now
        /\ soap[leg].rebalanceTimestamp \in Nat
        /\ swaps[leg][id].openTimestamp \in Nat
        /\ now \in Nat
    BY <1>1, <2>1, LegTypes DEF DriftInv, NothingFromTheFuture
  <2>3. /\ swaps[leg][id].notional <= soap[leg].totalNotional
        /\ swaps[leg][id].ibtQuantity <= soap[leg].totalIbtQuantity
    BY <1>1, <2>1, TotalsCoverSwap
  <2>4. /\ wo \in Int /\ io \in Int
        /\ RateSum(leg) = w + wo
        /\ F = i + io
    BY <1>1, <2>1, SharesOfOthers
  <2>5. e \in Int /\ f \in Int /\ D18 \in Nat /\ X \in Int /\ H \in Int
    <3>1. e \in Int /\ f \in Int
      BY <1>1, DriftGrows DEF DriftInv, DriftTypeOK
    <3>2. H \in Int /\ X \in Int
      BY <2>1, LegTypes DEF QuasiHypotheticalInterestTotal, QuasiHypotheticalInterestDelta
    <3> HIDE DEF e, f, H, X
    <3> QED BY <3>1, <3>2, D18Assumption
  <2>6. w \in Int /\ i \in Int
        /\ w = swaps[leg][id].notional * swaps[leg][id].fixedInterestRate
        /\ i = swaps[leg][id].notional * swaps[leg][id].fixedInterestRate
                   * (now - swaps[leg][id].openTimestamp)
    <3>1. w \in Int /\ w = swaps[leg][id].notional * swaps[leg][id].fixedInterestRate
      BY <2>1, WeightTypes
    <3>2. i \in Int
      BY <1>1, <2>1, FixedInterestSum
    <3>3. i = swaps[leg][id].notional * swaps[leg][id].fixedInterestRate
                  * (now - swaps[leg][id].openTimestamp)
      BY <2>1 DEF FixedInterest
    <3> QED BY <3>1, <3>2, <3>3
  <2>7. Within(X - RateSum(leg), e)
    BY <2>1 DEF LegFollowed, RateError
  <2>8. Within(H - D18 * F, D18 * f)
    <3>1. F = now * RateSum(leg) - OpeningSum(leg)
      BY <1>1, <2>1, FixedInterestSum
    <3>2. Within(H - D18 * (now * RateSum(leg) - OpeningSum(leg)), D18 * f)
      BY <1>1, InterestFollowed
    <3> HIDE DEF F, H, f
    <3> QED BY <3>1, <3>2
  <2>9. 2 * wo >= e /\ 2 * io >= f
    BY <1>1
  <2>10. /\ WeightAfterClose(soap[leg], swaps[leg][id]) = X - w
         /\ QuasiInterestAfterClose(soap[leg], swaps[leg][id], now) = H - i * D18
    BY <2>6 DEF WeightAfterClose, QuasiInterestAfterClose, QuasiInterestPaidOut
  <2> HIDE DEF wo, io, w, i, F, H, X, e, f
  <2>11. X - w >= 0
    <3>1. -e <= 2 * (X - (w + wo))
      BY <2>4, <2>7 DEF Within
    <3> QED BY <2>4, <2>5, <2>6, <2>9, <3>1
  <2>12. H - i * D18 >= 0
    <3>1. D18 * f <= D18 * (2 * io) /\ 2 * io \in Int
      BY <2>4, <2>5, <2>9, ProductMonotonic
    <3>2. -(D18 * f) <= 2 * (H - D18 * (i + io))
      BY <2>4, <2>8 DEF Within
    <3>3. D18 * (i + io) = i * D18 + D18 * io /\ D18 * (2 * io) = 2 * (D18 * io)
      BY <2>4, <2>5, <2>6
    <3> DEFINE a == D18 * f
               b == D18 * io
               c == i * D18
    <3>4. a \in Int /\ b \in Int /\ c \in Int
      BY <2>4, <2>5, <2>6
    <3>5. a <= 2 * b /\ -a <= 2 * (H - (c + b))
      BY <3>1, <3>2, <3>3
    <3> HIDE DEF a, b, c
    <3>6. H - c >= 0
      BY <2>5, <3>4, <3>5
    <3> QED BY <3>6 DEF c
  <2> QED BY <2>2, <2>3, <2>10, <2>11, <2>12 DEF CanRebalanceWhenCloseSwap
<1>2. DriftInv => SoapBlocksOnlyWithinRounding
  BY <1>1 DEF SoapBlocksOnlyWithinRounding
<1> QED BY <1>2, DriftInvAlways, PTL
=============================================================================
