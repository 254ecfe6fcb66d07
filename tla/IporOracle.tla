----------------------------- MODULE IporOracle -----------------------------
(***************************************************************************)
(* The IPOR index of each asset: contracts/oracles/IporOracle.sol and its  *)
(* libraries IporLogic and DecayFactorCalculation.  Updaters publish the   *)
(* value of the index; from it the oracle accrues the price of the         *)
(* interest bearing token (IBT) that payoffs and SOAP are computed with,   *)
(* and an exponential moving average and variance for the spread.          *)
(***************************************************************************)
EXTENDS IporMath, IporOwnable, Sequences

CONSTANTS
    Asset,
    MAX_UINT32, MAX_UINT64, MAX_UINT128,
    \* The three lines of the decay factor, which is 0 after the third.
    END_INTERVAL_ONE, END_INTERVAL_TWO, END_INTERVAL_THREE,
    SLOPE_FACTOR_ONE, SLOPE_FACTOR_TWO, SLOPE_FACTOR_THREE,
    BASE_ONE, BASE_TWO, BASE_THREE

LinearFunction(slope, base, variable) == slope * variable + base

(* The lines fall, the first one from 1.0; each begins no higher than 1.0 and
   none is below zero before it ends. *)
ASSUME DecayAssumption ==
    /\ {END_INTERVAL_ONE, END_INTERVAL_TWO, END_INTERVAL_THREE} \subseteq Nat \ {0}
    /\ {SLOPE_FACTOR_ONE, SLOPE_FACTOR_TWO, SLOPE_FACTOR_THREE,
        BASE_ONE, BASE_TWO, BASE_THREE} \subseteq Int
    /\ SLOPE_FACTOR_ONE <= 0 /\ SLOPE_FACTOR_TWO <= 0 /\ SLOPE_FACTOR_THREE <= 0
    /\ BASE_ONE = D18
    /\ BASE_TWO <= D18 /\ BASE_THREE <= D18
    /\ LinearFunction(SLOPE_FACTOR_ONE, BASE_ONE, END_INTERVAL_ONE - 1) >= 0
    /\ LinearFunction(SLOPE_FACTOR_TWO, BASE_TWO, END_INTERVAL_TWO - 1) >= 0
    /\ LinearFunction(SLOPE_FACTOR_THREE, BASE_THREE, END_INTERVAL_THREE - 1) >= 0

UInt32 == 0..MAX_UINT32
UInt64 == 0..MAX_UINT64
UInt128 == 0..MAX_UINT128

ASSUME OracleAssumption ==
    /\ {MAX_UINT32, MAX_UINT64, MAX_UINT128} \subseteq Nat
    /\ WAD_YEAR_IN_SECONDS <= MAX_UINT128

VARIABLES
    indexes,    \* asset -> IPOR; quasiIbtPrice is 0 if it is not supported
    updaters,   \* accounts that may publish
    iporAlgorithmFacade,
    paused,
    now         \* block.timestamp

IPOR == [quasiIbtPrice : UInt128, exponentialMovingAverage : UInt64,
         exponentialWeightedMovingVariance : UInt64, indexValue : UInt64,
         lastUpdateTimestamp : UInt32]

NoIndex == [quasiIbtPrice |-> 0, exponentialMovingAverage |-> 0,
            exponentialWeightedMovingVariance |-> 0, indexValue |-> 0,
            lastUpdateTimestamp |-> 0]

(* The price is kept multiplied by the seconds of a year; it starts at 1.0. *)
NewIndex(timestamp, average, variance) ==
    [quasiIbtPrice |-> WAD_YEAR_IN_SECONDS, exponentialMovingAverage |-> average,
     exponentialWeightedMovingVariance |-> variance, indexValue |-> 0,
     lastUpdateTimestamp |-> timestamp]

IsSupported(ipor) == ipor.quasiIbtPrice > 0

-----------------------------------------------------------------------------
(* The arithmetic *)

(* Mutation of DecayFactor: the line is read one second late. *)
DecayFactor_NextSecond(seconds) ==
    IF seconds < END_INTERVAL_ONE
    THEN LinearFunction(SLOPE_FACTOR_ONE, BASE_ONE, seconds + 1) ELSE 0

DecayFactor(seconds) ==
    IF seconds < END_INTERVAL_ONE
    THEN LinearFunction(SLOPE_FACTOR_ONE, BASE_ONE, seconds)
    ELSE IF seconds < END_INTERVAL_TWO
    THEN LinearFunction(SLOPE_FACTOR_TWO, BASE_TWO, seconds)
    ELSE IF seconds < END_INTERVAL_THREE
    THEN LinearFunction(SLOPE_FACTOR_THREE, BASE_THREE, seconds)
    ELSE 0

AccrueQuasiIbtPrice(ipor, timestamp) ==
    ipor.quasiIbtPrice + ipor.indexValue * (timestamp - ipor.lastUpdateTimestamp)

(* Mutation of CalculateExponentialMovingAverage: the weights do not add up to 1.0. *)
CalculateExponentialMovingAverage_Heavy(last, value, alpha) ==
    Division(last * alpha + value * D18, D18)

CalculateExponentialMovingAverage(last, value, alpha) ==
    Division(last * alpha + value * (D18 - alpha), D18)

CalculateExponentialWeightedMovingVariance(last, average, value, alpha) ==
    LET distance == AbsoluteValue(value - average)
    IN  Division(alpha * (last * D18 * D18 + (D18 - alpha) * distance * distance),
                 D18 * D18 * D18)

-----------------------------------------------------------------------------
(* A publication *)

(* Mutation of Published: the time since the last publication earns the new index. *)
Published_NewIndexAccrues(ipor, value, timestamp) ==
    LET alpha   == DecayFactor(timestamp - ipor.lastUpdateTimestamp)
        average == CalculateExponentialMovingAverage(ipor.exponentialMovingAverage, value, alpha)
    IN  [quasiIbtPrice |-> AccrueQuasiIbtPrice([ipor EXCEPT !.indexValue = value], timestamp),
         exponentialMovingAverage |-> average,
         exponentialWeightedMovingVariance |->
             CalculateExponentialWeightedMovingVariance(
                 ipor.exponentialWeightedMovingVariance, average, value, alpha),
         indexValue |-> value,
         lastUpdateTimestamp |-> timestamp]

Published(ipor, value, timestamp) ==
    LET alpha   == DecayFactor(timestamp - ipor.lastUpdateTimestamp)
        average == CalculateExponentialMovingAverage(ipor.exponentialMovingAverage, value, alpha)
    IN  [quasiIbtPrice |-> AccrueQuasiIbtPrice(ipor, timestamp),
         exponentialMovingAverage |-> average,
         exponentialWeightedMovingVariance |->
             CalculateExponentialWeightedMovingVariance(
                 ipor.exponentialWeightedMovingVariance, average, value, alpha),
         indexValue |-> value,
         lastUpdateTimestamp |-> timestamp]

(* Mutation of CanPublish: the price is stored without toUint128. *)
CanPublish_PriceUnchecked(ipor, value, timestamp) ==
    /\ IsSupported(ipor)
    /\ ipor.lastUpdateTimestamp <= timestamp
    /\ Published(ipor, value, timestamp).exponentialWeightedMovingVariance <= D18
    /\ [Published(ipor, value, timestamp) EXCEPT !.quasiIbtPrice = 0] \in IPOR

(* The requires of _updateIndex and of the libraries, and the casts. *)
CanPublish(ipor, value, timestamp) ==
    /\ IsSupported(ipor)
    /\ ipor.lastUpdateTimestamp <= timestamp
    /\ Published(ipor, value, timestamp).exponentialWeightedMovingVariance <= D18
    /\ Published(ipor, value, timestamp) \in IPOR

(* _updateIndexes goes through the list; an asset may come again, and is then
   published on top of what the list has published before. *)
PublishNext(sofar, asset, value) ==
    [ok |-> sofar.ok /\ CanPublish(sofar.indexes[asset], value, now),
     indexes |-> [sofar.indexes EXCEPT ![asset] = Published(@, value, now)]]

PublishedList(batch) ==
    LET after[n \in 0..Len(batch)] ==
            IF n = 0 THEN [ok |-> TRUE, indexes |-> indexes]
            ELSE PublishNext(after[n - 1], batch[n].asset, batch[n].value)
    IN  after[Len(batch)]

Publication == [asset : Asset, value : Nat]

-----------------------------------------------------------------------------
(* updateIndexes, and updateIndex with a value, for a list of one.  Lists of
   assets and values that differ in length are refused. *)
UpdateIndexes(sender, batch) ==
    /\ sender \in updaters
    /\ ~paused
    /\ PublishedList(batch).ok
    /\ indexes' = PublishedList(batch).indexes
    /\ UNCHANGED <<ownableVars, updaters, iporAlgorithmFacade, paused, now>>

(* updateIndex with the value that the algorithm calculates. *)
UpdateIndexFromAlgorithm(sender, asset, value) ==
    /\ sender \in updaters
    /\ ~paused
    /\ iporAlgorithmFacade # NoAddress
    /\ CanPublish(indexes[asset], value, now)
    /\ indexes' = [indexes EXCEPT ![asset] = Published(@, value, now)]
    /\ UNCHANGED <<ownableVars, updaters, iporAlgorithmFacade, paused, now>>

AddUpdater(sender, updater) ==
    /\ sender = owner
    /\ ~paused
    /\ updaters' = updaters \cup {updater}
    /\ UNCHANGED <<ownableVars, indexes, iporAlgorithmFacade, paused, now>>

(* Mutation of RemoveUpdater: not only the owner. *)
RemoveUpdater_Anyone(sender, updater) ==
    /\ ~paused
    /\ updaters' = updaters \ {updater}
    /\ UNCHANGED <<ownableVars, indexes, iporAlgorithmFacade, paused, now>>

RemoveUpdater(sender, updater) ==
    /\ sender = owner
    /\ ~paused
    /\ updaters' = updaters \ {updater}
    /\ UNCHANGED <<ownableVars, indexes, iporAlgorithmFacade, paused, now>>

(* Nothing relates the timestamp to that of the block. *)
AddAsset(sender, asset, timestamp, average, variance) ==
    /\ sender = owner
    /\ ~paused
    /\ ~IsSupported(indexes[asset])
    /\ NewIndex(timestamp, average, variance) \in IPOR
    /\ indexes' = [indexes EXCEPT ![asset] = NewIndex(timestamp, average, variance)]
    /\ UNCHANGED <<ownableVars, updaters, iporAlgorithmFacade, paused, now>>

RemoveAsset(sender, asset) ==
    /\ sender = owner
    /\ ~paused
    /\ IsSupported(indexes[asset])
    /\ indexes' = [indexes EXCEPT ![asset] = NoIndex]
    /\ UNCHANGED <<ownableVars, updaters, iporAlgorithmFacade, paused, now>>

SetIporAlgorithmFacade(sender, facade) ==
    /\ sender = owner
    /\ facade # NoAddress
    /\ iporAlgorithmFacade' = facade
    /\ UNCHANGED <<ownableVars, indexes, updaters, paused, now>>

PauseOracle(sender) ==
    /\ sender = owner
    /\ ~paused
    /\ paused' = TRUE
    /\ UNCHANGED <<ownableVars, indexes, updaters, iporAlgorithmFacade, now>>

UnpauseOracle(sender) ==
    /\ sender = owner
    /\ paused
    /\ paused' = FALSE
    /\ UNCHANGED <<ownableVars, indexes, updaters, iporAlgorithmFacade, now>>
=============================================================================
