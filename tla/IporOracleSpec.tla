--------------------------- MODULE IporOracleSpec ---------------------------
(***************************************************************************)
(* The oracle with its callers: anyone may call anything, blocks follow    *)
(* each other at any pace, and the owner may add an asset with a timestamp *)
(* in the past or in the future.  Two history variables remember what the  *)
(* contract forgets.                                                       *)
(***************************************************************************)
EXTENDS IporOracle, FiniteSets

CONSTANTS
    Appointable,      \* whom owners appoint as their successors
    Facades,          \* the algorithms owners set
    IndexValues,      \* the values published
    Batches,          \* the lists published with updateIndexes
    AddTimestamps, AddAverages, AddVariances,   \* with which assets are added
    MaxTime           \* bound: the last block's timestamp

ASSUME OracleSpecAssumption ==
    /\ Appointable \subseteq Account
    /\ NoAddress \notin Facades
    /\ IndexValues \subseteq Nat
    /\ Batches \subseteq Seq(Publication)
    /\ {AddTimestamps, AddAverages, AddVariances} \subseteq SUBSET Nat
    /\ MaxTime \in UInt32

VARIABLES
    earned,      \* history: asset -> sum of the index over the seconds passed
    published    \* history: asset -> the first average and the values published

historyVars == <<earned, published>>
vars == <<ownableVars, indexes, updaters, iporAlgorithmFacade, paused, now, historyVars>>

InitialIndexes ==
    {NewIndex(t, average, variance) :
        t \in AddTimestamps, average \in AddAverages, variance \in AddVariances} \cap IPOR

-----------------------------------------------------------------------------
ValuesFor(asset, batch) ==
    {batch[i].value : i \in {j \in DOMAIN batch : batch[j].asset = asset}}

Publish(sender, batch) ==
    /\ UpdateIndexes(sender, batch)
    /\ published' = [a \in Asset |-> published[a] \cup ValuesFor(a, batch)]
    /\ UNCHANGED earned

PublishOne(sender) ==
    \E asset \in Asset, value \in IndexValues :
        Publish(sender, <<[asset |-> asset, value |-> value]>>)

PublishBatch(sender) == \E batch \in Batches : Publish(sender, batch)

PublishFromAlgorithm(sender) ==
    \E asset \in Asset, value \in IndexValues :
        /\ UpdateIndexFromAlgorithm(sender, asset, value)
        /\ published' = [published EXCEPT ![asset] = @ \cup {value}]
        /\ UNCHANGED earned

Add(sender) ==
    \E asset \in Asset, t \in AddTimestamps, average \in AddAverages, variance \in AddVariances :
        /\ AddAsset(sender, asset, t, average, variance)
        /\ earned' = [earned EXCEPT ![asset] = 0]
        /\ published' = [published EXCEPT ![asset] = {average}]

Remove(sender) ==
    \E asset \in Asset :
        /\ RemoveAsset(sender, asset)
        /\ earned' = [earned EXCEPT ![asset] = 0]
        /\ published' = [published EXCEPT ![asset] = {}]

Administer(sender) ==
    /\ \/ \E updater \in Account : AddUpdater(sender, updater) \/ RemoveUpdater(sender, updater)
       \/ \E facade \in Facades : SetIporAlgorithmFacade(sender, facade)
       \/ PauseOracle(sender)
       \/ UnpauseOracle(sender)
    /\ UNCHANGED historyVars

ChangeOwner(sender) ==
    /\ \/ \E appointed \in Appointable : TransferOwnership(sender, appointed)
       \/ ConfirmTransferOwnership(sender)
       \/ RenounceOwnership(sender)
    /\ UNCHANGED <<indexes, updaters, iporAlgorithmFacade, paused, now, historyVars>>

(* A second passes; the index that is in force from the time of its
   publication on earns it. *)
Tick ==
    /\ now < MaxTime
    /\ now' = now + 1
    /\ earned' = [a \in Asset |-> earned[a] + indexes[a].indexValue]
    /\ UNCHANGED <<ownableVars, indexes, updaters, iporAlgorithmFacade, paused, published>>

(* initialize adds the first assets, with data like that of addAsset. *)
Init ==
    /\ OwnableInit
    /\ indexes \in [Asset -> {NoIndex} \cup InitialIndexes]
    /\ updaters = {}
    /\ iporAlgorithmFacade = NoAddress
    /\ paused = FALSE
    /\ now = 0
    /\ earned = [a \in Asset |-> 0]
    /\ published = [a \in Asset |-> IF IsSupported(indexes[a])
                                    THEN {indexes[a].exponentialMovingAverage} ELSE {}]

Next ==
    \/ \E sender \in Account :
          \/ PublishOne(sender) \/ PublishBatch(sender) \/ PublishFromAlgorithm(sender)
          \/ Add(sender) \/ Remove(sender)
          \/ Administer(sender)
          \/ ChangeOwner(sender)
    \/ Tick

Spec == Init /\ [][Next]_vars

-----------------------------------------------------------------------------
(* Every value has its type; what is stored in a narrow type fits it. *)
TypeOK ==
    /\ OwnableTypeOK
    /\ indexes \in [Asset -> IPOR]
    /\ updaters \subseteq Account
    /\ iporAlgorithmFacade \in Facades \cup {NoAddress}
    /\ paused \in BOOLEAN
    /\ now \in 0..MaxTime
    /\ earned \in [Asset -> Nat]
    /\ published \in [Asset -> SUBSET Nat]

(* The price of the interest bearing token that payoffs are computed with is
   1.0 plus the integral of the index since the asset was added, however often
   and in whatever lists the index was published in between; so it never falls
   and no publication moves it (accrueQuasiIbtPrice, _updateIndex). *)
PriceIsIntegral ==
    \A a \in Asset :
        IsSupported(indexes[a]) /\ indexes[a].lastUpdateTimestamp <= now =>
            AccrueQuasiIbtPrice(indexes[a], now) = WAD_YEAR_IN_SECONDS + earned[a]

(* The moving average stays between values that were published, whatever the
   times in between and after every rounding (DecayFactorCalculation,
   calculateExponentialMovingAverage). *)
AverageWithinPublished ==
    \A a \in Asset : IsSupported(indexes[a]) =>
        \E low, high \in published[a] :
            /\ low <= indexes[a].exponentialMovingAverage
            /\ indexes[a].exponentialMovingAverage <= high

(* Publishing again in the same block replaces the index and nothing else: the
   average and the variance do not count the block twice (_updateIndex with no
   time passed, for a list with an asset twice or two transactions). *)
RepublishingMovesOnlyTheIndex ==
    [][\A a \in Asset :
          /\ IsSupported(indexes[a]) /\ IsSupported(indexes'[a])
          /\ indexes[a].lastUpdateTimestamp = now
          => indexes'[a] = [indexes[a] EXCEPT !.indexValue = indexes'[a].indexValue]]_vars

(* When nobody owns the oracle and nobody is appointed, no sequence of calls
   brings back an owner or changes who publishes, which assets there are, what
   the algorithm is and whether it is paused (onlyOwner on every function that
   does so). *)
Orphaned == owner = NoAddress /\ appointedOwner = NoAddress

OrphanedIsFrozen ==
    [][Orphaned =>
          /\ UNCHANGED <<ownableVars, updaters, iporAlgorithmFacade, paused>>
          /\ \A a \in Asset : IsSupported(indexes'[a]) = IsSupported(indexes[a])]_vars

(* IporOwnableUpgradeable.t.sol,
   testShouldNotBeAbleToConfirmTransferOwnershipWhenRenounceOwnership: an
   ownership that was renounced cannot be confirmed. *)
RenouncedStaysUnowned == [][owner = NoAddress => owner' = NoAddress]_vars
=============================================================================
