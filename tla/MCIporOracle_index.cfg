SPECIFICATION Spec
CONSTANTS
    D18 = 100
    YEAR_IN_SECONDS = 2
    Account = {admin}
    NoAddress = zero
    Asset = {dai, usdt}
    MAX_UINT32 = 5
    MAX_UINT64 = 500
    MAX_UINT128 = 1300
    END_INTERVAL_ONE = 1
    END_INTERVAL_TWO = 2
    END_INTERVAL_THREE = 3
    SLOPE_FACTOR_ONE <- MCSlopeOne
    SLOPE_FACTOR_TWO <- MCSlopeTwo
    SLOPE_FACTOR_THREE <- MCSlopeThree
    BASE_ONE = 100
    BASE_TWO = 70
    BASE_THREE = 20
    Appointable = {admin}
    Facades = {algorithm}
    IndexValues = {60, 400}
    Batches <- MCPairs
    AddTimestamps = {0, 2}
    AddAverages = {9}
    AddVariances = {1}
    MaxTime = 3
SYMMETRY AssetSymmetry
INVARIANTS TypeOK PriceIsIntegral AverageWithinPublished
PROPERTIES OrphanedIsFrozen RepublishingMovesOnlyTheIndex
CHECK_DEADLOCK FALSE
