SPECIFICATION DriftSpec
CONSTANTS
    D18 = 10
    YEAR_IN_SECONDS = 2
    Account = {alice}
    Owner = owner
    Contract = {theMilton}
    NoAddress = zero
    MAX_UINT32 = 3
    MAX_UINT64 = 20
    MAX_UINT128 = 200
    SWAP_PERIOD = 2
    CLOSE_WINDOW = 1
    MIN_LIQUIDATION_THRESHOLD = 10
    SwapTerms <- MCTerms
    PUBLICATION_FEE = 0
    INCOME_FEE_RATE = 0
    IbtPrices = {11}
    Amounts = {}
    MAX_POOL = 10
    MAX_CONTRIBUTION = 10
    MaxTime = 2
INVARIANTS SoapIsSumOfPayoffs SoapBlocksOnlyWithinRounding
CHECK_DEADLOCK FALSE
