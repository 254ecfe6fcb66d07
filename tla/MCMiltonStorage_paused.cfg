SPECIFICATION Spec
CONSTANTS
    D18 = 10
    YEAR_IN_SECONDS = 2
    Account = {alice}
    Owner = owner
    Contract = {theMilton, theJoseph}
    NoAddress = zero
    MAX_UINT32 = 1
    MAX_UINT64 = 20
    MAX_UINT128 = 24
    SWAP_PERIOD = 2
    CLOSE_WINDOW = 1
    MIN_LIQUIDATION_THRESHOLD = 10
    SwapTerms <- MCOneTerm
    PUBLICATION_FEE = 1
    INCOME_FEE_RATE = 1
    IbtPrices = {10}
    Amounts = {1, 7}
    MAX_POOL = 12
    MaxTime = 1
    MAX_CONTRIBUTION = 11
PROPERTIES PausedStorageIsFrozen
CHECK_DEADLOCK FALSE
