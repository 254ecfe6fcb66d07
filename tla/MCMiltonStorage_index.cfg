SPECIFICATION Spec
CONSTANTS
    D18 = 10
    YEAR_IN_SECONDS = 2
    Account = {alice, bob}
    Owner = owner
    Contract = {theMilton, theJoseph}
    NoAddress = zero
    MAX_UINT32 = 3
    MAX_UINT64 = 20
    MAX_UINT128 = 30
    SWAP_PERIOD = 2
    CLOSE_WINDOW = 1
    MIN_LIQUIDATION_THRESHOLD = 10
    SwapTerms <- MCOneTerm
    PUBLICATION_FEE = 6
    INCOME_FEE_RATE = 1
    IbtPrices = {10}
    Amounts = {17}
    MAX_POOL = 18
    MaxTime = 1
    MAX_CONTRIBUTION = 17
SYMMETRY AccountSymmetry
INVARIANTS TypeOK IndexConsistent IdsGivenOutOnce CollateralBacked SoapTotalsBacked NoWriterNoBooks
PROPERTIES SwapsFrozen
CHECK_DEADLOCK FALSE
