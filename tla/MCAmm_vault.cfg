SPECIFICATION Spec
CONSTANTS
    D18 = 100
    YEAR_IN_SECONDS = 2
    Unit = 10
    AaveContracts = {aave1, aave2}
    CompoundContracts = {compound1, compound2}
    InitialRate = 60
    NextCompound = {compound1, compound2}
    Account = {alice}
    Owner = owner
    Contract = {amm}
    NoAddress = zero
    MAX_UINT32 = 1
    MAX_UINT64 = 1000
    MAX_UINT128 = 100000
    SWAP_PERIOD = 2
    CLOSE_WINDOW = 1
    MIN_LIQUIDATION_THRESHOLD = 99
    LIQUIDATION_DEPOSIT = 1
    PUBLICATION_FEE = 10
    OPENING_FEE_RATE = 1
    TREASURY_PORTION_RATE = 50
    INCOME_FEE_RATE = 10
    MIN_LEVERAGE = 100
    MAX_LEVERAGE = 1000
    MAX_COLLATERAL = 200
    MAX_UTILIZATION = 80
    MAX_UTILIZATION_PER_LEG = 50
    LEG_LIMIT = 2
    REDEEM_FEE_RATE = 2
    REDEEM_LP_MAX_UTILIZATION_RATE = 100
    LegSequences = {}
    OpenAmountsIn = {}
    Leverages = {1000}
    Quotes = {4}
    ProvideAmounts = {50}
    RedeemAmounts = {}
    MoveAmounts = {250}
    TreasuryAmounts = {}
    Ratios = {20, 70}
    MAX_POOL = 500
    MAX_CONTRIBUTION = 500
    AUTO_REBALANCE_THRESHOLD = 200
    Pausable = {"Stanley", "Joseph"}
    Replacements <- MCReplacements
    FirstMax = {"Aave", "Compound"}
    IbtPrices = {100}
    Interest = 1
    RateSteps = {2}
    MAX_HELD = 1000
    MAX_CONVERSIONS = 4
    MAX_SHARE = 106
    MaxTime = 1
INVARIANTS LedgerBalanced VaultNeverOverbooked ReplacedContractsAreLeft SharesEndWithTokens
PROPERTIES MovesKeepThePool
CHECK_DEADLOCK FALSE
