SPECIFICATION Spec
CONSTANTS
    Environments = {"private", "private_itf", "goerli", "mainnet", "mainnet_to_0057",
                    "mainnet_now", "testnet_start", "testnet_setup",
                    "hardhat_mainnet", "hardhat_testnet"}
    Truffle = {"private", "private_itf", "goerli", "mainnet", "mainnet_to_0057",
               "mainnet_now", "testnet_start", "testnet_setup"}
    Program <- MCProgram
    Keys <- AllKeys
    Accounts <- AllAccounts
    MigrationKey <- MCMigrationKey
    MayDie <- MCMayDie
    MaxFaults <- MCMaxFaults
INVARIANTS
    TypeOK
    BookNamesDeployed
    StateIsDetermined
    NoStaleReference
    RolesRespected
    NobodyLeftBehind
    FundedOncePerAttempt
    FileOffByOneAtMost
    FailsForAReason
    PassedOverForAReason
    ScriptsAreComplete
PROPERTIES
    OrderlyRun
CHECK_DEADLOCK FALSE
