SPECIFICATION Spec
CONSTANTS
    Environments = {"hardhat_mainnet", "hardhat_testnet"}
    Truffle = {}
    Program <- MCProgram
    Keys <- AllKeys
    Accounts <- AllAccounts
    MigrationKey <- MCMigrationKey
    MayDie <- MCMayDie
    MaxFaults <- MCMaxFaults
INVARIANTS
    JosephGetsIpToken
CHECK_DEADLOCK FALSE
