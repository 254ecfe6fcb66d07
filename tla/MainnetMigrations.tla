------------------------- MODULE MainnetMigrations -------------------------
(* The scripts under migrations/envs/mainnet, one definition per file, with  *)
(* the number in the file's name; two files have number 56, none has 48.     *)
(* The flags are SC_MIGRATION_INITIAL_PAUSE_FLAG_MILTON and _JOSEPH.         *)
EXTENDS MigrationScripts

(* Mutant: a file without its last line.                                     *)
Migration_Unnumbered(number, steps) == [number |-> number, steps |-> steps]

(* Every file ends with await func.updateLastCompletedMigration().           *)
Migration(number, steps) ==
    [number |-> number, steps |-> Append(steps, Statement("updateLast", Key("Migration", "")))]

(* Mutant: the second asset where the third is meant.                        *)
TransferAll_Copied(kind) == Transfer(Key(kind, "USDT")) \o Transfer(Key(kind, "USDC"))
                            \o Transfer(Key(kind, "USDC"))

(* transferOwnership of the contracts of a kind to the owner.                *)
TransferAll(kind) == Each(LAMBDA a : Transfer(Key(kind, a)))

(* The spread models at hand when this was written were ownable; those of the*)
(* source as it is now have no transferOwnership, and calling it throws.     *)
TransferSpreadModels(spreadOwnable) ==
    IF spreadOwnable THEN TransferAll("MiltonSpreadModel")
    ELSE <<[Statement("transfer", Key("MiltonSpreadModel", "USDT"))
              EXCEPT !.wiring = <<"method">> :> Undefined]>>

mainnet_0001 == Migration(1, initial_migration)
mainnet_0002 == Migration(2,
    Each(LAMBDA a : Note(Key("Token", a))) \o Note(Key("AAVE", ""))
    \o Each(LAMBDA a : Note(Key("aToken", a))) \o Note(Key("AaveProvider", ""))
    \o Note(Key("AaveStaked", "")) \o Note(Key("AaveIncentivesController", ""))
    \o Note(Key("COMP", "")) \o Each(LAMBDA a : Note(Key("cToken", a)))
    \o Note(Key("Comptroller", "")))
mainnet_0003 == Migration(3, deploy_ip_token("USDT"))
mainnet_0004 == Migration(4, deploy_ip_token("USDC"))
mainnet_0005 == Migration(5, deploy_ip_token("DAI"))
mainnet_0006 == Migration(6, deploy_iv_token("USDT"))
mainnet_0007 == Migration(7, deploy_iv_token("USDC"))
mainnet_0008 == Migration(8, deploy_iv_token("DAI"))
mainnet_0009 == Migration(9, deploy_spread_model("prod", "USDT"))
mainnet_0010 == Migration(10, deploy_spread_model("prod", "USDC"))
mainnet_0011 == Migration(11, deploy_spread_model("prod", "DAI"))
mainnet_0012 ==
    Migration(12, Require(<<"IporOracle", "", "prod">>) \o deploy_ipor_oracle("prod"))
mainnet_0013 == Migration(13, deploy_milton_storage("USDT"))
mainnet_0014 == Migration(14, deploy_milton_storage("USDC"))
mainnet_0015 == Migration(15, deploy_milton_storage("DAI"))
mainnet_0016 == Migration(16, deploy_strategy_aave("USDT"))
mainnet_0017 == Migration(17, deploy_strategy_aave("USDC"))
mainnet_0018 == Migration(18, deploy_strategy_aave("DAI"))
mainnet_0019 == Migration(19, deploy_strategy_compound("USDT"))
mainnet_0020 == Migration(20, deploy_strategy_compound("USDC"))
mainnet_0021 == Migration(21, deploy_strategy_compound("DAI"))
mainnet_0022 == Migration(22, deploy_stanley("prod", "USDT"))
mainnet_0023 == Migration(23, deploy_stanley("prod", "USDC"))
mainnet_0024 == Migration(24, deploy_stanley("prod", "DAI"))
mainnet_0025(miltonPaused) ==
    Migration(25, deploy_milton("prod", "USDT", miltonPaused))
mainnet_0026(miltonPaused) ==
    Migration(26, deploy_milton("prod", "USDC", miltonPaused))
mainnet_0027(miltonPaused) ==
    Migration(27, deploy_milton("prod", "DAI", miltonPaused))
mainnet_0028(josephPaused) ==
    Migration(28, deploy_joseph("prod", "USDT", josephPaused))
mainnet_0029(josephPaused) ==
    Migration(29, deploy_joseph("prod", "USDC", josephPaused))
mainnet_0030(josephPaused) ==
    Migration(30, deploy_joseph("prod", "DAI", josephPaused))
mainnet_0031 == Migration(31, deploy_ipor_oracle_facade("prod"))
mainnet_0032 == Migration(32, deploy_milton_facade("prod"))
mainnet_0033 == Migration(33, deploy_cockpit("prod"))
mainnet_0034 == Migration(34, setup_ip_token("prod"))
mainnet_0035 == Migration(35, setup_iv_token("prod"))
mainnet_0036(miltonPaused) == Migration(36, setup_milton(miltonPaused))
mainnet_0037 == Migration(37, setup_milton_storage("prod"))
mainnet_0038 == Migration(38, setup_stanley("prod"))
mainnet_0039 == Migration(39, setup_ipor_oracle_mainnet)
mainnet_0040 == Migration(40, setup_stanley_strategies("prod"))
mainnet_0041(spreadOwnable) == Migration(41,
    setup_stanley_strategies("prod") \o Require(Key("ipToken", "USDT"))
    \o TransferAll("ipToken") \o TransferAll("ivToken")
    \o TransferSpreadModels(spreadOwnable)
    \o Transfer(Key("IporOracle", "")) \o TransferAll("MiltonStorage")
    \o TransferAll("AaveStrategy") \o TransferAll("CompoundStrategy")
    \o TransferAll("Stanley") \o TransferAll("Milton") \o TransferAll("Joseph")
    \o Transfer(Key("IporOracleFacadeDataProvider", ""))
    \o Transfer(Key("MiltonFacadeDataProvider", ""))
    \o Transfer(Key("CockpitDataProvider", "")))
mainnet_0042 == Migration(42, upgrade_stanley("USDT"))
mainnet_0043 == Migration(43, upgrade_stanley("USDC"))
mainnet_0044 == Migration(44, upgrade_stanley("DAI"))
mainnet_0045 == Migration(45, upgrade_strategy_aave("USDT"))
mainnet_0046 == Migration(46, upgrade_strategy_aave("USDC"))
mainnet_0047 == Migration(47, upgrade_strategy_aave("DAI"))
mainnet_0049 == Migration(49, upgrade_strategy_compound("USDT"))
mainnet_0050 == Migration(50, upgrade_strategy_compound("USDC"))
mainnet_0051 == Migration(51, upgrade_strategy_compound("DAI"))
mainnet_0052 == Migration(52, upgrade_milton_v2("USDT"))
mainnet_0053 == Migration(53, upgrade_milton_v2("USDC"))
mainnet_0054 == Migration(54, upgrade_milton_v2("DAI"))
mainnet_0055 == Migration(55, Note(Key("Multicall", "")))
mainnet_0056 == Migration(56, deploy_spread_model("prod", "USDT"))
mainnet_0056b == Migration(56, upgrade_milton_v3_only_mainnet)
mainnet_0057 == Migration(57, upgrade_milton_v3_only_mainnet)
mainnet_0058 == Migration(58, upgrade_milton_v3_only_mainnet)
mainnet_0059 == Migration(59, deploy_spread_model("prod", "USDT"))
mainnet_0060 == Migration(60, deploy_ipor_token)
mainnet_0061 == Migration(61, deploy_spread_model("prod", "USDC"))
mainnet_0062 == Migration(62, deploy_spread_model("prod", "DAI"))
mainnet_0063 == Migration(63, upgrade_ipor_oracle)
mainnet_0064 == Migration(64, upgrade_milton_v3("USDT"))
mainnet_0065 == Migration(65, upgrade_milton_v3("USDC"))
mainnet_0066 == Migration(66, upgrade_milton_v3("DAI"))
mainnet_0067 == Migration(67, upgrade_joseph("USDT"))
mainnet_0068 == Migration(68, upgrade_joseph("USDC"))
mainnet_0069 == Migration(69, upgrade_joseph("DAI"))
mainnet_0070 == Migration(70, upgrade_milton_v3("USDT"))
mainnet_0071 == Migration(71, upgrade_milton_v3("DAI"))
mainnet_0072 == Migration(72, upgrade_milton_v3("USDT"))
mainnet_0073 == Migration(73, upgrade_milton_storage("USDT"))
mainnet_0074 == Migration(74, upgrade_milton_v3("USDC"))
mainnet_0075 == Migration(75, upgrade_milton_storage("USDC"))
mainnet_0076 == Migration(76, upgrade_milton_v3("USDT"))
mainnet_0077 == Migration(77, upgrade_milton_v3("DAI"))
mainnet_0078 == Migration(78, upgrade_milton_v3("USDC"))
mainnet_0079 == Migration(79, upgrade_milton_storage("DAI"))
mainnet_0080 == Migration(80, upgrade_milton_v3("USDC"))
mainnet_0081 == Migration(81, upgrade_milton_v3("DAI"))
mainnet_0082 == Migration(82, upgrade_milton_v3("USDC"))
mainnet_0083 == Migration(83, upgrade_ipor_oracle)
mainnet_0084 == Migration(84, upgrade_milton_v3("USDT"))
mainnet_0085 == Migration(85, upgrade_milton_v3("DAI"))
mainnet_0086 == Migration(86, upgrade_milton_v3("USDT"))
mainnet_0087 == Migration(87, upgrade_joseph("DAI"))
mainnet_0088 == Migration(88, upgrade_joseph("USDT"))
mainnet_0089 == Migration(89, upgrade_milton_v3("USDT"))
mainnet_0090 == Migration(90, upgrade_milton_v3("DAI"))
mainnet_0091 == Migration(91, deploy_spread_model("prod", "USDT"))

(* In the order in which truffle runs the files.                             *)
Mainnet(miltonPaused, josephPaused, spreadOwnable) ==
    <<mainnet_0001, mainnet_0002, mainnet_0003, mainnet_0004, mainnet_0005,
      mainnet_0006, mainnet_0007, mainnet_0008, mainnet_0009, mainnet_0010,
      mainnet_0011, mainnet_0012, mainnet_0013, mainnet_0014, mainnet_0015,
      mainnet_0016, mainnet_0017, mainnet_0018, mainnet_0019, mainnet_0020,
      mainnet_0021, mainnet_0022, mainnet_0023, mainnet_0024,
      mainnet_0025(miltonPaused), mainnet_0026(miltonPaused),
      mainnet_0027(miltonPaused), mainnet_0028(josephPaused),
      mainnet_0029(josephPaused), mainnet_0030(josephPaused), mainnet_0031,
      mainnet_0032, mainnet_0033, mainnet_0034, mainnet_0035,
      mainnet_0036(miltonPaused), mainnet_0037, mainnet_0038, mainnet_0039,
      mainnet_0040, mainnet_0041(spreadOwnable), mainnet_0042, mainnet_0043, mainnet_0044,
      mainnet_0045, mainnet_0046, mainnet_0047, mainnet_0049, mainnet_0050,
      mainnet_0051, mainnet_0052, mainnet_0053, mainnet_0054, mainnet_0055,
      mainnet_0056, mainnet_0056b, mainnet_0057, mainnet_0058, mainnet_0059,
      mainnet_0060, mainnet_0061, mainnet_0062, mainnet_0063, mainnet_0064,
      mainnet_0065, mainnet_0066, mainnet_0067, mainnet_0068, mainnet_0069,
      mainnet_0070, mainnet_0071, mainnet_0072, mainnet_0073, mainnet_0074,
      mainnet_0075, mainnet_0076, mainnet_0077, mainnet_0078, mainnet_0079,
      mainnet_0080, mainnet_0081, mainnet_0082, mainnet_0083, mainnet_0084,
      mainnet_0085, mainnet_0086, mainnet_0087, mainnet_0088, mainnet_0089,
      mainnet_0090, mainnet_0091>>
=============================================================================
