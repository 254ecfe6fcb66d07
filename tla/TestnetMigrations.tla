------------------------- MODULE TestnetMigrations -------------------------
(* The scripts under migrations/envs/private-testnet, and those under        *)
(* migrations/envs/goerli up to the setup of the faucet, which at this       *)
(* commit cannot run there (see MigrationsSpec). build is "itf" when         *)
(* ITF_ENABLED is true.                                                      *)
EXTENDS MainnetMigrations

private_0001 == Migration(1, initial_migration)
private_0002 == Migration(2, deploy_mocks)
private_0003 == Migration(3, deploy_ip_token("USDT"))
private_0004 == Migration(4, deploy_ip_token("USDC"))
private_0005 == Migration(5, deploy_ip_token("DAI"))
private_0006 == Migration(6, deploy_iv_token("USDT"))
private_0007 == Migration(7, deploy_iv_token("USDC"))
private_0008 == Migration(8, deploy_iv_token("DAI"))
private_0009(build) == Migration(9, deploy_spread_model(build, "USDT"))
private_0010(build) == Migration(10, deploy_spread_model(build, "USDC"))
private_0011(build) == Migration(11, deploy_spread_model(build, "DAI"))
private_0012(build) ==
    Migration(12, Require(<<"IporOracle", "", build>>) \o deploy_ipor_oracle(build))
private_0013 == Migration(13, deploy_milton_storage("USDT"))
private_0014 == Migration(14, deploy_milton_storage("USDC"))
private_0015 == Migration(15, deploy_milton_storage("DAI"))
private_0016(build) == Migration(16, deploy_stanley(build, "USDT"))
private_0017(build) == Migration(17, deploy_stanley(build, "USDC"))
private_0018(build) == Migration(18, deploy_stanley(build, "DAI"))
private_0019(build, miltonPaused) ==
    Migration(19, deploy_milton(build, "USDT", miltonPaused))
private_0020(build, miltonPaused) ==
    Migration(20, deploy_milton(build, "USDC", miltonPaused))
private_0021(build, miltonPaused) ==
    Migration(21, deploy_milton(build, "DAI", miltonPaused))
private_0022(build, josephPaused) ==
    Migration(22, deploy_joseph(build, "USDT", josephPaused))
private_0023(build, josephPaused) ==
    Migration(23, deploy_joseph(build, "USDC", josephPaused))
private_0024(build, josephPaused) ==
    Migration(24, deploy_joseph(build, "DAI", josephPaused))
private_0025(build) == Migration(25, deploy_ipor_oracle_facade(build))
private_0026(build) == Migration(26, deploy_milton_facade(build))
private_0027(build) == Migration(27, deploy_cockpit(build))
private_0028(build) == Migration(28, setup_ip_token(build))
private_0029(build) == Migration(29, setup_iv_token(build))
private_0030(build, miltonPaused) ==
    Migration(30, IF build = "itf" THEN itf_setup_milton(miltonPaused)
                      ELSE setup_milton(miltonPaused))
private_0031(build) == Migration(31, setup_milton_storage(build))
private_0032(build) == Migration(32, setup_stanley(build))
private_0033(build) == Migration(33, setup_ipor_oracle(build))
private_0034(build) == Migration(34, setup_testnet_strategy(build))
private_0035(build) ==
    Migration(35, IF build = "itf" THEN itf_deploy_data_provider ELSE << >>)
private_0036(build) ==
    Migration(36, IF build = "itf" THEN itf_deploy_liquidator("USDT") ELSE << >>)
private_0037(build) ==
    Migration(37, IF build = "itf" THEN itf_deploy_liquidator("USDC") ELSE << >>)
private_0038(build) ==
    Migration(38, IF build = "itf" THEN itf_deploy_liquidator("DAI") ELSE << >>)
private_0039 == Migration(39, deploy_multicall)
private_0040 == Migration(40, deploy_ipor_token)
private_0041 == Migration(41, setup_faucet)
private_0042(build) ==
    Migration(42, deploy_mock_ipor_weighted(build)
    \o <<Set(<<"IporOracle", "", build>>, "iporAlgorithmFacade", Key("IporAlgorithm", ""))>>)

PrivateTestnet(build, miltonPaused, josephPaused) ==
    <<private_0001, private_0002, private_0003, private_0004, private_0005,
      private_0006, private_0007, private_0008, private_0009(build),
      private_0010(build), private_0011(build), private_0012(build),
      private_0013, private_0014, private_0015, private_0016(build),
      private_0017(build), private_0018(build),
      private_0019(build, miltonPaused), private_0020(build, miltonPaused),
      private_0021(build, miltonPaused), private_0022(build, josephPaused),
      private_0023(build, josephPaused), private_0024(build, josephPaused),
      private_0025(build), private_0026(build), private_0027(build),
      private_0028(build), private_0029(build),
      private_0030(build, miltonPaused), private_0031(build),
      private_0032(build), private_0033(build), private_0034(build),
      private_0035(build), private_0036(build), private_0037(build),
      private_0038(build), private_0039, private_0040, private_0041,
      private_0042(build)>>

goerli_0001 == Migration(1, initial_migration)
goerli_0002 == Migration(2, deploy_mocks)
goerli_0003 == Migration(3, deploy_ip_token("USDT"))
goerli_0004 == Migration(4, deploy_ip_token("USDC"))
goerli_0005 == Migration(5, deploy_ip_token("DAI"))
goerli_0006 == Migration(6, deploy_iv_token("USDT"))
goerli_0007 == Migration(7, deploy_iv_token("USDC"))
goerli_0008 == Migration(8, deploy_iv_token("DAI"))
goerli_0009 == Migration(9, deploy_spread_model("prod", "USDT"))
goerli_0010 == Migration(10, deploy_spread_model("prod", "USDC"))
goerli_0011 == Migration(11, deploy_spread_model("prod", "DAI"))
goerli_0012 ==
    Migration(12, Require(<<"IporOracle", "", "prod">>) \o deploy_ipor_oracle("prod"))
goerli_0013 == Migration(13, deploy_milton_storage("USDT"))
goerli_0014 == Migration(14, deploy_milton_storage("USDC"))
goerli_0015 == Migration(15, deploy_milton_storage("DAI"))
goerli_0016 == Migration(16, deploy_stanley("prod", "USDT"))
goerli_0017 == Migration(17, deploy_stanley("prod", "USDC"))
goerli_0018 == Migration(18, deploy_stanley("prod", "DAI"))
goerli_0019(miltonPaused) ==
    Migration(19, deploy_milton("prod", "USDT", miltonPaused))
goerli_0020(miltonPaused) ==
    Migration(20, deploy_milton("prod", "USDC", miltonPaused))
goerli_0021(miltonPaused) ==
    Migration(21, deploy_milton("prod", "DAI", miltonPaused))
goerli_0022(josephPaused) ==
    Migration(22, deploy_joseph("prod", "USDT", josephPaused))
goerli_0023(josephPaused) ==
    Migration(23, deploy_joseph("prod", "USDC", josephPaused))
goerli_0024(josephPaused) ==
    Migration(24, deploy_joseph("prod", "DAI", josephPaused))
goerli_0025 == Migration(25, deploy_ipor_oracle_facade("prod"))
goerli_0026 == Migration(26, deploy_milton_facade("prod"))
goerli_0027 == Migration(27, deploy_cockpit("prod"))
goerli_0028 == Migration(28, setup_ip_token("prod"))
goerli_0029 == Migration(29, setup_iv_token("prod"))
goerli_0030(miltonPaused) == Migration(30, setup_milton(miltonPaused))
goerli_0031 == Migration(31, setup_milton_storage("prod"))
goerli_0032 == Migration(32, setup_stanley("prod"))
goerli_0033 == Migration(33, setup_ipor_oracle("prod"))
goerli_0034 == Migration(34, setup_faucet)

Goerli(miltonPaused, josephPaused) ==
    <<goerli_0001, goerli_0002, goerli_0003, goerli_0004, goerli_0005,
      goerli_0006, goerli_0007, goerli_0008, goerli_0009, goerli_0010,
      goerli_0011, goerli_0012, goerli_0013, goerli_0014, goerli_0015,
      goerli_0016, goerli_0017, goerli_0018, goerli_0019(miltonPaused),
      goerli_0020(miltonPaused), goerli_0021(miltonPaused),
      goerli_0022(josephPaused), goerli_0023(josephPaused),
      goerli_0024(josephPaused), goerli_0025, goerli_0026, goerli_0027,
      goerli_0028, goerli_0029, goerli_0030(miltonPaused), goerli_0031,
      goerli_0032, goerli_0033, goerli_0034>>
=============================================================================
