-------------------------- MODULE MigrationScripts --------------------------
(* The scripts under migrations/libs, as sequences of steps. The libs have a *)
(* copy of a script per asset (usdt, usdc, dai) and, under libs/itf, per     *)
(* build; the copies differ in the keys only, so one definition with the     *)
(* asset and the build as parameters stands for them.                        *)
EXTENDS Sequences, TLC

Assets == {"USDT", "USDC", "DAI"}
Builds == {"prod", "itf"}

Key(kind, asset) == <<kind, asset, "prod">>
Impl(key) == Append(key, "impl")

(* json_keys.js.                                                             *)
AssetKinds == {"Token", "aToken", "cToken", "ipToken", "ivToken", "MiltonStorage",
               "AaveStrategy", "CompoundStrategy"}
BuiltAssetKinds == {"MiltonSpreadModel", "Stanley", "Milton", "Joseph", "ItfLiquidator"}
SingleKinds == {"Migration", "AAVE", "AaveProvider", "AaveStaked",
                "AaveIncentivesController", "COMP", "Comptroller", "TestnetFaucet",
                "Multicall", "IPOR", "IporAlgorithm"}
BuiltSingleKinds == {"IporOracle", "IporOracleFacadeDataProvider",
                     "MiltonFacadeDataProvider", "CockpitDataProvider", "ItfDataProvider"}
Proxies == (AssetKinds \X Assets \X {"prod"}) \cup (BuiltAssetKinds \X Assets \X Builds)
           \cup (SingleKinds \X {""} \X {"prod"}) \cup (BuiltSingleKinds \X {""} \X Builds)
(* What is no address and no method: a statement that needs it throws.       *)
Undefined == Key("undefined", "")
AllKeys == Proxies \cup {Impl(k) : k \in Proxies} \cup {Undefined}

(* Of the environment of the process and of truffle: the deployer's account, *)
(* addresses in .env, and the threshold 50 of the auto update.               *)
AllAccounts == {"Admin", "IporIndexUpdater", "DaoWallet", "Threshold50"} \X {""} \X {"prod"}

-----------------------------------------------------------------------------
(* Statements. Formal parameters are tuples: <<"milton">>, or                *)
(* <<"milton", "USDT">> where the initializer takes one per asset.           *)
NoWiring == [f \in {} |-> 0]
Formals(r) == [f \in {<<n>> : n \in DOMAIN r} |-> r[f[1]]]
PerAsset(formal, K(_)) == [f \in {<<formal, a>> : a \in Assets} |-> K(f[2])]

Statement(op, key) == [op |-> op, key |-> key, wiring |-> NoWiring, paused |-> FALSE]
New(key, paused, wiring) == [Statement("deploy", key) EXCEPT !.wiring = wiring,
                                                             !.paused = paused]
Implement(key, wiring) == [Statement("implement", Impl(key)) EXCEPT !.wiring = wiring]
Set(key, formal, value) == [Statement("set", key) EXCEPT !.wiring = <<formal>> :> value]
Grant(key, token) == [Statement("grant", key) EXCEPT !.wiring = <<"token">> :> token]

Note(key) == <<Statement("note", key)>>
Require(key) == <<Statement("require", key)>>
Transfer(key) == <<Statement("transfer", key)>>

(* deployer.deploy, then update; deployProxy makes the implementation first, *)
(* and its address is written after the proxy's.                             *)
Deploy(key, wiring) == <<New(key, FALSE, wiring), Statement("record", key)>>
DeployProxy(key, paused, wiring) ==
    <<Implement(key, NoWiring), New(key, paused, wiring),
      Statement("record", key), Statement("record", Impl(key))>>
PrepareUpgrade(key) ==
    <<Implement(key, <<"proxy">> :> key), Statement("record", Impl(key))>>

(* The same for the three assets, in the order the scripts have.             *)
Each(S(_)) == S("USDT") \o S("USDC") \o S("DAI")

-----------------------------------------------------------------------------
(* libs/contracts/deploy and libs/itf/deploy.                                *)
initial_migration == Deploy(Key("Migration", ""), NoWiring)

deploy_ip_token(a) == Deploy(Key("ipToken", a), Formals([asset |-> Key("Token", a)]))
deploy_iv_token(a) == Deploy(Key("ivToken", a), Formals([asset |-> Key("Token", a)]))

deploy_spread_model(b, a) == Deploy(<<"MiltonSpreadModel", a, b>>, NoWiring)

Tokens == PerAsset("asset", LAMBDA a : Key("Token", a))

deploy_ipor_oracle(b) == DeployProxy(<<"IporOracle", "", b>>, FALSE, Tokens)

deploy_milton_storage(a) == DeployProxy(Key("MiltonStorage", a), FALSE, NoWiring)

deploy_strategy_aave(a) == DeployProxy(Key("AaveStrategy", a), FALSE, Formals(
    [asset |-> Key("Token", a), aToken |-> Key("aToken", a),
     addressesProviderAave |-> Key("AaveProvider", ""),
     stakedAave |-> Key("AaveStaked", ""),
     aaveIncentivesController |-> Key("AaveIncentivesController", ""),
     aaveTokenAddress |-> Key("AAVE", "")]))

deploy_strategy_compound(a) == DeployProxy(Key("CompoundStrategy", a), FALSE, Formals(
    [asset |-> Key("Token", a), cToken |-> Key("cToken", a),
     comptroller |-> Key("Comptroller", ""), compToken |-> Key("COMP", "")]))

deploy_stanley(b, a) == DeployProxy(<<"Stanley", a, b>>, FALSE, Formals(
    [asset |-> Key("Token", a), ivToken |-> Key("ivToken", a),
     strategyAave |-> Key("AaveStrategy", a),
     strategyCompound |-> Key("CompoundStrategy", a)]))

deploy_milton(b, a, paused) == DeployProxy(<<"Milton", a, b>>, paused, Formals(
    [asset |-> Key("Token", a), iporOracle |-> <<"IporOracle", "", b>>,
     miltonStorage |-> Key("MiltonStorage", a),
     miltonSpreadModel |-> <<"MiltonSpreadModel", a, b>>,
     stanley |-> <<"Stanley", a, b>>]))

(* Mutant: the ivToken, which Stanley takes in the same place.               *)
deploy_joseph_IvToken(b, a, paused) == DeployProxy(<<"Joseph", a, b>>, paused, Formals(
    [initAsset |-> Key("Token", a), ipToken |-> Key("ivToken", a),
     milton |-> <<"Milton", a, b>>, miltonStorage |-> Key("MiltonStorage", a),
     stanley |-> <<"Stanley", a, b>>]))

deploy_joseph(b, a, paused) == DeployProxy(<<"Joseph", a, b>>, paused, Formals(
    [initAsset |-> Key("Token", a), ipToken |-> Key("ipToken", a),
     milton |-> <<"Milton", a, b>>, miltonStorage |-> Key("MiltonStorage", a),
     stanley |-> <<"Stanley", a, b>>]))

deploy_ipor_oracle_facade(b) ==
    DeployProxy(<<"IporOracleFacadeDataProvider", "", b>>, FALSE,
                Tokens @@ Formals([iporOracle |-> <<"IporOracle", "", b>>]))

Amms(b) == Tokens @@ Formals([iporOracle |-> <<"IporOracle", "", b>>])
           @@ PerAsset("milton", LAMBDA a : <<"Milton", a, b>>)
           @@ PerAsset("miltonStorage", LAMBDA a : Key("MiltonStorage", a))
           @@ PerAsset("joseph", LAMBDA a : <<"Joseph", a, b>>)

deploy_milton_facade(b) == DeployProxy(<<"MiltonFacadeDataProvider", "", b>>, FALSE, Amms(b))

deploy_cockpit(b) == DeployProxy(<<"CockpitDataProvider", "", b>>, FALSE,
    Amms(b) @@ PerAsset("ipToken", LAMBDA a : Key("ipToken", a))
            @@ PerAsset("ivToken", LAMBDA a : Key("ivToken", a)))

deploy_ipor_token == Require(Key("IPOR", ""))
                     \o Deploy(Key("IPOR", ""), Formals([dao |-> Key("DaoWallet", "")]))

deploy_multicall == Deploy(Key("Multicall", ""), NoWiring)

itf_deploy_data_provider == DeployProxy(<<"ItfDataProvider", "", "itf">>, FALSE,
    Tokens @@ Formals([iporOracle |-> <<"IporOracle", "", "itf">>])
    @@ PerAsset("milton", LAMBDA a : <<"Milton", a, "itf">>)
    @@ PerAsset("miltonStorage", LAMBDA a : Key("MiltonStorage", a))
    @@ PerAsset("miltonSpreadModel", LAMBDA a : <<"MiltonSpreadModel", a, "itf">>))

itf_deploy_liquidator(a) == Deploy(<<"ItfLiquidator", a, "itf">>, Formals(
    [milton |-> <<"Milton", a, "itf">>, miltonStorage |-> Key("MiltonStorage", a)]))

-----------------------------------------------------------------------------
(* libs/contracts/setup and libs/itf/setup.                                  *)
setup_ip_token(b) ==
    Each(LAMBDA a : <<Set(Key("ipToken", a), "joseph", <<"Joseph", a, b>>)>>)

setup_iv_token(b) ==
    Each(LAMBDA a : <<Set(Key("ivToken", a), "stanley", <<"Stanley", a, b>>)>>)

SetJoseph(b, a) == <<Set(<<"Milton", a, b>>, "joseph", <<"Joseph", a, b>>)>>
AllowJoseph(b, a) == <<Set(<<"Milton", a, b>>, "allowanceJoseph", <<"Joseph", a, b>>)>>
AllowStanley(b, a) == <<Set(<<"Milton", a, b>>, "allowanceStanley", <<"Stanley", a, b>>)>>
SetThreshold(b, a) ==
    <<Set(<<"Milton", a, b>>, "autoUpdateIporIndexThreshold", Key("Threshold50", ""))>>

(* Mutant: paused again before the allowances.                               *)
SetupPausedMilton_PauseFirst(b, a) ==
    <<Statement("unpause", <<"Milton", a, b>>)>> \o SetJoseph(b, a)
    \o <<Statement("pause", <<"Milton", a, b>>)>> \o AllowJoseph(b, a) \o AllowStanley(b, a)

(* A Milton deployed paused is set up between an unpause and a pause, and    *)
(* gets no threshold.                                                        *)
SetupPausedMilton(b, a) ==
    <<Statement("unpause", <<"Milton", a, b>>)>>
    \o SetJoseph(b, a) \o AllowJoseph(b, a) \o AllowStanley(b, a)
    \o <<Statement("pause", <<"Milton", a, b>>)>>

SetupRunningMiltons(b) ==
    Each(LAMBDA a : SetJoseph(b, a)) \o Each(LAMBDA a : AllowJoseph(b, a))
    \o Each(LAMBDA a : AllowStanley(b, a))

setup_milton(paused) ==
    IF paused THEN Each(LAMBDA a : SetupPausedMilton("prod", a))
    ELSE SetupRunningMiltons("prod") \o Each(LAMBDA a : SetThreshold("prod", a))

itf_setup_milton(paused) ==
    IF paused THEN Each(LAMBDA a : SetupPausedMilton("itf", a))
    ELSE SetupRunningMiltons("itf")

setup_milton_storage(b) ==
    Each(LAMBDA a : <<Set(Key("MiltonStorage", a), "joseph", <<"Joseph", a, b>>)>>)
    \o Each(LAMBDA a : <<Set(Key("MiltonStorage", a), "milton", <<"Milton", a, b>>)>>)

setup_stanley(b) ==
    Each(LAMBDA a : <<Set(<<"Stanley", a, b>>, "milton", <<"Milton", a, b>>)>>)

setup_ipor_oracle_mainnet ==
    Require(Key("IporOracle", ""))
    \o <<Set(Key("IporOracle", ""), "updater", Key("IporIndexUpdater", ""))>>

setup_ipor_oracle(b) ==
    LET oracle == <<"IporOracle", "", b>>
    IN  Require(oracle)
        \o <<Set(oracle, "updaterAdmin", Key("Admin", "")),
             Set(oracle, "updater", Key("IporIndexUpdater", ""))>>

setup_stanley_strategies(b) ==
    Each(LAMBDA a : <<Set(Key("AaveStrategy", a), "stanley", <<"Stanley", a, b>>)>>)
    \o Each(LAMBDA a : <<Set(Key("CompoundStrategy", a), "stanley", <<"Stanley", a, b>>)>>)

(* Every run deploys a faucet of its own and fills it.                       *)
setup_faucet ==
    LET faucet == Key("TestnetFaucet", "")
    IN  DeployProxy(faucet, FALSE, Tokens @@ Formals([iporToken |-> Key("IPOR", "")]))
        \o <<Grant(faucet, Key("Admin", ""))>>
        \o Each(LAMBDA a : <<Grant(faucet, Key("Token", a))>>)
        \o <<Grant(faucet, Key("IPOR", ""))>>

-----------------------------------------------------------------------------
(* libs/mocks.                                                               *)
MockStrategy(kind, share, a) == DeployProxy(Key(kind, a), FALSE, Formals(
    [asset |-> Key("Token", a)] @@ (share :> Key(share, a))))

deploy_mocks == Each(LAMBDA a : Deploy(Key("Token", a), NoWiring))
                \o Each(LAMBDA a : Deploy(Key("aToken", a), NoWiring))
                \o Each(LAMBDA a : Deploy(Key("cToken", a), NoWiring))
                \o Each(LAMBDA a : MockStrategy("AaveStrategy", "aToken", a))
                \o Each(LAMBDA a : MockStrategy("CompoundStrategy", "cToken", a))

FundStrategies ==
    Each(LAMBDA a : <<Grant(Key("AaveStrategy", a), Key("Token", a))>>)
    \o Each(LAMBDA a : <<Grant(Key("CompoundStrategy", a), Key("Token", a))>>)

setup_testnet_strategy(b) == setup_stanley_strategies(b) \o FundStrategies

deploy_mock_ipor_weighted(b) == DeployProxy(Key("IporAlgorithm", ""), FALSE,
    Formals([iporOracle |-> <<"IporOracle", "", b>>]))

-----------------------------------------------------------------------------
(* libs/contracts/upgrade.                                                   *)
upgrade_stanley(a) == PrepareUpgrade(Key("Stanley", a))
upgrade_strategy_aave(a) == PrepareUpgrade(Key("AaveStrategy", a))
upgrade_strategy_compound(a) == PrepareUpgrade(Key("CompoundStrategy", a))
upgrade_milton_v2(a) == PrepareUpgrade(Key("Milton", a))
upgrade_milton_v3(a) == PrepareUpgrade(Key("Milton", a))
upgrade_milton_v3_only_mainnet == PrepareUpgrade(Key("Milton", "USDT"))
upgrade_milton_storage(a) == PrepareUpgrade(Key("MiltonStorage", a))
upgrade_joseph(a) == PrepareUpgrade(Key("Joseph", a))
upgrade_ipor_oracle == PrepareUpgrade(Key("IporOracle", ""))
=============================================================================
