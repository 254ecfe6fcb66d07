--------------------------- MODULE HardhatScripts ---------------------------
(* The deployments by Hardhat: src/scripts/deploy-mainnet.ts and             *)
(* deploy-testnet.ts, each one script with one definition per part. What it  *)
(* deploys is held in variables only; the addresses written into the script  *)
(* are bound first. The deployer's account has the key Admin.                *)
EXTENDS MigrationScripts

HardhatNew(key, wiring) == <<New(key, FALSE, wiring)>>

HardhatProxy(key, wiring) == <<Implement(key, NoWiring), New(key, FALSE, wiring)>>

(* A part that deploys with the arguments that the lib of truffle has.       *)
Unrecorded(steps) == SelectSeq(steps, LAMBDA s : s.op \notin {"record", "require"})

Bind(key) == <<Statement("bind", key)>>

-----------------------------------------------------------------------------
hardhat_addresses ==
    Each(LAMBDA a : Bind(Key("Token", a))) \o Bind(Key("AAVE", ""))
    \o Each(LAMBDA a : Bind(Key("aToken", a)))
    \o Bind(Key("AaveProvider", "")) \o Bind(Key("AaveStaked", ""))
    \o Bind(Key("AaveIncentivesController", "")) \o Bind(Key("COMP", ""))
    \o Each(LAMBDA a : Bind(Key("cToken", a)))
    \o Bind(Key("Comptroller", "")) \o Bind(Key("IporAlgorithm", ""))

hardhat_strategies == Each(LAMBDA a : Unrecorded(deploy_strategy_aave(a)))
                      \o Each(LAMBDA a : Unrecorded(deploy_strategy_compound(a)))

hardhat_tokens == Each(LAMBDA a : Unrecorded(deploy_ip_token(a)))
                  \o Each(LAMBDA a : Unrecorded(deploy_iv_token(a)))

hardhat_spread_models == Each(LAMBDA a : Unrecorded(deploy_spread_model("prod", a)))

hardhat_oracle == Unrecorded(deploy_ipor_oracle("prod"))

hardhat_storages == Each(LAMBDA a : Unrecorded(deploy_milton_storage(a)))

hardhat_stanleys == Each(LAMBDA a : Unrecorded(deploy_stanley("prod", a)))

hardhat_miltons == Each(LAMBDA a : Unrecorded(deploy_milton("prod", a, FALSE)))

(* The ivToken is passed where Joseph's initializer takes the ipToken.       *)
hardhat_josephs == Each(LAMBDA a : HardhatProxy(Key("Joseph", a), Formals(
    [initAsset |-> Key("Token", a), ipToken |-> Key("ivToken", a),
     milton |-> Key("Milton", a), miltonStorage |-> Key("MiltonStorage", a),
     stanley |-> Key("Stanley", a)])))

hardhat_facades == Unrecorded(deploy_ipor_oracle_facade("prod"))
                   \o Unrecorded(deploy_milton_facade("prod"))
                   \o Unrecorded(deploy_cockpit("prod"))

(* All the IPOR tokens go to the deployer.                                   *)
hardhat_ipor_token == HardhatNew(Key("IPOR", ""), Formals([dao |-> Key("Admin", "")]))

hardhat_wiring ==
    setup_ip_token("prod") \o setup_iv_token("prod")
    \o Each(LAMBDA a : SetJoseph("prod", a) \o AllowJoseph("prod", a)
                       \o AllowStanley("prod", a) \o SetThreshold("prod", a))
    \o Each(LAMBDA a : <<Set(Key("MiltonStorage", a), "joseph", Key("Joseph", a)),
                         Set(Key("MiltonStorage", a), "milton", Key("Milton", a))>>)
    \o setup_stanley("prod")
    \o <<Set(Key("IporOracle", ""), "updater", Key("Admin", "")),
         Set(Key("IporOracle", ""), "iporAlgorithmFacade", Key("IporAlgorithm", ""))>>
    \o setup_stanley_strategies("prod")

deploy_mainnet_ts ==
    hardhat_addresses \o hardhat_strategies \o hardhat_tokens \o hardhat_spread_models
    \o hardhat_oracle \o hardhat_storages \o hardhat_stanleys \o hardhat_miltons
    \o hardhat_josephs \o hardhat_facades \o hardhat_ipor_token \o hardhat_wiring

-----------------------------------------------------------------------------
hardhat_mocks == Unrecorded(deploy_mocks)

(* The faucet gets ether and the stable coins, and no IPOR tokens.           *)
hardhat_faucet == HardhatProxy(Key("TestnetFaucet", ""),
    Tokens @@ Formals([iporToken |-> Key("IPOR", "")]))

(* The initializer is given the oracle's proxy object instead of its address,*)
(* which the encoder of ethers rejects: the script stops here.               *)
hardhat_algorithm == HardhatProxy(Key("IporAlgorithm", ""),
                                  Formals([iporOracle |-> Undefined]))

hardhat_multicall == Unrecorded(deploy_multicall)

hardhat_funding == <<Grant(Key("TestnetFaucet", ""), Key("Admin", ""))>>
                   \o Each(LAMBDA a : <<Grant(Key("TestnetFaucet", ""), Key("Token", a))>>)
                   \o FundStrategies

deploy_testnet_ts ==
    hardhat_mocks \o hardhat_tokens \o hardhat_ipor_token \o hardhat_faucet
    \o hardhat_spread_models \o hardhat_oracle \o hardhat_algorithm \o hardhat_storages
    \o hardhat_stanleys \o hardhat_miltons \o hardhat_josephs \o hardhat_facades
    \o hardhat_multicall \o hardhat_wiring \o hardhat_funding

(* The environments of one script; it has no number in its name.             *)
Hardhat(steps) == <<[number |-> 1, steps |-> steps]>>
=============================================================================
