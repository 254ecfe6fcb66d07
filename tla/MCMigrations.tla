---------------------------- MODULE MCMigrations ----------------------------
(* The environments for TLC.                                                 *)
EXTENDS MigrationsSpec, TestnetMigrations, HardhatScripts

(* The build, paused at first or not, with which spread models, up to where. *)
Testnets ==
    [private       |-> [build |-> "prod", paused |-> FALSE, last |-> 100],
     private_itf   |-> [build |-> "itf",  paused |-> TRUE,  last |-> 100],
     testnet_start |-> [build |-> "prod", paused |-> FALSE, last |-> 5],
     testnet_setup |-> [build |-> "itf",  paused |-> TRUE,  last |-> 31]]

Mainnets ==
    [mainnet         |-> [paused |-> TRUE,  spreadOwnable |-> TRUE,  last |-> 100],
     mainnet_to_0057 |-> [paused |-> FALSE, spreadOwnable |-> TRUE,  last |-> 57],
     mainnet_now     |-> [paused |-> FALSE, spreadOwnable |-> FALSE, last |-> 41]]

FirstScripts(scripts, n) == SubSeq(scripts, 1, IF n < Len(scripts) THEN n ELSE Len(scripts))

TestnetScripts(t) == FirstScripts(PrivateTestnet(t.build, t.paused, t.paused), t.last)

MainnetScripts(m) == FirstScripts(Mainnet(m.paused, m.paused, m.spreadOwnable), m.last)

MCProgram ==
    [e \in Environments |->
        IF e \in DOMAIN Testnets THEN TestnetScripts(Testnets[e])
        ELSE IF e \in DOMAIN Mainnets THEN MainnetScripts(Mainnets[e])
        ELSE IF e = "goerli" THEN Goerli(TRUE, FALSE)
        ELSE Hardhat(IF e = "hardhat_mainnet" THEN deploy_mainnet_ts ELSE deploy_testnet_ts)]

(* The process dies anywhere in the testnets' scripts, and on mainnet, up to *)
(* the script that repairs 0056, in those the testnets do not have: the      *)
(* hand-over and the two scripts numbered 56.                                *)
MCMayDie(e, number) ==
    \/ e \in {"private", "private_itf", "goerli", "testnet_start"}
    \/ e = "mainnet_to_0057" /\ number \in {41, 56}
    \/ e = "testnet_setup" /\ number = 30

(* It dies twice where that is cheap: among the first scripts, in the one    *)
(* that unpauses and pauses, and in those of mainnet.                        *)
MCMaxFaults ==
    [e \in Environments |->
        IF e \in {"testnet_start", "testnet_setup", "mainnet_to_0057"} THEN 2 ELSE 1]

MCMigrationKey == Key("Migration", "")
=============================================================================
