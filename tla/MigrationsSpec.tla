--------------------------- MODULE MigrationsSpec ---------------------------
(* What must hold of an environment while its migrations run, die and are    *)
(* started again.                                                            *)
EXTENDS Migrations, SequencesExt

Now(k) == chain[book[k]]

Recorded == {k \in DOMAIN book : book[k] \in DOMAIN chain}

(* At most one death, or none that made truffle pass a script over.          *)
Whole == faults <= 1 \/ passedOver = {}

-----------------------------------------------------------------------------
(* The scripts run once each, in their order, by a process that never dies.  *)
RunScript(w, s) == [FoldLeft(After, [w EXCEPT !.script = @ + 1], s.steps)
                        EXCEPT !.memory = Empty]

Undisturbed ==
    [e \in Environments |->
        [i \in 0..LastOf(e) |-> FoldLeft(RunScript, NoWorld, SubSeq(Program[e], 1, i))]]

(* A world seen through the address book: for each key, what its contract    *)
(* refers to by key, whether that is the contract the book has under the key,*)
(* whether it is paused, and whether it is on its way to the owner.          *)
Seen(w) ==
    LET IsCurrent(a) == a[1] \in DOMAIN w.book /\ w.book[a[1]] = a
        Contracts == {k \in DOMAIN w.book : w.book[k] \in DOMAIN w.chain}
        Of(k) == w.chain[w.book[k]]
    IN  [keys |-> DOMAIN w.book,
         contracts |-> [k \in Contracts |->
             [slots |-> [f \in DOMAIN Of(k).slots |->
                            <<Of(k).slots[f][1], IsCurrent(Of(k).slots[f])>>],
              paused |-> Of(k).paused,
              leaving |-> Of(k).appointed \/ Of(k).owner = "owner"]]]

Expected == [e \in Environments |-> [i \in 0..LastOf(e) |-> Seen(Undisturbed[e][i])]]

(* migrations/README.md: the state of the contracts is determined by the     *)
(* migration scripts. Wherever processes died before, and however often, at  *)
(* the end of a script the book and the contracts in it are those of a run   *)
(* without faults, up to which deployment of a key the book has.             *)
StateIsDetermined == ScriptEnds /\ Whole => Seen(world) = Expected[env][script]

(* At the end of a script no contract in the book refers to one that has     *)
(* been deployed anew since: what a script that died left behind is replaced *)
(* together with all that refers to it. Only the spread models are replaced  *)
(* by later scripts; Milton keeps the old one until its owner sets the new.  *)
NoStaleReference ==
    ScriptEnds /\ Whole =>
        \A k \in Recorded : \A f \in DOMAIN Now(k).slots :
            LET a == Now(k).slots[f]
            IN  a[1] \in DOMAIN book /\ a[1][1] # "MiltonSpreadModel" => book[a[1]] = a

-----------------------------------------------------------------------------
(* The kinds of contract each formal parameter is for.                       *)
Fills ==
    [asset |-> {"Token"}, initAsset |-> {"Token"}, aToken |-> {"aToken"},
     cToken |-> {"cToken"}, ipToken |-> {"ipToken"}, ivToken |-> {"ivToken"},
     addressesProviderAave |-> {"AaveProvider"}, stakedAave |-> {"AaveStaked"},
     aaveIncentivesController |-> {"AaveIncentivesController"},
     aaveTokenAddress |-> {"AAVE"}, comptroller |-> {"Comptroller"},
     compToken |-> {"COMP"}, strategyAave |-> {"AaveStrategy"},
     strategyCompound |-> {"CompoundStrategy"}, iporOracle |-> {"IporOracle"},
     miltonStorage |-> {"MiltonStorage"}, miltonSpreadModel |-> {"MiltonSpreadModel"},
     stanley |-> {"Stanley"}, milton |-> {"Milton"}, joseph |-> {"Joseph"},
     allowanceJoseph |-> {"Joseph"}, allowanceStanley |-> {"Stanley"},
     iporToken |-> {"IPOR"}, iporAlgorithmFacade |-> {"IporAlgorithm"},
     dao |-> {"DaoWallet", "Admin"}, updater |-> {"IporIndexUpdater", "Admin"},
     updaterAdmin |-> {"Admin"}, autoUpdateIporIndexThreshold |-> {"Threshold50"}]

Built == {"MiltonSpreadModel", "IporOracle", "Stanley", "Milton", "Joseph"}

(* The implementation for a proxy is made for that proxy; any other contract *)
(* is given, for each formal, one of the right kind, of its own asset or of  *)
(* the asset of the formal, and of its own build where there are two.        *)
Fits(holder, formal, value) ==
    IF formal[1] = "proxy" THEN holder = Append(value, "impl")
    ELSE LET asset == IF Len(formal) = 2 THEN formal[2] ELSE holder[2]
         IN  /\ value[1] \in Fills[formal[1]]
             /\ value[2] \in {asset, ""}
             /\ {holder[1], value[1]} \subseteq Built => holder[3] = value[3]

(* The deployments by Hardhat pass Joseph another token (JosephGetsIpToken).  *)
Misfit(e, holder, formal) ==
    e \notin Truffle /\ holder[1] = "Joseph" /\ formal = <<"ipToken">>

(* Every script hands each initializer and setter the contract it asks for.  *)
RolesRespected ==
    \A a \in DOMAIN chain : \A f \in DOMAIN chain[a].slots :
        Misfit(env, a[1], f) \/ Fits(a[1], f, chain[a].slots[f][1])

(* JosephInternal.sol:84 and the libs of truffle: Joseph issues and burns    *)
(* the ipToken it is initialized with, which obeys it.                       *)
JosephGetsIpToken ==
    \A a \in DOMAIN chain :
        a[1][1] = "Joseph" /\ <<"ipToken">> \in DOMAIN chain[a].slots
            => Fits(a[1], <<"ipToken">>, chain[a].slots[<<"ipToken">>][1])

-----------------------------------------------------------------------------
NotOwnable == {"Migration", "Multicall", "IPOR"}

(* The scripts that hand over ownership leave no contract in the book with   *)
(* the deployer alone.                                                       *)
NobodyLeftBehind ==
    (/\ ScriptEnds
     /\ \E i \in 1..Len(Steps(env, script)) : Steps(env, script)[i].op = "transfer")
        => \A k \in Recorded : Len(k) = 3 /\ k[1] \notin NotOwnable =>
               Now(k).appointed \/ Now(k).owner = "owner"

(* Tokens are sent to a contract once per run of the script: a process that  *)
(* died costs at most one more time.                                         *)
FundedOncePerAttempt ==
    ScriptEnds => \A k \in Recorded :
        LET calm == Undisturbed[env][script]
        IN  Now(k).grants <= calm.chain[calm.book[k]].grants * (1 + faults)

(* json_func.js:35: the file is one ahead of the contract while a script     *)
(* ends. With the gap at 48, two scripts with number 56 and a transaction    *)
(* mined late it is wrong, but never by more than one.                       *)
FileOffByOneAtMost == lastFile - completed \in {-1, 0, 1}

-----------------------------------------------------------------------------
ReadBy(e, i) == UNION {{Steps(e, i)[j].wiring[f] : f \in DOMAIN Steps(e, i)[j].wiring} :
                          j \in 1..Len(Steps(e, i))}
MadeBy(e, i) == {Steps(e, i)[j].key : j \in {n \in 1..Len(Steps(e, i)) :
                                            Steps(e, i)[n].op \in Creating \cup {"record", "note", "bind"}}}

(* What the i-th script reads although no script so far makes it.            *)
NeverRecorded ==
    [e \in Environments |-> [i \in 1..LastOf(e) |->
        ReadBy(e, i) \ (Accounts \cup UNION {MadeBy(e, j) : j \in 1..i})]]

NeedsOwner == OnContract \ {"grant"}

Given(k) == k \in Recorded /\ Now(k).owner = "owner"

(* A statement throws for one of three reasons: it is given what no script   *)
(* so far has made, the owner confirmed before the script that appoints it   *)
(* was completed and the script ran again, or a process died with Milton     *)
(* running between the unpause and the pause of its setup. A script runs     *)
(* again because a process died or, for ever, for the first reason.          *)
FailsForAReason ==
    LET missing == NeverRecorded[env][script]
    IN  Failing => \/ \E f \in DOMAIN Current.wiring : Current.wiring[f] \in missing
                   \/ faults > 0 /\ Current.op = "unpause"
                   \/ /\ faults > 0 \/ missing # {}
                      /\ Current.op \in NeedsOwner /\ Given(Current.key)

-----------------------------------------------------------------------------
(* What the proofs ask of the scripts of each environment.                   *)
Made == [e \in Environments |-> UNION {MadeBy(e, i) : i \in 1..LastOf(e)}]

Throws(e, s) == \E f \in DOMAIN s.wiring : s.wiring[f] \notin Accounts \cup Made[e]

(* Statements that are given what no script makes: they always throw.        *)
Impossible ==
    [e \in Environments |->
        {s \in UNION {Statements[e][i] : i \in 1..LastOf(e)} : Throws(e, s)}]

(* Each script writes the number and no two numbers in a row are missing; or *)
(* there is one script, which writes nothing.                                *)
KeepsNumbers(e) ==
    LET used == {Program[e][i].number : i \in 1..LastOf(e)}
        Writes(i) == \E s \in Statements[e][i] : s.op = "updateLast"
    IN  IF e \in Truffle
        THEN /\ \A i \in 1..LastOf(e) : Writes(i)
             /\ \A n \in used : n <= 2 \/ n - 1 \in used \/ n - 2 \in used
        ELSE LastOf(e) = 1 /\ used = {1} /\ ~Writes(1)

(* Whatever a deployment or a setter is given fits.                          *)
KeepsRoles(e) ==
    \A i \in 1..LastOf(e) : \A s \in Statements[e][i] \ Impossible[e] :
        s.op \in Creating \cup {"set"} =>
            \A f \in DOMAIN s.wiring : Misfit(e, s.key, f) \/ Fits(s.key, f, s.wiring[f])

CreatedBy(e, i) == {s.key : s \in {x \in Statements[e][i] : x.op \in Creating}}

TransferredBy(e, i) == {s.key : s \in {x \in Statements[e][i] : x.op = "transfer"}}

(* The contracts that the scripts up to a number deploy.                     *)
CreatedUpTo(e, n) ==
    UNION {CreatedBy(e, i) : i \in {j \in 1..LastOf(e) : Program[e][j].number <= n}}

(* A script that hands over ownership makes nothing, and hands over all that *)
(* the scripts so far deployed, or never gets to its end.                    *)
HandsOverAll(e) ==
    \A i \in 1..LastOf(e) : TransferredBy(e, i) # {} =>
        /\ MadeBy(e, i) = {}
        /\ \/ Statements[e][i] \cap Impossible[e] # {}
           \/ \A k \in CreatedUpTo(e, Program[e][i].number) :
                 Len(k) = 3 /\ k[1] \notin NotOwnable => k \in TransferredBy(e, i)

Complete == [e \in Environments |-> KeepsNumbers(e) /\ KeepsRoles(e) /\ HandsOverAll(e)]

(* The files under migrations/envs are written by copying and nothing checks *)
(* them: each must end with updateLastCompletedMigration, give each contract *)
(* what fits it, and, if it calls transferOwnership, do so for all contracts *)
(* deployed by then (0041). What is proved of all scripts rests on this.     *)
ScriptsAreComplete == Complete[env]
=============================================================================
