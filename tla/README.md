# Formal model of the IPOR protocol

TLA+ specifications of the smart contracts in `src/contracts` and of the scripts that
deploy them (`src/migrations`, `src/scripts`), the TLC configurations that check them on
small instances, and proofs checked by TLAPS. Paths below are relative to
`src/contracts` unless they start with `src/`; in the sections on migrations `libs` and
`envs` are directories of `src/migrations`.

## 1. The system

The protocol sells interest rate swaps on one asset (DAI, USDC, USDT; one set of
contracts per asset). A buyer of a *pay-fixed* swap pays a fixed rate on a
leveraged notional and receives the floating IPOR rate, a buyer of a
*receive-fixed* swap the reverse. Liquidity providers are the counterparty of
every swap.

### 1.1 Components, their state and operations

| Component | Source | State | Operations that change it |
|---|---|---|---|
| MiltonStorage | `amm/MiltonStorage.sol` | id counter, swaps and ids per leg, balances, SOAP indicators, contributions, writers, paused | open, close, book a deposit to or a withdrawal from Stanley, add or subtract liquidity, book a treasury transfer, set the writers, pause |
| Milton | `amm/Milton.sol`, `amm/MiltonInternal.sol` | its tokens, paused, addresses | open a swap, close one or many, close in emergency, move tokens to and from Stanley |
| Joseph | `amm/pool/Joseph.sol`, `amm/pool/JosephInternal.sol` | balance ratio, limits, treasuries, paused | provide, redeem, rebalance, move tokens by hand, pay out treasuries |
| Stanley | `vault/Stanley.sol` | the two strategies, share token, paused | deposit, withdraw, withdraw all, migrate, replace a strategy |
| Strategies | `vault/strategies/*` | aTokens or cTokens, addresses, paused | deposit, withdraw, claim rewards |
| ipToken, ivToken | `tokens/*` | balances | mint, burn, transfer |
| IPOR oracle | `oracles/*` | per asset: index, price of the interest bearing token (IBT), moving average and variance, time of update | publish one index or a list, add or remove an asset or an updater, set the algorithm, pause |
| Spread model | `amm/spread/*` | none | quotes |
| Libraries | `libraries/math`, `amm/libraries` | none | fixed point arithmetic, swap arithmetic, SOAP |
| Ownership | `security/*` | owner, appointed owner | appoint, confirm, renounce |
| Migrations | `src/migrations`, `src/run.sh`, `Migrations.sol` | address book and last number (files), last number (contract) | run a script: deploy, record an address, call setters, pause, hand over; die; start again |
| Hardhat deployments | `src/scripts` | none that outlives the process | run the script |
| Facades, test contracts, mocks | `facades`, `itf`, `mocks` | none of the protocol | views and test doubles |

### 1.2 How they interact

A buyer calls Milton, which reads the oracle's accrued IBT price, asks the spread
model for a quote, has MiltonStorage book the swap and then moves tokens. Closing
books first, then pays the buyer; when Milton has too few tokens it asks Stanley
for more; the liquidation deposits of swaps closed for others are paid by one
transfer at the end. A liquidity provider calls Joseph, which prices ipTokens at
(pool + unbooked interest - SOAP) / supply, has MiltonStorage book the change,
moves tokens of Milton and may call Milton to rebalance with Stanley. Stanley puts
tokens into the strategy with the higher APR and takes them from the other first;
what the strategies hold above what MiltonStorage has booked is interest of the
pool that is booked at the next move. All calls are synchronous: a transaction
runs to its end or reverts as a whole. What interleaves are transactions of
different actors, the passing of time, the IBT price, and the interest and APR of
the strategies.

The contracts come to be by *migrations*: numbered scripts per network, of which each
calls a script under `libs`. `run.sh` starts truffle, which reads the last completed
number from the `Migrations` contract, runs the later scripts in their order and writes
the number after each. A script finds what earlier ones deployed in an address book, a
file to which it adds what it deploys itself, and ends by writing its number to another
file. So there are three records of how far a migration is - contract, file, book - that
no transaction keeps together, and a process that can die between any two statements.

### 1.3 What is hard

* **Long sequences.** The per-buyer lists of ids use swap-and-pop with a back
  pointer; totals are kept by increments; SOAP is an aggregate rebalanced by every
  open and close. An error would show only after many calls.
* **Several views of one number.** The pool is booked without the interest Stanley
  earned since the last move, and accrued with it. Stanley's balance is a sum of
  strategy balances in one place and shares times a rounded rate in another.
* **Rounding.** Every conversion rounds; the ledger must not lose or invent
  tokens beyond that, and checked subtractions must not revert because of it. Compound
  rounds most: minting truncates to cTokens, a balance is taken at a rate stored earlier,
  redeeming rounds the cTokens half up and pays what the market makes of them.
* **One transaction, many steps.** A batch closes swaps of both legs, each on what
  the ones before left, may withdraw from Stanley for each, and pays at the end.
* **Partial results.** Stanley may pay less than it was asked for, and succeeds.
* **Administration.** The contracts pause independently; writers are renamed; owners
  hand over in two steps and may renounce.
* **Deployment.** A script that died half way runs again from its beginning, on the
  contracts and files the first attempt left, perhaps after a transaction of the first
  that was mined late, or after the new owner has taken over some of the contracts.
* **Publications.** The oracle accrues a price with the index that was in force, in
  lists that may name an asset twice, over a decay factor made of three lines.

### 1.4 What makes each component correct

* MiltonStorage: lists and swaps agree; ids are given out once; collateral and SOAP
  totals are those of the active swaps; terms are frozen; only the named writers write.
* SOAP: the sum of the payoffs up to the roundings; it does not block a close otherwise.
* Milton: tokens and claims balance; the pool covers the largest payoffs.
* Joseph: liquidity providers keep their share; redemption respects the collateral.
* Stanley: what is booked is there, and moves keep the value of the pool, but for what
  Compound's cTokens round.
* Oracle: the IBT price is 1.0 plus the integral of the index; the moving average stays
  within what was published; a second publication in a block replaces the index only.
* Ownership: what nobody owns nobody administers.
* Migrations: whatever dies, the book and the contracts in it end up as the scripts say,
  refer to nothing that was replaced, and are all handed over; scripts run in order, and
  those that fail do so for a known reason.

`PROJECT.json` lists every hazard with its line and the properties that cover it.

## 2. The modules

| Module | Models | Form |
|---|---|---|
| `IporMath` | `libraries/math/IporMath.sol` | operators |
| `IporSwapLogic` | `amm/libraries/IporSwapLogic.sol` | operators |
| `SoapIndicatorLogic` | `amm/libraries/SoapIndicatorLogic.sol` | operators |
| `MiltonStorage` | `amm/MiltonStorage.sol` | variables, one action per external function |
| `MiltonStorageSpec` | the storage with the callers it has | specification, properties |
| `SoapDrift` | the same with history variables for rounding | specification, properties |
| `MiltonStorageProofs` | | theorems about `MiltonStorageSpec`: types, index, ids, terms |
| `FiniteSums` | | lemmas about sums over finite sets |
| `MiltonStorageLemmas` | | lemmas about one leg's swaps and lists, without the storage's state |
| `MiltonStorageSums` | | theorems about `MiltonStorageSpec`: totals |
| `SoapDriftProofs` | | theorems about `SoapDrift` |
| `Stanley` | `vault/Stanley.sol` and the strategies, on Aave's and Compound's markets | functions of a vault record |
| `Joseph` | the arithmetic of `amm/pool/Joseph.sol` | operators |
| `Milton` | `amm/Milton.sol`, `amm/MiltonInternal.sol` | functions of a transaction record |
| `Amm` | Milton, MiltonStorage, Joseph, ipToken, Stanley together | specification, properties |
| `AmmProofs` | | theorems about `Amm` |
| `IporOwnable` | `security/IporOwnableUpgradeable.sol` and the OpenZeppelin contract below it | variables, actions |
| `IporOracle` | `oracles/IporOracle.sol` and its libraries | variables, one action per external function |
| `IporOracleSpec` | the oracle with its callers, its ownership and history variables | specification, properties |
| `IporOracleProofs` | | theorems about `IporOracleSpec` |
| `MigrationSteps` | what one statement does to the chain and the address book | operators on a world record |
| `Migrations` | truffle's loop with `libs/json_func.js`, `Migrations.sol`, `src/run.sh`; deaths, restarts, the owner | variables, one action per kind of statement or event |
| `MigrationOrder` | what a sequence of migrations promises | abstract specification |
| `MigrationScripts` | `libs` | one sequence of statements per script |
| `MainnetMigrations`, `TestnetMigrations` | `envs/mainnet`, `envs/private-testnet`, `envs/goerli` | one definition per file |
| `HardhatScripts` | `src/scripts/deploy-mainnet.ts`, `deploy-testnet.ts` | one definition per part |
| `MigrationsSpec` | | properties, and the conditions on scripts that the proofs use |
| `MigrationsProofs` | | theorems about `Migrations` and `MigrationsSpec` |
| `MC...` | | values of constants for TLC |

The arithmetic modules extend each other in the order above; `MiltonStorage`
extends them, `MiltonStorageSpec` and `Milton` extend `MiltonStorage`, and `Amm`
extends `Milton`, which also extends `Stanley` and `Joseph`. `IporOracle` extends
`IporMath` and `IporOwnable`; it is not yet composed with `Amm`. `Migrations` extends
`MigrationSteps` and takes the scripts as a constant, so that what is proved of it holds
for any scripts; `MCMigrations` joins it with the scripts of the repository.

### 2.1 Correspondence with the code

* The two legs are symmetric in the code, function by function; the model has one
  definition with a parameter `leg`.
* `swaps[leg][id]`, `ids[leg][buyer]`, `balances`, `soap[leg]`, `contribution`,
  `milton`, `joseph` and `paused` are the storage's fields. `cash` is Milton's
  balance of the asset in its own decimals, `vault` is Stanley with its two places for
  strategies (`at`), the share tokens that every strategy contract has (`held`: aTokens, which
  are units of the asset, or cTokens), who may take the asset (`approved`), Compound's
  exchange rate as it was stored last and as it would be stored now (`stored`, `current`),
  `ipTokens` the balances of ipToken, `ratio` Joseph's `_miltonStanleyBalanceRatio`.
* A revert undoes everything, so a failing `require`, cast, checked subtraction or
  token transfer makes the action impossible. The arithmetic that could revert has a
  guard: `Fits`, `CanRebalanceWhenCloseSwap`, `CanBookDeposit`, ...
* A transaction of Milton applies several changes, some of them several times. It is
  computed on a record `tx` that starts as the current state (`NewTx`), carries
  `ok`, and is committed at the end (`Commit`). The steps have the code's order:
  `CloseSwapTx` books and then pays (`TransferDerivativeAmount`), `CloseLegTx` loops
  over a list, `TransferLiquidationDeposit` pays at the end.
* `Amm` has four history variables that no guard reads but for a bound: `unowned` adds up what was
  booked as being on Stanley and as nobody's, `hidden` is the most that one check of the
  pool's size overlooked, and `vault` counts how often cTokens were minted or redeemed
  (`conversions`) and how often when Milton was last told the balance (`reported`).
* `MiltonStorageSpec` calls the storage with arguments in the shape Milton and
  Joseph pass: a swap to close is the stored one, its payoff is computed by
  `CalculatePayoff`; amounts come from a set. `Amm` computes everything as the code does.
* `indexes` is the oracle's mapping; `delete` writes `NoIndex`, and an asset is
  supported while its price is not zero. `_updateIndex` is split into what it stores
  (`Published`) and when it does not revert (`CanPublish`). `updateIndexes` loops over
  its list: the function `after` of `PublishedList` holds the indexes after each entry,
  and one failing entry makes the whole call impossible.
* `IporOracleSpec` has two history variables: `earned` adds up, second by second, the
  index in force, and `published` collects the first average and the values published
  since an asset was added. No guard reads them.
* Solidity's integers: stored widths are the constants `MAX_UINT32`, `MAX_UINT64`,
  `MAX_UINT128`. Intermediate values are unbounded (uint256 does not overflow with
  values that fit the stored types).
* Fixed point: `D18` is a constant. Small instances use 10 or 100, which makes every
  rounding of the code large relative to the amounts, hence visible.

* A migration script is data: a sequence of statements of one of ten kinds (`Ops`), with
  the key of the contract in the address book and, by formal parameter, the keys of what
  is passed. `deployProxy` is four statements, between which the process can die: the
  implementation, the proxy, and `func.update` of either. The libs have a copy per asset
  and per build that differ in the keys; the model has one with parameters. The
  `artifacts`, gas and numeric parameters of initializers are left out.
* `chain` has, per address, what the scripts set up of a contract: the addresses it was
  given, its owner, whether it is paused, how often tokens were sent to it. An address
  is a key with a number: proxies are new at every deployment, while the upgrades plugin
  finds an implementation that it deployed before.
* `book`, `lastFile` are the two files; `completed` is `last_completed_migration`;
  `inflight` a `setCompleted` sent and not mined; `memory`, `script`, `todo` the running
  script's variables and place. A statement that throws (`Accepted` says when: an
  argument undefined, not the owner, paused or not) is `Fail` and stops truffle.
* `Restart` is `run.sh migrate`; a clean start (`migrate-clean`, refused on mainnet and
  goerli) is the initial state.
* `passedOver` is a history variable: scripts unfinished when a later one was started.

### 2.2 The environment

`Tick` in `Amm` lets one unit of time pass and in the same step lets the IBT price
rise or stay, each Aave contract with a balance earn whole units of the asset or nothing,
Compound's rate rise and be stored by somebody else or not, and the higher APR change
sides. Quotes are any of a set: the spread model bounds them by no invariant of the AMM,
and the acceptable rate the buyer gives only refuses some of them. Owner, treasury
managers and appointed rebalancers may act at any moment, so every such action is always
possible.

The strategies are in `Stanley` with their roundings. On Aave an aToken is a unit; the
amount is rounded to nearest, and that is paid. On Compound (`vault/strategies/StrategyCompound.sol`)
a deposit mints `amount / rate` cTokens, rounded down, `balanceOf` is the cTokens at the rate
*stored*, and a withdrawal rounds the amount down to the asset's decimals, redeems
`amount / stored rate` cTokens, rounded half up, and pays what arrived: the cTokens at the
*current* rate, rounded down, since the market accrues and stores its rate before it mints
or redeems. So a withdrawal may pay less or more than was asked, fail because the cTokens
are one too few, or leave cTokens behind. Markets are external, and two things of them are left
out: they round their own rate in every accrual, in favour of who holds cTokens, and when
they are short of cash the transaction reverts, which is as if it had not been tried.

No fairness is assumed of the contracts and no liveness is claimed: nothing in them
runs by itself, so the code justifies no assumption that anyone ever calls it.
Deadlock checking is off because time, ids and amounts are bounded, so the models stop;
migrations stop when all are done or when a script fails for good.

`Migrations` has fairness: `WF(Proceed)`, a process that runs goes on; `WF(Restart)`, one
that stopped is started again, which is what a failed `run.sh` asks of the person who
called it; `SF(RepairPause)`, who starts a migration again and again looks at why it
fails and pauses the Milton that a dead process left running - strong, because the repair
is possible only between two attempts. That the process dies, that a parameter is missing
or that the owner confirms is under no fairness.

## 3. What the runs check

### MiltonStorage

`storage_index` - two buyers (symmetric), three ids, both legs, one unit of time before
maturity ends and one after, closing by the buyer, others and the owner; every other
writing function, called by Milton, Joseph and the owner; a `uint128` of 30, so that sums
overflow. Three ids are the least that move a swap in a list and leave one on the other
leg; the proof has any number.
* `TypeOK`: values fit their fields.
* `IndexConsistent`: every active swap is listed where it says, every entry is an
  active swap of its buyer that remembers this place.
* `IdsGivenOutOnce`: an id names one swap on one leg.
* `CollateralBacked`, `SoapTotalsBacked`: totals are sums over the active swaps.
* `SwapsFrozen` (action): a swap's terms never change, a closed swap never changes.
* `NoWriterNoBooks`: no books before a writer is named, and none of the other writer's.

`storage_paused` (violation) - see 5.

`soap_drift` - three ids, rates 0, 1 and 3 of 10, notionals 10 and 30, so that averages
round up, down and not at all; three points in time. Two history variables add up,
per leg, the half units lost by each rounding of the average and, multiplied by the
time it was used, of the interest.
* `SoapIsSumOfPayoffs`: SOAP differs from the sum of the payoffs, before they are
  capped, by no more than the recorded roundings. A lost or repeated interest of a
  swap exceeds them.
* `SoapBlocksOnlyWithinRounding`: whenever the other swaps outweigh the recorded
  roundings, the indicators let a swap leave. (They can block it within them: a
  leg with a rate of zero for the remaining swap and an average rounded down.)

### The AMM

All runs start empty. `D18 = 100`, utilization limits 80% and 50%, redemption limit
100%, fees of 1 to 10%, leverage 10, so that a swap of 250 has a collateral of about
139 and its payoff reaches the cap when the price moves by a tenth.

`amm_ledger` - two accounts, two swaps, provisions of 200 up to a pool of 410
(one does not admit a swap, two do), cTokens worth 2.5 units and then 2.7, all lists of up to two
ids for both legs including an id twice, the price may rise by 10%; Milton is paused and
resumed, and while it is paused the owner closes swaps in emergency, one and in lists.
* `TypeOK`.
* `LedgerBalanced`: Milton's tokens plus what is booked on Stanley equal the sum of
  the claims (pool, collaterals, fees, treasury, liquidation deposits) and of `unowned`, up
  to a rounding per swap ever opened. `unowned` is what the strategies have when a deposit is
  booked while nothing was: the code books it as being there and gives it to nobody
  (`amm/MiltonStorage.sol:457`).
* `PoolCoversCollateral`: the pool with its interest covers the largest payoff of all
  open swaps at once, with what replaced contracts kept and what is nobody's, but for
  `CompoundRoundings` - one rounding for every time that cTokens were converted - and for
  `hidden`. A utilization of at most 1.0 is rounded half up, so that a check of a pool
  overlooks up to the pool over twice 1.0; and `totalBalance` may count shares of Stanley
  that stand for more than the strategies have. `hidden` is the largest of these so far, and
  not their sum: each check measures all open swaps anew.

`amm_liquidity` - two providers, redemptions of 150, one swap, automatic rebalancing
at 200, to Compound first, with cTokens worth 2.5 units and a rate that rises and is stored
late, treasuries paid out. `LedgerBalanced` and `PoolCoversCollateral` under redemptions, and
* `ProvidersKeepTheirShare` (action): when ipTokens are minted the pool is worth more by
  what they stand for at the value of a share, and when some are burnt, less by no more
  than that, also when the same transaction moves tokens to or from Stanley. Worth is the
  whole pool - with the interest that Compound has not stored yet - less SOAP. The allowance is that of
  the code's divisions - half a unit of the exchange rate, of the ipTokens, of the amount, and
  of the asset - and `StepRounding`, the roundings of the cTokens that the move converted.
  (A fixed allowance would hold on the instance and not in general: the error of a rounded
  exchange rate grows with the number of ipTokens.)

`amm_vault` - a unit of the asset is 10 units of WAD and a cToken is worth 6 of them at first,
so that one redeemed too many or too few is seen as half a unit of the asset; deposits,
withdrawals, withdrawal of all, rebalancing at two ratios, migration, interest on either
strategy, either of them paying more from the start (`FirstMax`) or later, Stanley paused;
the owner replaces the Aave contract and the Compound contract by another, by itself and
back. No swaps: only the pool's tokens move.
* `LedgerBalanced` with the roundings of the asset's decimals; a Compound contract that comes
  back with what it kept, while nothing is booked, makes `unowned` positive.
* `VaultNeverOverbooked`: the strategies hold what is booked, but for what a replaced
  Compound contract could not pay and for one rounding per conversion since Milton was last
  told the balance. A deposit is booked as if its cTokens were worth all of it, so the books
  are often ahead, and then every transaction that moves tokens to or from Stanley reverts -
  the case of the comment at `amm/MiltonStorage.sol:429`. The property says for how much
  earned by the strategies that lasts at most.
* `ReplacedContractsAreLeft`: a contract out of use has no allowance, nothing on Aave, and on
  Compound fewer cTokens than a unit of the asset and one cToken more could buy at first.
* `SharesEndWithTokens`: of a withdrawal that takes the last tokens of the strategies, no
  more shares of Stanley are left than the roundings of the rate and of the shares burnt.
  `totalBalance` takes leftover shares at a rate of 1.0 (`_calcExchangeRate` with no
  assets), so that a redeem would be measured against tokens that nobody holds.
* `MovesKeepThePool` (action): moves, migrations, replacements and treasury payments change
  the whole pool by `StepRounding` only: a rounding for each conversion of cTokens in the
  step, which is none where only Aave or Milton is involved. What a replaced contract
  kept and what was booked for nobody are included.

One rounding (`CompoundRounding`) is a unit of the asset, a cToken, and one unit of WAD for the two
halves by which balances are rounded.

One call of the owner that nothing in `_setStrategy` refuses is left out of
`MCReplacements`, because the run would show it to break a property: the contract of one
place put in the other place is counted twice, and half of it is booked as interest
(`MovesKeepThePool`). A contract set in its own place is included: it loses its allowance,
and deposits revert until it is set again from another one.

`amm_booked`, `amm_payable` (violations) - see 5.

### The oracle

`oracle_index` - two assets (symmetric), values 60 and 400 of a unit of 100, all lists of
two publications (an asset may come twice), publishing alone and by the algorithm, three
seconds, assets added with timestamp 0 or 2, behind or ahead of the block, and removed,
ownership appointed, confirmed and renounced. The decay factor is 1.0, 0.6, 0.14 and 0
after 0 to 3 seconds, so that each line and each of their ends is met; the variance of
400 a second after an asset was added exceeds its limit, the price its width after three
seconds at 400.
* `TypeOK`: a list either fits everywhere or is refused as a whole.
* `PriceIsIntegral`: the accrued price is 1.0 plus `earned`, for an asset whose timestamp
  has been reached.
* `AverageWithinPublished`: two published values enclose the moving average.
* `RepublishingMovesOnlyTheIndex` (action): after a publication in the same block only
  the index changes, until the asset is removed.
* `OrphanedIsFrozen` (action): without owner and appointed owner no call changes who
  publishes, the supported assets, the algorithm or the pause, or brings back an owner.
  One account calls everything here, as the owner, as the appointed owner and as neither;
  the proof has any number of accounts.

`oracle_renounced` (violation) - see 5.

### Migrations

`migrations` - ten environments, each an initial state of its own: private-testnet as
production and as test build (the latter with everything paused at first), goerli,
mainnet to its last script and up to 0057 with the contracts that those scripts met when
they were written, mainnet with the contracts of today (`mainnet_now`), the first five and
the first 31 scripts of private-testnet, and the two deployments by Hardhat.
* `TypeOK`.
* `BookNamesDeployed`: at every statement, each name in the book and each reference
  between contracts is that of a deployed contract or of one from before.
* `StateIsDetermined`: at the end of a script the book and the contracts in it are those
  of a run in which nothing died - `src/migrations/README.md` says "Binary state of
  smart contracts on Mainnet is determined by incremental migration scripts". It compares
  what refers to what, what is paused and what is handed over, up to which deployment of a
  key the book has.
* `NoStaleReference`: at the end of a script no contract refers to one that was replaced.
  (Spread models are replaced on purpose; Milton keeps the old one until its owner acts.)
* `RolesRespected`: every initializer and setter gets a contract of the kind, asset and
  build that it asks for, in all scripts of all networks.
* `NobodyLeftBehind`: after a hand-over no contract in the book is the deployer's alone.
* `FundedOncePerAttempt`: faucet and strategies get tokens once per start of the script.
* `FileOffByOneAtMost`: the number in the file is never more than one from the contract's.
  It is one too small on mainnet between 0047 and 0049, since there is no 0048, and one
  too large after the first 0056.
* `FailsForAReason`: a statement throws only because nothing has made what it is given, or
  when its script runs again, because Milton was left running or the owner has already
  confirmed. The first happens in three places: 0034 of goerli reads the IPOR token, 0041
  of mainnet calls a method that the spread models of today do not have, and
  `src/scripts/deploy-testnet.ts` passes an object for an address.
* `PassedOverForAReason`: a script is passed over only after a death or for its number.
* `ScriptsAreComplete`: each script of an environment ends with the number, with no two
  numbers in a row missing; whatever a deployment or setter is given fits; and a script
  that hands over ownership deploys nothing and hands over all that the scripts so far
  deployed. The property is about the scripts alone: they are what the theorems of 4.4
  ask for, here evaluated for all ten environments.
* `OrderlyRun` (refinement and liveness): the migrations implement `MigrationOrder`: numbers
  are completed in order, none twice, and, unless a failure blocks them that nobody can
  repair, all of them are.

What the model shows beyond the properties: a process that dies once costs nothing but
contracts nobody refers to, an extra payment to a faucet, or a repair by hand. Two deaths
can cost more. If the first leaves a `setCompleted` in flight, it is mined while the
script runs a second time; if that attempt dies too, the next start finds the script
completed and goes on, with the book half of one attempt and half of the other. Hence
`StateIsDetermined` and `NoStaleReference` are about runs with one death, or in which
nothing was passed over (`Whole`).

`migrations_hardhat` (violation) - see 5.

Each property of a passing run is broken by a mutation of the code it is about
(`PROJECT.json`, "mutants"): a back pointer that is not updated, an id counted per
buyer, a missing reset, a deposit paid twice or forgotten, a limit measured before the
change, an exchange rate without SOAP, an amount asked for taken for the amount paid, a
price accrued with the new index, a decay factor read a second late, a script chosen by
the file's number, an address not overwritten in the book, a swapped pair of addresses.

### Bounds

`MAX_UINT32` bounds the number of swaps, `MaxTime` time, `MAX_POOL` and
`MAX_CONTRIBUTION` are Joseph's own limits. Three bounds cut the AMM's runs in `VaultBounded`:
`MAX_HELD` bounds what the strategies earn, `MAX_CONVERSIONS` how often cTokens are minted
or redeemed (two with swaps, four in `amm_vault`: a replacement of Compound with something
on it converts twice, so this admits two of them, or one between deposits and withdrawals),
and `MAX_SHARE` what a share of Stanley may be worth, since every withdrawal may wear down the
number of shares by a rounding and a tiny number of shares makes the rate grow without limit.
`RateSteps` is by how much a cToken becomes dearer in a tick.
The sets of amounts have one or two members; they are chosen so that limits are met
from both sides. The storage, Milton and Joseph have no loop over accounts, so that two
accounts show every interaction of a buyer or provider with another one. Of the oracle's
lists two entries show an entry that follows another, on the same asset or not; the
proofs are about lists of any length.

For migrations `MaxFaults` bounds the deaths in an environment, `MayDie` says where they
may be: anywhere on the testnets once; twice in the first five scripts, in the script
that unpauses and pauses (0030 of private-testnet), and in mainnet's 0041 (the hand-over)
and 0056 (the twins). Other scripts of mainnet call the same libs in the same order as
private-testnet's. Two deaths are the least that pass over a script, and the third adds
nothing that depends on the first: a start reads nothing of how earlier ones ended but
chain, files and the number in flight. `OwnerConfirms` confirms all waiting contracts at
once and between scripts only; a script calls no contract after it has handed it over, so
this differs from confirming one by one only in states between two statements.

## 4. What is proved

The proofs are for every value of the constants that satisfies the `ASSUME`s of the
modules: every set of accounts, every width of the stored types, every set of terms,
prices and amounts. What these assume beyond types, and why the code justifies it:

| Assumption | Why |
|---|---|
| `NoAddress` is no account, contract or owner | nobody calls from address 0 |
| a swap without notional has no IBT quantity (`SpecAssumption`) | the quantity is the notional divided by the price (`amm/libraries/IporSwapLogic.sol`) |
| `D18 % Unit = 0` | `Unit` is 10^(18 - decimals), and the assets have at most 18 decimals |
| rates of fees are at most `D18` | constants of `Milton.sol`, `Joseph.sol` and their internals |
| `Account`, `StrategyContract` are finite, there is a caller that is a contract | addresses are 160 bits; sums over them exist |
| Aave and Compound contracts differ | they are different code |
| `InitialRate * Unit >= D18`: a cToken is worth at least one unit of WAD | cTokens have 8 decimals and are worth 0.02 of the asset at the start of a market, which is 2 * 10^8 units of WAD |

### 4.1 The storage

`MiltonStorageProofs`:

| Theorem | States |
|---|---|
| `TypeCorrect` | `Spec => []TypeOK` |
| `IndexAlwaysConsistent` | `Spec => []IndexConsistent` |
| `IdsAlwaysGivenOutOnce` | `Spec => []IdsGivenOutOnce` |
| `SwapsAlwaysFrozen` | `Spec => SwapsFrozen` |

The inductive invariant is

    StorageInv == TypeOK /\ IndexConsistent /\ IdsGivenOutOnce /\ ListsWithinCounter

`IndexConsistent` is not inductive alone: opening needs that the new id is not listed
anywhere and names no swap, which `IdsGivenOutOnce` gives (ids above the counter are
unused); it in turn needs that closing, which writes the back pointer of the id in the
last place of a list, writes to an id that was given out, which `IndexConsistent` gives.
`ListsWithinCounter` (no list is longer than the counter) is needed for the back
pointer to fit its `uint32`: the position of a new swap is the length of its buyer's
list, and the code casts it.

The argument is per leg: `MiltonStorageLemmas`, about one mapping and its lists, says that
opening and closing keep `LegTypeOK` and `LegConsistent`, with the case split of the code in
the close (the swap is in the last place, or another one takes its place). One lemma per
action lifts them to the state, `NextKeepsInv` combines them. `SwapsFrozen` follows
from the invariant: closing writes only the place of another swap and the state of
the swap that is closed. `AmmProofs` uses the same lemmas for closing in lists.

`MiltonStorageSums`:

| Theorem | States |
|---|---|
| `CollateralAlwaysBacked` | `Spec => []CollateralBacked` |
| `SoapTotalsAlwaysBacked` | `Spec => []SoapTotalsBacked` |
| `NeverBooksWithoutWriter` | `Spec => []NoWriterNoBooks` |

    SumsInv == StorageInv /\ CollateralBacked /\ SoapTotalsBacked /\ QuantityNeedsNotional

The step is that opening adds one swap to the active ones and closing takes one away
(`FiniteSums`: a sum over a set with one element more or less). `StorageInv` is needed for
the swap that moves in a list to keep the fields that are summed. `QuantityNeedsNotional`
is what makes the reset right that the code does when the notional reaches zero: it
forgets the quantity too, which is then zero.

`SoapDriftProofs`:

| Theorem | States |
|---|---|
| `SoapAlwaysSumOfPayoffs` | `DriftSpec => []SoapIsSumOfPayoffs` |
| `SoapBlocksAlwaysWithinRounding` | `DriftSpec => []SoapBlocksOnlyWithinRounding` |

    DriftInv == SumsInv /\ DriftTypeOK /\ NothingFromTheFuture /\ EmptyLegIsClean
                /\ \A leg \in Leg : LegFollowed(leg)

`LegFollowed` bounds the distance of the average rate from the weighted sum of the fixed
rates by `rateDrift`, and that of the hypothetical interest from the sum of the swaps'
interests by `interestDrift`. It is proved by the linearity of both sums in time and by
one fact about `Division`, that it is at most half a unit off. `NothingFromTheFuture` (no
swap and no rebalance is later than now) keeps the elapsed times natural;
`EmptyLegIsClean` is the code's reset when the last swap leaves.

### 4.2 The AMM

`AmmProofs`, about Milton, MiltonStorage, Joseph, ipToken and Stanley together:

| Theorem | States |
|---|---|
| `TypesAlwaysFit` | `Spec => []TypeOK` |
| `ReplacedContractsAlwaysLeft` | `Spec => []ReplacedContractsAreLeft` |
| `SharesAlwaysEndWithTokens` | `Spec => []SharesEndWithTokens` |
| `LedgerStaysBalanced` | `Spec => []LedgerBalanced` |
| `VaultNotOverbooked` | `ReplacementsInPlace` implies `Spec => []VaultNeverOverbooked` |
| `MovesAlwaysKeepThePool` | `ReplacementsInPlace` implies `Spec => MovesKeepThePool` |
| `ProvidersAlwaysKeepTheirShare` | `ReplacementsInPlace` implies `Spec => ProvidersKeepTheirShare` |
| `SwapsAlwaysCovered` | `ReplacementsInPlace` implies `Spec => []PoolCoversCollateral` |

The one hypothesis is about what the owner replaces strategies by, which nothing in
`_setStrategy` refuses (section 3, `amm_vault`): the place of Aave gets an Aave contract, that of
Compound a Compound contract; the contract of one place put in the other would be counted
twice. All the calls of `MCReplacements` satisfy it. No theorem needs a bound of the runs: where
`VaultBounded` is a guard of the model, the proofs ignore it.

A transaction is a chain of functions of the record `tx`, so that most lemmas are about
such a record and not about the state:

    BookInv   == RestTypeOK /\ Sound(NewTx) /\ GivenOut /\ ReplacedAreLeft(vault)
    VaultInv  == BookInv /\ InPlace(vault) /\ Covered(NewTx) /\ MarginOK
    LedgerInv == BookInv
                 /\ Within(Surplus(NewTx), (2 + Unit) * lastSwapId - Unit * OpenSwaps(NewTx))

* `Sound(tx)`: the record has its types, an Aave contract holds whole units of the token
  (it can pay all it has), Compound's rate does not fall and is stored as it once was
  (`RatesOrdered`), the deposits still to pay are whole units, and lists and swaps agree.
* `GivenOut`: no open id and no list is above the counter.
* `ReplacedAreLeft`: what `ReplacedContractsAreLeft` says.
* `Covered(tx)`: what is booked on Stanley is at most what all its contracts, in use or
  replaced, have at the stored rate, and one rounding per conversion since the last report.
* `MarginOK`: the whole pool, with one rounding per conversion so far and `hidden`, is not
  below the collaterals of the open swaps.
* `LedgerInv` is stronger than `LedgerBalanced` by the open swaps: an opening is at most two
  of the smallest amounts off, a closing, which happens once per swap, at most one unit
  of the token. Without counting the open swaps the bound is not inductive. It needs nothing
  of what the strategies really hold, because the books follow what Stanley reports: an
  error of a strategy's rounding is one of the pool, and not of the ledger.

`Follows(tx, r)` is what each step of a closing promises: `r` is sound, the same contracts
are in use, no swap became active and no list longer, `Covered` is kept, the margin is not
lowered, and the surplus moved by no more than a unit per swap closed. It is reflexive and
transitive, so that a list of closings, a fold in `CloseLegTx`, needs only that each
closing has it; the fold is handled by induction over the prefixes of the list, stated as a
set of naturals. `Moved` is the same for moves between Milton and Stanley. The steps of
`Next` are then of three kinds (`StepCases`): `KeptStep` (closings, moves, pool and
treasury, time), `OpenedStep` and `ReplacedStep`, and each invariant is carried over three
cases in place of twenty.

*Compound.* Everything about cTokens is said of one strategy first: `Changes(v, w, x)` says that
from `v` to `w` all that the contracts have, at the current rate, changed by `x` but for one
rounding per conversion. That a deposit and a payment have this property is arithmetic: with
`d = t * rate \div D18` for the cTokens `t` that were redeemed, half-up division and truncation are
each off by less than a unit of the asset or a cToken. The functions of Stanley combine such
changes, at most two conversions in each; the invariants see only the sum (`PoolShifts`).
A contract that is replaced is asked for its balance at the stored rate, and what remains is less
than a unit and a cToken: the leftover is counted in cTokens, which no later rate changes.

`MovesAlwaysKeepThePool` follows since booking a move replaces what was booked by what was
reported: in the whole pool both cancel, and what is left is the change of what the
contracts have. Since deposits that find nothing booked do not count what is there, `unowned` is
part of the whole pool.

`ProvidersAlwaysKeepTheirShare` is proved from the same invariants in three parts. Only a
deposit and a redemption change the supply of ipTokens (`SupplyStays`); every other step
is out of the question. What is minted or paid is a rounded quotient of a rounded quotient:
`MintedAtValue` and `PaidAtValue` bound the error of both by arithmetic alone, for any pool,
supply and amount. The transaction is followed through the moves to and from Stanley that it
may cause: these keep the whole pool up to `StepRounding`, and keep SOAP, so that the worth
changes by the amount deposited or paid out and by the counted roundings (`ShiftedValue`).

`SwapsAlwaysCovered` carries `MarginOK` from step to step:
* An opening is measured against the booked pool at a limit of at most 1.0, an accepted
  rate is rounded half up, and the pool is at most `Covered`'s roundings below the booked one:
  the margin is at least minus the pool over twice 1.0, which `Measured` puts into `hidden`.
* A closing pays out or takes in no more than the collateral of the swap it closes, also when
  the payoff is capped, and a list of them no more than all of its collaterals; a deposit,
  interest and a payment to a treasury do not lower the margin, and a move lowers the pool by no
  more than its conversions add to the allowance.
* A redeem is measured against the *accrued* pool, which values the strategies by the
  shares of Stanley: what that is above what they have is `Overstated`, and in `hidden`.

How large `hidden` becomes is not bounded by a theorem: shares that stand for nothing are worn
down by withdrawals and by what Compound's roundings add to them. `SharesAlwaysEndWithTokens`
is the part of it that can be said of one transaction: `WithdrawBurns` and `WithdrawAllBurns`
compute from the rate after the payment how many shares a withdrawal leaves when nothing remains.

The assumption that the limits are fractions of 1.0 is that of the code:
`_MAX_LP_UTILIZATION_RATE = 8 * 1e17` (`amm/MiltonInternal.sol:43`) and
`_REDEEM_LP_MAX_UTILIZATION_RATE = 1e18` (`amm/pool/JosephInternal.sol:36`).

### 4.3 The oracle

`IporOracleProofs` proves, for every set of assets, lists of any length, all widths and
every decay factor that satisfies `DecayAssumption` (three falling lines, the first from
1.0, none above 1.0 where it starts counting nor below zero before its end):

| Theorem | States |
|---|---|
| `DecayFactorRange` | the decay factor is between 0 and 1.0, and 1.0 after no time |
| `OracleTypeCorrect` | `Spec => []TypeOK` |
| `PriceAlwaysIntegral` | `Spec => []PriceIsIntegral` |
| `AverageAlwaysWithinPublished` | `Spec => []AverageWithinPublished` |
| `RepublishingAlwaysMovesOnlyTheIndex` | `Spec => RepublishingMovesOnlyTheIndex` |
| `OrphanedAlwaysFrozen` | `Spec => OrphanedIsFrozen` |

Lemma `LinesOfTheCode` shows that the constants of `DecayFactorCalculation.sol` are such
lines (the third one crosses zero within a second after its end). The inductive
invariant is

    OracleInv == TypeOK /\ \A a \in Asset : Sound(indexes[a], now, earned[a], published[a])

`PriceIsIntegral` says nothing of an asset whose timestamp lies ahead of the block and
hence is not inductive: `Sound` adds that such an asset has earned nothing, still has the
price 1.0 and the index 0 - it cannot be published before its time. The average stays
within two published values because the weights add up to 1.0 and rounding half up does
not leave an interval with whole bounds (`DivisionBetween`, `AverageBetween`). A list is
handled by induction over its length: `ListTrace` shows that the recursive function of
`PublishedList` exists, `ListKeeps` carries `Sound` along it. The library states
induction with an operator as a parameter; here it is a fact about sets, `UpTo`, that
follows from the least element of a set of naturals (`LeastNatural`), which the
library's theorem on well-founded orders gives.

### 4.4 The migrations

`MigrationsProofs` proves, for any set of environments and any scripts that satisfy
`ProgramAssumption` (numbers that do not fall, only the first script deploys the
`Migrations` contract), for any number of deaths anywhere:

| Theorem | States |
|---|---|
| `TypeCorrect` | `Spec => []TypeOK` |
| `NamesAreDeployed` | `Spec => []BookNamesDeployed` |
| `OrderInvariant` | `Spec => []OrderInv` |
| `PassedOver` | `Spec => []PassedOverForAReason` |
| `OrderlyScripts` | `Spec => Order!Init /\ [][Order!Next]_Order!orderVars` |
| `FileStaysNear` | `KeepsNumbers` of all environments implies `Spec => []FileOffByOneAtMost` |
| `RolesAlwaysRespected` | `KeepsRoles` of all environments implies `Spec => []RolesRespected` |
| `NobodyEverLeftBehind` | `HandsOverAll` of all environments implies `Spec => []NobodyLeftBehind` |

`BookNamesDeployed` is inductive together with `TypeOK`: nothing ever leaves the chain,
and a statement records only what is in the script's variables. `OrderInv` relates the
number in the contract to the script's place: it is not above the running script's own
number, no script has a number between the two, and a number in flight is the running
script's. It makes `SetCompleted` a step of `MigrationOrder` or a stutter (of a script that
shares its number), and `Restart` too, when it finds a number mined late. `PassedOver` needs
in addition `LateInv`: the running script's own number is completed already only after a
death or when it has a twin before it.
The last three do not hold of any scripts. Their hypotheses are conditions on the list of
scripts alone, on what is written in the files and not on how they run, and
`ScriptsAreComplete` has TLC evaluate them for those of the repository. The theorems then say that
such scripts keep the property in every run: however often a process dies, whatever a
second attempt finds in the book, whenever the owner confirms.
* `FileStaysNear` rests on `FileInv`: while a script runs or its number is in flight, it
  has still to write the file, or has written one more than the contract has. With
  `OrderInv`, the number that `setCompleted` writes is then at most two ahead of the last.
* `RolesAlwaysRespected` rests on `MadeInv`: what the book and the variables name is of some
  script, so a statement that is given anything else throws and wires nothing
  (`AcceptedIsPossible`). An address keeps the key it was deployed for
  (`BookNamesDeployed`), so what a key resolves to is of that key's kind, whichever
  attempt deployed it.
* `NobodyEverLeftBehind` rests on `CreatedInv` - what is on chain is of a script with a
  number up to that of the running one - and `HandOverInv`: in a script that hands over, each contract it
  names is on its way to the owner or its transfer is still to come, and a statement that
  always throws is still to come, so that such a script never ends.

The liveness half of `OrderlyRun` and the rest of the properties are with TLC.

### 4.5 What is only model-checked

Out of the prover's reach, and therefore with TLC where they occur: liveness
(of the migrations), induction stated with an operator parameter (replaced here by facts about
sets), and recursive operators (the modules have none; recursion is by functions).

Not proved, and why:
* `StateIsDetermined` and `FundedOncePerAttempt` compare with the fold of all scripts over
  the empty chain, which would have to be related to a run by induction over statements.
* `NoStaleReference`: that a script which ran twice renews all that refers to what it
  deployed depends on which later script reads which key; no condition on the lists
  shorter than the run itself was found.
* `FailsForAReason` follows each statement's arguments and each pause back to the statement
  before it that made them, again a fold over the lists.

They are about the particular scripts of the repository, and the finite run is about all
of these, up to the number of deaths.

## 5. Where the code and what is said of it differ

| Run | Code | Said |
|---|---|---|
| `storage_paused` | No function of the storage asks whether it is paused | "Pauses current smart contract" (`interfaces/IMiltonStorage.sol:259`) |
| `amm_booked` | A payoff can exceed the booked pool, since redemptions are measured against the accrued pool and taken from the booked one | "Situation should never happen where Liquidity Pool is insolvent" (`libraries/errors/MiltonErrors.sol:68`) |
| `amm_payable` | The liquidator's deposit is left out when Milton decides whether to ask Stanley (`amm/Milton.sol:812`) | `testShouldClosePositionWhenMiltonDoesntHaveCashButStanleyHas` (`src/test/fork/rebalance/JosephRebalance.t.sol:445`) |
| `oracle_renounced` | Who was appointed before the owner renounced can still confirm: the inherited `renounceOwnership` keeps `_appointedOwner` (`security/IporOwnableUpgradeable.sol:18`) | `testShouldNotBeAbleToConfirmTransferOwnershipWhenRenounceOwnership` (`src/test/security/IporOwnableUpgradeable.t.sol:123`), which confirms as somebody else |
| `migrations_hardhat` | Joseph is initialized with the ivToken (`src/scripts/deploy-mainnet.ts:364`, 381, 398; `deploy-testnet.ts` the same), which obeys Stanley and not Joseph | "responsible for managing ipTokens" (`interfaces/IJoseph.sol:4`); the libs of truffle pass the ipToken |

Two more differences have no run of their own. `interfaces/IMiltonInternal.sol:133` says
that "Milton balance in storage is not changing" by a move to Stanley, which books the
interest earned so far into the pool (`amm/MiltonStorage.sol:457`); `MovesKeepThePool`
states what is kept. And `src/scripts/deploy-testnet.ts:394` passes the oracle's proxy where its
address is meant, which ethers 5.7.1 refuses: the script stops there and never reaches
the wiring of the contracts (`FailsForAReason`).

## 6. Not modelled, and why

* Facades, cockpit, `itf`, mocks, ABIs: views and test doubles; they hold no state of the
  protocol.
* `envs/goerli` from 0035 on: 0034 deploys the faucet with the IPOR token's address, a key
  that only 0047 writes, so that a run from the beginning stops there for good
  (`FailsForAReason` shows it), and no state from which later ones ran can be had from
  the scripts as they are now. `libs/mocks/0003`, which only 0040 calls, with them.
* The rest of `run.sh`: it copies logs and files to another repository.
* How 0041 of mainnet went with other contracts than those of this commit: it hands over
  the spread models, which are not ownable any more. `mainnet_now` has it fail there, the
  other environments of mainnet have it succeed, since the scripts after it come after a
  hand-over that took place.
* The effect of the owner's upgrades: the scripts after 0041 only prepare implementations.
* Paginated views and events.
* Proxies and upgrades (`UUPSUpgradeable`), reentrancy guards: transactions are atomic.
* The setters of addresses and limits of Milton, Joseph and the tokens: each assigns one
  field that the model has as a constant.
* Transfers of ipTokens between accounts: they change no sum that a property uses.
* The oracle's automatic update at an open: it leaves the accrued price of the same
  block unchanged.

## 7. Plan

Done: the arithmetic, MiltonStorage with its proofs, SOAP, the composed AMM, the oracle
with its ownership and its proofs, the migrations with their proofs and their refinement.

Next, in this order:

1. `Amm` with the oracle's accrued price in place of `IbtPrices`, and what removing and
   adding an asset again does to open swaps.
2. Claiming of rewards by the strategies, with AAVE's cooldown and its window.
3. `IporOwnable.sol` of the tokens, whose `renounceOwnership` forgets the appointed
   owner: there `RenouncedStaysUnowned` is to hold.
4. `SpreadModel` and `PaginationUtils` as pure operators against reference definitions.
5. `Ledger`: an abstract ledger of claims, with Milton and Joseph shown to implement it
   by a refinement mapping.
6. Proofs: a bound of `hidden` in the number of withdrawals; the amounts of a new swap (the parts
   never exceed what the buyer sent); the ledger's refinement.
