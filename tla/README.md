# X1 Mining Arena in TLA+

A model of the arena's on-chain program (`src/programs/x1-mining-arena/src/lib.rs`,
called `lib.rs` below), of the SDK (`src/sdk`) and the scripts (`src/scripts`) that call it,
the runs that check it with TLC, and the theorems TLAPS has checked about it.

## 1. The system

Users pay XNT to run a mining rig and receive newly minted GAME. They may lock GAME in a
staking pool and earn a share of the XNT other miners pay. Points, boosts and tickets
modify prices and rewards. One Anchor program holds all of it; a TypeScript SDK and a
handful of scripts call it.

| Component | State it keeps | Operations | Talks to |
|---|---|---|---|
| Staking pool (`lib.rs` 139-167, 226-388, 1118-1207) | `StakingPool` (total weight, accumulator), a `UserStakePosition` per stake, the staking vault (GAME), the treasury (XNT), `next_position_id` | `stake`, `claim`, `unstake`, the distribution in `mine_with_rig` | token program, clock, the player's boosts |
| Emission (95-104, 173-197, 998-1077) | `total_minted`, `halving_level` | reward and halving in `mine_with_rig`, `update_halving` | token program (mint), the player's boosts |
| Player accounts (107-137, 199-214, 390-513, 582-666) | `UserAccount`: points, counters, `active_boosts`; `BoostConfig` | `apply_ranking_results`, `reset_daily_points`, `upsert_boost_config`, `activate_boost`, the account half of `mine_with_rig` and `stake` | clock |
| Set-up (29-93, 672-761) | addresses of mints and vaults, share, interval | `initialize_global`, `initialize_treasury_vault`, `initialize_staking_pool` | |
| Scripts of miners and stakers (`stake.ts`, `claim.ts`, `unstake.ts`, `mine.ts`, `list-positions.ts`) | what one run has read, built and printed | read, build one instruction, send it | SDK, RPC node, pool |
| Sending (`helpers.ts` `sendTx`, every `main().catch`) | how far a run is; the life of its transaction | send, wait, report | RPC node, cluster |
| Wallets (`helpers.ts` `getConnection`, `ensureAta`; `wrap-sol.ts`) | token account of the wallet | create, wrap, choose a cluster | RPC node, token program |
| Admin scripts (`init-global.ts`, `init-treasury.ts`, `init-staking.ts`) | new key pairs | one set-up instruction each | SDK, set-up |
| Boost scripts (`upsert-boost.ts`, `grant-boost-points.ts`, `activate-boost.ts`, `create-user.ts`) | none | one instruction each | SDK, players |
| SDK (`pdas.ts`, `client.ts`) | none | ten builders: addresses, lists of accounts, bytes of arguments | |

**What is concurrent.** The program has no threads. A Solana instruction is atomic: it
runs alone on the accounts it names, and when a check, a checked operation or a token
transfer fails nothing of it remains. What interleaves is whole instructions of different
users, of the admin, plain token transfers from anybody, and the clock. In the modules about
the program an action is one successful instruction, and its guard collects everything that
can make the instruction fail. The scripts add a second kind of interleaving: between what a
run reads and the moment its transaction is taken, other instructions come in, of the
same wallet too; and the run may stop waiting before the cluster has decided.

**What is hard.** The reward accumulator, which rounds at four places and pays whoever
comes first; arithmetic that clamps in some places and fails in others; accounts whose
address is derived from a counter and becomes free again when they are closed; an
`unstake` that fails as a whole if the rewards it pays first cannot be paid; a list of
boosts that is purged lazily and compared with the clock in five places; a level that is
cast to eight bits. Outside the program: a transaction that lands after its script has
reported an error; an accumulator that is old when it is used; lists of accounts matched by
position and numbers cut to a byte; two scripts that create the same account; two places that
read the environment differently. Each is a hazard in `PROJECT.json`, with its line and its properties.

**What makes each component correct.** Pool: nobody is paid for what was mined before
they staked, principal comes back whole and after the lock, the treasury can pay what is
owed. Set-up: in whatever order it is sent, what is stored is usable and deposits stay within reach. Emission: the documented halving and a finite supply. Players: a ticket pays for
one run, points are lost to nothing but the ceiling of their counter, boosts last as long as they were sold for. Together: both
tokens are conserved and the accounts that count the same thing agree. Scripts: a run has one effect
or none, success is never reported falsely, every run ends, a run repeated
because the first seemed to fail does not act twice, nothing is listed that is not owed. Wallets: what is wrapped is there to be spent, once. SDK: the program finds the accounts and arguments that were asked for,
and takes what is in order. Admin: a set-up repeated after errors still works.

## 2. The modules

| Module | Models |
|---|---|
| `Widths` | the largest values of the integers program and SDK share |
| `ArenaMath` | fixed-point and basis-point arithmetic; Rust's clamping operations |
| `StakingPool` | pool, positions, vaults, wallets; the properties of the pool |
| `Custody` | abstract: what the pool promises about GAME |
| `StakingAudit` | `StakingPool` with history variables; the properties about money owed |
| `Lists` | a list filtered, as `retain` and `filter` do |
| `Boosts` | the list of boosts and what it does to rewards, points, weights, prices |
| `Emission` | total minted and halving level |
| `PlayerAccount` | points, counters, boosts, boost configurations |
| `PlayerAudit` | `PlayerAccount` with history variables |
| `Setup` | the three set-up instructions, the addresses they record, and which vault is paid in and out |
| `Arena` | the three parts as instances, joined in `mine_with_rig` and `stake` |
| `Pdas` | addresses: the seeds each is derived from |
| `Instructions` | the SDK's ten builders, the bytes they write, the contexts and arguments the program reads |
| `Calls` | one call of a builder on a given chain: what was meant against what is found |
| `Delivery` | abstract: what who starts a script may rely on |
| `Transactions` | runs of scripts, the life of a transaction, what is reported |
| `StakerScripts` | `StakingPool` + `Transactions` + `Instructions`: stakers' and miners' scripts |
| `AdminScripts` | `Setup` + `Transactions` + `Instructions`: the three set-up scripts |
| `BoostScripts` | `PlayerAudit` + `Transactions` + `Instructions`: the four scripts about boosts |
| `WalletScripts` | `Transactions` + a wallet's token account: `ensureAta`, wrapping, endpoints |
| `DataLemmas` | lemmas about sums and filtered lists |
| `Staking_proofs`, `GlobalConfig_proofs`, `Player_proofs`, `Arena_proofs` | theorems about pool, configuration and set-up, players, and their composition |
| `Transactions_proofs`, `Scripts_proofs`, `BoostScripts_proofs` | theorems about runs and transactions, the scripts and the SDK |
| `MC*` | constants for TLC |

A definition keeps the name of the Rust function or field it models where there is one;
`PROJECT.json` gives the lines of each. Choices that are not obvious:

* **Positions** are the accounts derived from owner and id. Id 0 stands for the derivation
  without an id: `claim` and `unstake` still accept such positions
  (`assert_valid_user_stake_pda`), `stake` no longer makes them. So a user may hold one at
  the start (`Legacy`) and the pool starts with what these hold. A closed account is
  `NoPosition`.
* **Failing arithmetic** is a guard (`checked_mul` in `settle_rewards`, the token program's
  u64 balances); **clamping arithmetic** is `SatAdd` and `SatSub`, so that a property can
  say it never clamps. Some checks of the code cannot fail, and `EffectiveAssumption` is
  the arithmetic that says so for `calculate_effective`; the owner checks cannot fail
  because the address of the account contains the owner.
* **Randomness.** `compute_reward_amount` draws one of two rewards from a hash of slot,
  time, user and rig. The model allows either, always.
* **Weights and rewards in `StakingPool`** are taken from the sets `BoostMults`, `Deposits`
  and `Rewards`; which of them a step really has is decided in `Arena`. So `StakingPool`
  allows more than the program does and what is proved of it holds of the program; that
  `Arena` stays inside it is `IsPool` in the run `arena`.
* **Kinds of boosts.** The program stores `applied_to_mining` and `applied_to_staking` when
  a boost is activated and tests them next to the kind. They are functions of the kind
  and left out.
* **Set-up.** `Setup` stands beside the other modules: they start from the configuration and
  pool it makes (`ConfigAssumption` is what `ConfigIsUsable` establishes). Of later instructions
  it keeps the constraint that `global_config` and `staking_pool` name the same treasury
  (`Operates`), and that `mine_with_rig` pays into the account the one names (`PayIn`) while
  `claim` and `unstake` pay out of the account the other names (`PayOut`). Mints are recorded
  once; the constraints on them cannot fail and are left out.
* **Addresses** are the sequences of their seeds, so that two are equal when their seeds are; a key
  is a sequence of one. That derivation has no collisions is taken for granted.
* **Bytes** are sequences of typed values: `ArgsOf` takes what the builder wrote and reads it with
  the types the program expects. `KeyNumber` is the number a key's first eight bytes make.
  `Encodes` is false where `Buffer` throws; `Buffer.from([id])` does not throw and cuts.
* **`stake.ts` opens no position.** Every stake through `ixStake` is refused (below), so `StakerScripts` has no
  action in which one lands. Positions come from before ids, and from instructions that are sent
  by other means than these scripts: `Elsewhere` is any step of the pool, by any user, at any time.
* **Points saturate.** `apply_ranking_results` takes every award and clamps (`SatAdd`), and what the SDK sends as points
  is a number made of a key, so awards in the models may be as large as the counter.
* **Environments.** `Env[r]` gives a run its three variables; `getConnection` and `wrapConnection` choose
  from them as `helpers.ts` and `wrap-sol.ts` do, and runs with different clusters interleave.
* **Reading and building** are one step, at the last read. What is read earlier is older,
  but each script uses one read only, except `list-positions.ts` and `ensureAta`, which have two steps.
* **Transactions.** `ttl` counts the blocks until the blockhash is too old. `Land` is once, as a
  signature is; which effect it has is in the module that extends `Transactions`, and
  `Refuse` is always possible. `Break` is a failing read, `LoseTouch` a connection lost
  while waiting, `GiveUp` the last block seen to pass. Every one of them ends in `process.exit(1)`.
* **The admin's discipline.** The set-up scripts look at nothing. `MayStart` is what
  keeps the arena whole: the order, and waiting until nothing is open. It is a hypothesis, not code.
* **Outside the program**: `DonateXnt` and `DonateGame` are plain transfers into a vault,
  `Tick` and `PassTime` are the clock. The clock may jump to any later instant.
* **Bounds that are not in the code**: `AccBound` (the accumulator), `MaxRuns` (a player's runs),
  `MaxXnt` (what `Setup` lets the treasuries hold), `Times` (the instants shown), and for TLC alone `FewAwards` of
  `MCPlayer` (what a player is awarded) and `MaxPoints` of `MCArena` (the points a player holds). `LastLevel` and `MaxReward`
  are facts about rig table and boosts that `RewardAssumption` checks.

Operators whose comment begins with "Mutant" are the program with a plausible mistake.
They are never used; each makes the property it is listed with in `PROJECT.json` fail,
which shows that the property notices.

## 3. The runs

| Run | Instance | Shows |
|---|---|---|
| `pool` | 2 users, ids 0..2, one legacy position, locks 7 and 30, boosts 20 and 30, share 90%, gifts | weights, total, vault and ids agree; who is owed what; solvency and no lock-in; `StakingPool` implements `Custody` |
| `emission` | the program's rigs and basis points, interval 2000 | documented halving, finite supply |
| `emission_fast` | the same with interval 10 | a violation, see below |
| `player` | 1 player, 2 rigs, room for 2 boosts, 2 runs, awards of 3 points and of nearly all a counter can show; by hand, or through the boost scripts | tickets, points and what saturation loses, expiry; what is sold is what was published |
| `arena` | 2 players, 1 rig, 3 offers, 1 run each, gifts | both tokens conserved; `Arena` refines each part |
| `setup` | 2 keys, 5 addresses, shares and intervals at the edges; by hand, or through 5 runs of the scripts, 2 blocks | every order of the set-up, repeated calls; a patient admin's set-up works |
| `setup_again` | the same | a violation, see below |
| `calls` | 8 builders, 2 wallets, 5 chains, numbers 0, 5 and 17 | found is meant, meant is taken |
| `calls_stake`, `calls_grant` | one builder each | violations, see below |
| `scripts` | one group of runs: 2 `unstake.ts` on a new id, or on the legacy one; a lister and a claim, or an unstake; an id below 0; `stake.ts`; `mine.ts`; the whole pool beside each | a repeated run does no harm; the list never overstates |
| `wallet` | 2 x `mine.ts` and `wrap-sol.ts`, no token account, 2 clusters, 2 blocks; one environment, or `RPC_URL` against the default | `Transactions` implements `Delivery`; runs end; the race in `ensureAta`; what is wrapped and what is spent |

Where two things share a state space they share a run: `pool` checks the pool's own properties on
the variables of `StakingAudit`, which never constrain it; `player` and `setup` choose
in the first state whether instructions are sent by hand, or which scripts are run, and stay with it; in `scripts` and
`wallet` the runs that are started belong to one group.

**Why the bounds are enough.** A rounding error needs two positions of different weight and
an accumulator that does not divide: with PRECISION 10, principals 2 and 3 and weights made of two
locks and two boosts, nearly every division has a remainder. A share of 90% of a deposit of 10 leaves a reserve of one
unit, which is as tight as `SolventWithReserve` allows. Ids 0..2 contain the legacy
position, a first one, and the last id where the counter saturates. 20 basis points keep
the lock weights 21/20, 22/20 and 24/20 exact. The clock shows 0, 7 and 30: before, between and after the
two terms. `arena` asks how the parts are joined and not what each does: one run per player, one reward
and boosts that do not expire are enough to reach every joint (ticket, scaled reward, weight, a halving after the
first run); legacy positions and expiry are in `pool` and `player`. In `player` the list has two places, so it is full after two
purchases. Its counter shows 200 points: an award of 198 on top of 3 saturates, after or before a purchase,
and so do the two awards of 150 that the scripts send. The interval of 2000 of `emission` lies below the largest boosted reward (14400): several halvings in one run occur. In `setup` five
addresses are enough for a pool's vault, the treasury it copies, and treasuries after it.

For the scripts: `Validity` is the number of blocks a transaction stays open; with 1 it may land
before, after or never in relation to every other step, with 2 a block may pass while it is
open (`setup`, `wallet`). Two runs of a script are the smallest race, and every race in these scripts is of two; a run is started
once, so the state space is finite. In `calls` a byte holds 0..4 and the widths are kept apart (3, 4, 16, 20), so that
numbers 5 and 17 fit some and not others; chains go from empty to working, with and without
token accounts, positions and boosts. In `scripts` the lock of 7 is one step of the clock, so both runs of `unstake.ts` may
come before the position, before the end of its term, and after the other; the clock goes on to 14, so that a second
position can be staked, with the next id, and mature while they are on their way. The wallet of `wallet` starts with nothing but native coins; two
groups of three runs are one in which both clusters are named and all three agree, and one in which `RPC_URL` sends
the wrap and a mining run apart while the other one mines where it wraps.

**Deadlock** is checked in `pool`, `emission` and `arena`: a claim that pays nothing is always
possible, or the purge of an account, or `update_halving`. It is not checked elsewhere, where the system really may stop. An arena whose pool was separated
from its treasury does, once there is no address left for another treasury; scripts are started once and end, and then all is still; `calls`
makes one call. That scripts end, and do not hang, is what `RunsEnd` says.

**Finding.** `emission_fast`: README.md says `halving_level = total_minted /
halving_interval`. The code casts the quotient to `u8` (lib.rs 102 and 195), and
`initialize_global` accepts every interval but 0. One run of the largest rig under an
interval of 10 gives level 164 where the README has 420. With the default interval of 10^10
nothing of the kind can happen: under `SlowHalving`, which it satisfies, the level is exact (three theorems).

**Finding.** `setup_again`: `unstake.ts` line 63 calls the vaults "known from init" and has their
keys written down. `initialize_treasury_vault` may be called again after the pool exists, which
changes `global_config` and not `staking_pool`; then no instruction of the pool succeeds. TLC
finds it in four steps. `SeparatedForGood` says that no later call repairs it, because the
account is `init` and an address that is in use is refused; `DepositsCanBePaid` says that the
one good thing about the constraint is that no XNT goes astray.

**Finding.** `calls_stake`: `ixStake` lists `user_stake_position` before `user_account`
(client.ts 199-200), the program's `Stake` the other way round (lib.rs 806-852), and accounts
are matched by position. The seeds of each are checked against the other's address: every stake through the
SDK is refused, whatever the chain.

**Finding.** `calls_grant`: `ixApplyRankingResults` puts the user's key before the
points (client.ts 354); `apply_ranking_results` takes only a `u64` and reads it from the
key. `grant-boost-points.ts` prints the number asked for; `create-user.ts`, whose header promises "0 boost points", makes
the same call.

Smaller disagreements met on the way, which no run is about:

* `findBoostConfig` writes the id with `Buffer.from([id])`, which keeps the low byte: `activate-boost.ts` with
  `BOOST_ID=300` buys boost 44 and prints 300.
* Without a token account `wrap-sol.ts` adds a `createAccount` that the account itself would have to
  sign; it can only fail, where its comment says that it creates the account. (`WrapLands` asks for the account.)
* The headers of the scripts name `RPC_URL` (mine.ts 6); `getConnection` (helpers.ts 28-33) reads `ANCHOR_PROVIDER_URL` and
  `SOLANA_URL`, `wrap-sol.ts` (36-39) reads `RPC_URL` and `ANCHOR_PROVIDER_URL`. With `RPC_URL`
  alone, XNT is wrapped on one cluster and looked for on another. `Misleads` says which environments do that, `WrapServesMine` that no other does.
* `stake.ts` line 8 gives the default of `LOCK_DAYS` as 0, the code (line 37) takes 7; its line 7 says "1 GAME if decimals=9",
  `GAME_DECIMALS` is 2.
* The SDK has no builder for `reset_daily_points` and `update_halving`.

**Fairness and liveness.** Nothing in the program happens by itself: no instruction is
ever obliged to be called. What users would call progress is stated as safety instead:
not "a staker eventually leaves" but "once the lock is over `unstake` is enabled and nothing
the others do disables it" (`ReserveMeansLeave`).

Scripts are processes, and do run. Weak fairness of `Step(r)` (`WalletStep(r)` where a script has steps of its own) says that
a script that can go on does: Node runs what is ready, and web3.js answers a read or throws. Weak
fairness of `NextBlock` says that the cluster makes blocks, without which no blockhash ever gets
old. Nobody is obliged to start a script, and nothing is assumed of landing or refusing: a transaction
may be dropped silently. What follows, in the run `wallet`: `RunsEnd`, because `GiveUp` is always there in the end, and
`RaceIsHarmless`, that the loser of the race to create a token account goes on. The other modules of scripts
are checked for safety and state no fairness.

### About `ReserveMeansLeave`

Rounding may owe stakers one unit per position more than was credited: the debt of a new
position is rounded down, and so is what it had accumulated. Whether `unstake` can fail for that
reason depends on the part of the deposits that is *not* credited, the reserve. With
`staking_share_bps` = 10000, which `initialize_global` accepts, there is none, and a treasury one unit short makes `unstake` fail until the
next run pays in. So "nobody is locked in" (`UnlockedCanLeave`) is not a property of the program; `SolventWithReserve` and `ReserveMeansLeave`
say how much is enough for it: one base unit (10^-9 XNT) per position ever
opened. They are proved for all parameters.

## 4. What is proved

Every property that the passing runs check is a theorem, but the two about liveness. A
theorem holds for every value of the constants that satisfies the named assumptions; TLC evaluates
these in every run that extends their module:

| About | Assumptions |
|---|---|
| numbers and the pool | `ScaleAssumption`, `WidthAssumption`, `UsersAssumption`, `ConfigAssumption`, `HoldingsAssumption`, `EffectiveAssumption` |
| emission and set-up | `EmissionAssumption`, `RewardAssumption`, `SetupAssumption` |
| players, and the arena as a whole | `PlayerAssumption`; `WalletsAssumption`, `NumbersAssumption`, `OffersAssumption` |
| scripts | `ValidityAssumption`, `JobsAssumption`, `WalletAssumption`, `KeysAreFresh`, `AdminAssumption`, `BoostJobsAssumption`, `CallsAssumption` |

Some theorems have a hypothesis besides, because the code needs it: `SlowHalving` for those about the emission,
a wrap that covers a run's cost for `WrapServes`, ids that fit a byte where `findBoostConfig` cuts them
(`SoldAsIs`, `FoundAsMeant`, `TakenAsMeant`), and for `ListIsBehind` XNT that fits u64 with a unit to spare per position id,
and wallets that have ids left.

**`Staking_proofs`, the pool.** The inductive invariant `PoolInv` adds to `TypeOK`,
`TotalIsSumOfEffective` and `VaultCoversPrincipal` the fact `WeightsBounded`: the weight of a
position is at most its amount times the heaviest weight. Without it one cannot exclude that
`saturating_add` clamps the total; with it the sum of the weights is bounded by the sum of
the principals, these by the vault's balance, and that fits u64 (`PositionsTotalFits`).
Theorems: `TypeCorrect`, `TotalIsSum`, `VaultCovers`, `NextIdFree` (with the invariant
`IdInv`: every id at or above the next one is free), `ClosedForever`, and `PoolIsCustodian`,
the refinement of `Custody`, where `Stake` is `Put`, `Unstake` is `TakeBack`, mining is `Earn`,
gifts are `Give`, and claims are stutters.

**`Staking_proofs`, the audit.** `AuditInv` is `PoolInv`, `SupplyInv` (all XNT and all GAME together
fit u64, so no transfer to a wallet or vault can overflow) and `BooksInv`: the
books balance; every debt is at most what the position has accumulated; and two
inequalities multiplied by PRECISION so that nothing is rounded. `BooksCovered`: what was paid, plus what all
weights have accumulated beyond their debts, is at most what was credited
plus one unit per position opened. `PositionCovered`: the same for one position since it
was opened. Each action is then an inequality about one division. Theorems: `Balanced`,
`DustBound`, `OnlyWhileStaked`, `Solvent`, `CanLeave`. The last section proves the first inequality
again without history variables (`TreasuryCovers`), for the scripts, who see no bookkeeper.

**`GlobalConfig_proofs`.** Emission: under `SlowHalving` the invariant is that the supply is below the cap and the level is the
quotient. A run below the last level adds at most one reward; at it, nothing.
Theorems: `SupplyIsCapped`, `LevelIsExact`, `LevelIsMonotone`. Set-up: `SetupInv` adds to the properties
where the treasury is before there is a pool, and that a pool which does not exist names no treasury, so that it cannot find
deposits waiting. Theorems: `SetupTypeCorrect`, `ConfigUsable`, `PoolComplete`,
`DepositsPayable`, `NeverTogetherAgain`. Admin scripts: `AdminInv` adds to both, and to what is known of
transactions, `OneAtATime` (of two runs that were started one is over and not of a later
stage), `GlobalAsBuilt` (what `init-global.ts` sends), `LandedHasEffect` (what has landed is found under the key the
run prints) and `PoolIsInUse` (a pool was made by a run, and names the treasury in use). The argument
is in `OneAtATime`: once `init-staking.ts` has run, no `init-treasury.ts` can be open, so nothing separates the
treasuries. Theorems: `SetupByScriptsWorks`, `ReportsAreTrue`, and `VaultsStayKnown`: `KnownVaultsWork`, which the
run `setup_again` refutes for calls in any order, holds of the scripts in theirs.

**`Player_proofs`.** What a list of boosts is good for changes when it is filtered, when one is
appended and when a ticket is taken out; the lemmas of the first part say how many
usable tickets and which live boosts there are afterwards. Theorems: `PlayerTypeCorrect`, `OnlyOffered`
(whatever a player holds was an offer: `HoldsOffers`), `PurgeMayWait`, `NothingIsTaken`. `LedgerInv` puts types,
`PointsBalance` and `TicketsUsedOnce` together and is inductive only as a whole: a
purchase changes all three. An award may be of any size: where the counter saturates, what a player holds and has
spent is less than what was awarded, and stays at least as much as the counter can show. Theorems: `LedgerIsPlayer`, `PointsBalanced`, `TicketsPayOnce`.

**`Arena_proofs`.** The arena's parts are instances. The proofs of each part come in through a second instance, of its
module of proofs, and the first lemmas show that a name means the same in both. The assumptions of the parts are derived from
those of the arena, so nothing is assumed twice. `ArenaIsPlayer` is by cases;
`ArenaIsHalving` and `ArenaIsPool` need `ArenaInv` (the level fits its byte, every boost held is an offer), because
the sets a part draws its reward, deposit and weight from are made of the offers.
`XntConserved` follows from the pool's transfers. `GameIsMined` is the bookkeeping of
two modules at once: what `StakingPool` mints is what `Emission` counts.

**`Transactions_proofs`.** `TxTypeCorrect` and `ScriptsDeliver`: for any set of runs
`Transactions` implements `Delivery`. `TxTypeOK` carries the two facts the mapping needs, that nothing is
out before `Send` and that a run that waits has sent. `NextBlock` is `Void` of all that expire with it.

**`Scripts_proofs`, the stakers.** Any number of runs, wallets and positions, against the whole pool, which anybody
else may use at any time.
Theorems: `StakeScriptRefused`, `OneUnstakeEach`, and
`ScriptsUseThePool`: whatever the scripts do, the pool sees a behaviour of `StakingPool`, so its theorems
hold behind the scripts. `StakeScriptRefused`: whatever `stake.ts` has read, and whatever was done since, what it sends is not
accepted, because an address is that of a position or of a user account and never both. The invariant `ScriptInv` has, besides, that a
built instruction names the position the script prints (`ViewInv`), the pool's `IdInv`, and
`UnstakeInv`: the position of a landed `unstake.ts` is closed and lies below the next id, so that neither a second run
nor a stake that came in between finds it open. It is the pool's `ClosedForever` seen from outside, and like it exempts the last id.

`ListIsBehind` is `ListNeverOverstates` for any number of runs. The accumulator only grows, so the
one that was read first is behind (`ReadBehind`). That alone is not enough: the program cuts what it owes off at
u64 (`PendingRewards`), the script does not, so one must know that the bound is never met. It is not, because
what is owed stays within the treasury and a unit per position id handed out (`TreasuryCovers`), and the treasury within the XNT there is.
The units are counted by ids because anybody may stake; that is where `IdsLeft` is needed.

**`Scripts_proofs`, the wallet.** `WrappedSpendable` and `SpentWasWrapped` without hypothesis, for any environments and any
finite number of runs; the invariant is their conjunction with two facts, that a finished wrap has landed and that only `mine.ts` pays. It counts: a step that
lands or pays adds one run to `Wraps` or `Payments` of its cluster and to no other. `WrapServes` follows: an environment that
does not mislead sends both scripts to one cluster (`SameCluster`), and there are `Amount` tokens for each wrap.

**`Scripts_proofs`, the calls.** One lemma per builder says that each account of the program's context finds
the key that was meant, that the bytes read back as what was written, and that they are accepted if the chain is in order;
`CallInv` only says that outcome and finding are those of the call asked. Theorems: `FoundAsMeant` for every builder
but `ixApplyRankingResults`, `TakenAsMeant` for every builder but `ixStake`: the two left out are exactly the
findings `calls_grant` and `calls_stake`. `StakeNeverTaken` is the latter in general: no stake
the SDK builds is taken, on any chain.

**`BoostScripts_proofs`.** `BoostInv` adds to `LedgerInv` that an instruction is what its builder made of the job (`SentAsBuilt`), that
the ledger is the sum over the runs that landed (`LedgerOfRuns`), whatever numbers the SDK has made of the keys, and that every offer was published by a run that landed
(`PublishedByRuns`). Theorems: `LedgerBehindScripts`, `ChargedOnce`, `SoldAsIs`.

**`DataLemmas`** proves what the others need of sums and lists, about which the library has no theorems. The
community modules define a sum by a fold; it is shown to be the cardinality of a set of units.
`Kept` of `Lists` is `SelectSeq` written as a recursive function with a set for its test, since what the prover cannot
instantiate is an operator that takes an operator; for the same reason boosts are scaled by a recursive
function and induction over lists is stated with the set of the lists that have the property.

**Proved, and not a property of a run of its own**: `Balanced` (the treasury holds what came in less what was paid),
`LevelIsMonotone`, `SetupTypeCorrect`, `PlayerTypeCorrect`, `TxTypeCorrect`, `OnlyOffered`, `LedgerIsPlayer`, `LedgerBehindScripts`,
`ScriptsUseThePool`, `StakeScriptRefused`, `StakeNeverTaken`, `VaultsStayKnown`.

**Only model-checked**: `RunsEnd` and `RaceIsHarmless`, because liveness under fairness is out of the
prover's reach. The violations are found by TLC; what they say of the code in general is in `StakeNeverTaken`, and
in the hypotheses named above.

## 5. What is not modelled

* That the arena starts from a set-up: `Arena` and `Setup` are not composed. A repeated
  `initialize_treasury_vault` therefore happens in `Setup` and `AdminScripts` only.
* Reading files and environment, parsing of key files, printing. A script whose
  environment is unusable ends before it reads the chain, which `Break` covers.
* Fees, rent, compute limits and the choice of a leader: they are reasons for `Refuse`.
* Events and error codes; tests, migration and build files, which keep no state of the system.
* Token accounts other than associated ones: `IsTokenAccount` knows only these, and the SDK passes no others. Under which names
  Anchor's client decodes an account for `stake.ts` and `list-positions.ts` is the library's.
* The last position id, which the counter hands out again and again: the properties about ids say what they say of the others.
* The fields `staking_xnt_earned` and `achievements`, which no instruction writes.
* That the list of boosts may be filled for ever by boosts published without a duration:
  there is no instruction that frees a place, so there is no step to state a property about.

## 6. Plan

Done: every module of section 2, with the theorems of section 4. Left:

1. `Arena` starting from any state `Setup` reaches, the repeated set-up included.
2. The scripts against `Arena` instead of its parts: a player who mines, buys a boost and
   stakes in one interleaving. Its state space needs a smaller arena than `MCArena`.
3. Theorems about those two compositions. The parts are done; what carries over is by `ArenaIsPool`,
   `ArenaIsPlayer` and `ArenaIsHalving`, and by `ScriptsUseThePool`.
