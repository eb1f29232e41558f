-------------------------------- MODULE Arena --------------------------------
(***************************************************************************)
(* The whole arena after its set-up: every instruction with everything it  *)
(* does, put together from its parts in StakingPool (pool, positions and   *)
(* tokens), Emission (the halving) and PlayerAccount (points and boosts).  *)
(* The parts meet in two instructions.  mine_with_rig takes its price and  *)
(* the scaling of the reward from the player's boosts and the reward from  *)
(* the halving level; stake takes the weight of the position from the      *)
(* boosts.                                                                 *)
(***************************************************************************)
EXTENDS ArenaMath, Sequences, FiniteSets, Functions

CONSTANTS
  Users, StakingShareBps, Legacy, InitXnt, InitGame, StakeAmounts, LockChoices, GiftAmounts,
  Times, Day, AccBound,                                        \* as in StakingPool
  HalvingInterval, BaseLow, BaseHigh, LastLevel, MaxReward,    \* as in Emission
  RigIds, RigCost, MiningPoints, Grants, DayIds, BoostIds, BoostOffers, MaxActiveBoosts,
  MaxRuns,                                                     \* as in PlayerAccount
  RewardBoosts                       \* the lists of values reward boosts can form

VARIABLES
  now, stakingPool, positions, nextPositionId, xnt, game, treasury, stakingVault,
  totalMinted, halvingLevel,
  accounts, boostConfigs

poolVars == <<now, stakingPool, positions, nextPositionId, xnt, game, treasury, stakingVault>>
emissionVars == <<totalMinted, halvingLevel>>
playerVars == <<accounts, boostConfigs>>
arenaVars == <<poolVars, emissionVars, playerVars>>

Halving == INSTANCE Emission

\* What a run can draw, with the better reward of the same rig and level.
DrawnPairs ==
  UNION {{<<base, Halving!Halved(BaseHigh[r], level)>> : base \in Halving!BaseRewards(r, level)} :
           r \in RigIds, level \in 0 .. 255}

Player == INSTANCE PlayerAccount WITH
  RewardPairs <- DrawnPairs

\* What the parts leave open, the arena fixes: the weights staking boosts give,
\* the price of a run and its reward.
Pool == INSTANCE StakingPool WITH
  BoostMults <- {MaxOf(BPS, offer.value_bps) : offer \in BoostOffers} \cup {BPS},
  Deposits <- {0} \cup {RigCost[r] : r \in RigIds},
  Rewards <- {Player!ClampedBoost(p[1], values) : p \in DrawnPairs, values \in RewardBoosts}

ASSUME WalletsAssumption ==
  /\ IsFiniteSet(Users)
  /\ Legacy \in [Users -> 0 .. U64Max]
  /\ InitXnt \in [Users -> 0 .. U64Max] /\ SumFunction(InitXnt) <= U64Max
  /\ InitGame \in [Users -> 0 .. U64Max]
  /\ SumFunction(InitGame)
       + SumFunction([s \in Pool!Slots |-> Pool!InitialPositions[s].amount_staked]) <= U64Max

ASSUME NumbersAssumption ==
  /\ StakingShareBps \in 1 .. BPS
  /\ StakeAmounts \subseteq 0 .. U64Max /\ LockChoices \subseteq LockTerms
  /\ GiftAmounts \subseteq Nat /\ Grants \subseteq Nat /\ DayIds \subseteq Nat
  /\ Times \subseteq Nat /\ 0 \in Times /\ Day \in Nat \ {0}
  /\ AccBound \in 0 .. U128Max
  /\ \A d \in LockTerms : U64Max * (LockMultiplier[d] * U16Max) <= U128Max
  /\ HalvingInterval \in Nat \ {0}
  /\ IsFiniteSet(RigIds)
  /\ RigCost \in [RigIds -> Nat] /\ MiningPoints \in [RigIds -> Nat]
  /\ BaseLow \in [RigIds -> Nat] /\ BaseHigh \in [RigIds -> Nat]
  /\ MaxActiveBoosts \in Nat
  /\ MaxRuns \in 0 .. U64Max

\* Every list that reward boosts on offer can form is among RewardBoosts.
ASSUME OffersAssumption ==
  /\ BoostOffers \subseteq Player!Published
  /\ RewardBoosts \subseteq Seq(0 .. U16Max)
  /\ \A n \in 0 .. MaxActiveBoosts :
       [1 .. n -> {o.value_bps : o \in {b \in BoostOffers : b.kind = "MiningRewardBps"}}]
         \subseteq RewardBoosts

ArenaInit == Pool!Init /\ Halving!EmissionInit /\ Player!PlayerInit

(***************************************************************************)
(* mine_with_rig.  The level and the boosts it reads are those before the  *)
(* run; the level it writes counts the reward it has just minted.          *)
(***************************************************************************)
\* Mutant: what is counted as minted is the reward before boosts.
MineCountingBase(u, r) ==
  LET high == Halving!Halved(BaseHigh[r], halvingLevel) IN
  /\ Player!RunsOf(u) < MaxRuns
  /\ \E base \in Halving!BaseRewards(r, halvingLevel) :
       /\ Pool!MineWithRig(u, Player!Deposit(u, r), Player!RunReward(u, r, base))
       /\ Halving!Mint(base)
       /\ Player!Mine(u, r, base, high)

\* Mutant: the statistics scale a reward that has been scaled already.
MineScalingTwice(u, r) ==
  LET high == Halving!Halved(BaseHigh[r], halvingLevel) IN
  /\ Player!RunsOf(u) < MaxRuns
  /\ \E base \in Halving!BaseRewards(r, halvingLevel) :
       /\ Pool!MineWithRig(u, Player!Deposit(u, r), Player!RunReward(u, r, base))
       /\ Halving!Mint(Player!RunReward(u, r, base))
       /\ Player!Mine(u, r, Player!RunReward(u, r, base), high)

MineWithRig(u, r) ==
  LET high == Halving!Halved(BaseHigh[r], halvingLevel) IN
  /\ Player!RunsOf(u) < MaxRuns
  /\ \E base \in Halving!BaseRewards(r, halvingLevel) :
       /\ Pool!MineWithRig(u, Player!Deposit(u, r), Player!RunReward(u, r, base))
       /\ Halving!Mint(Player!RunReward(u, r, base))
       /\ Player!Mine(u, r, base, high)

\* Mutant: each call halves once more.
UpdateHalvingAgain ==
  /\ halvingLevel' = halvingLevel + 1
  /\ UNCHANGED <<totalMinted, poolVars, playerVars>>

UpdateHalving == Halving!UpdateHalving /\ UNCHANGED <<poolVars, playerVars>>

\* stake purges expired boosts and weighs the position by the best that is left.
Stake(u, amount, lockDays) ==
  /\ Pool!Stake(u, amount, lockDays, Player!StakingMultiplier(Player!LiveBoosts(u), now))
  /\ Player!PurgeForStake(u)
  /\ UNCHANGED emissionVars

\* The instructions, and plain transfers, that concern the pool only.
PoolStep(u) ==
  /\ \/ \E id \in Pool!PositionIds : Pool!Claim(u, id)
     \/ \E id \in Pool!PositionIds : Pool!Unstake(u, id)
     \/ \E amount \in GiftAmounts : Pool!DonateXnt(u, amount)
     \/ \E amount \in GiftAmounts : Pool!DonateGame(u, amount)
  /\ UNCHANGED <<emissionVars, playerVars>>

\* Those that concern the players' accounts and the published boosts only.
PlayerStep(u) ==
  /\ \/ \E points \in Grants : Player!ApplyRankingResults(u, points)
     \/ \E day \in DayIds : Player!ResetDailyPoints(u, day)
     \/ \E id \in BoostIds : Player!ActivateBoost(u, id)
     \/ \E id \in BoostIds, offer \in BoostOffers : Player!UpsertBoostConfig(id, offer)
  /\ UNCHANGED <<poolVars, emissionVars>>

Tick(t) == Pool!Tick(t) /\ UNCHANGED <<emissionVars, playerVars>>

ArenaNext ==
  \/ \E u \in Users :
       \/ \E r \in RigIds : MineWithRig(u, r)
       \/ \E amount \in StakeAmounts, lockDays \in LockChoices : Stake(u, amount, lockDays)
       \/ PoolStep(u)
       \/ PlayerStep(u)
  \/ UpdateHalving
  \/ \E t \in Times : Tick(t)

ArenaSpec == ArenaInit /\ [][ArenaNext]_arenaVars
-----------------------------------------------------------------------------
(***************************************************************************)
(* Properties.                                                             *)
(***************************************************************************)

\* Each part is right about the whole: what the arena does to the pool, to the
\* halving and to the accounts is a behaviour of the part's own specification,
\* so what is shown of the part holds of the arena.
IsPool == Pool!Spec
IsHalving == Halving!EmissionSpec
IsPlayer == Player!PlayerSpec

\* GAME comes from mining only: what users and vault hold is what there was
\* at the start and what total_minted counts, across stakes, claims, unstakes
\* and gifts.
GameComesFromMining ==
  Pool!GameSupply = totalMinted + SumFunction(InitGame)
    + SumFunction([s \in Pool!Slots |-> Pool!InitialPositions[s].amount_staked])

\* XNT is moved, never made or lost: no run is free of charge to the treasury
\* unless a ticket pays, and no reward is paid that did not leave the treasury.
XntIsConserved ==
  SumFunction(xnt) + treasury = SumFunction(InitXnt)
=============================================================================
