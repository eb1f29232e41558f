---------------------------- MODULE Arena_proofs ----------------------------
(***************************************************************************)
(* Theorems about the arena as a whole: that every part of it behaves as   *)
(* its own module says, whatever the other parts do, and what follows for  *)
(* the tokens.  What is proved of a part in its module then holds of it in *)
(* the arena.                                                              *)
(***************************************************************************)
EXTENDS Arena, DataLemmas

\* The histories of StakingAudit and PlayerAudit play no part here.
PoolProofs == INSTANCE Staking_proofs WITH
  BoostMults <- {MaxOf(BPS, offer.value_bps) : offer \in BoostOffers} \cup {BPS},
  Deposits <- {0} \cup {RigCost[r] : r \in RigIds},
  Rewards <- {Player!ClampedBoost(p[1], values) : p \in DrawnPairs, values \in RewardBoosts},
  received <- 0, accrued <- 0, paid <- 0, opened <- 0, since <- 0, earned <- 0

PlayerProofs == INSTANCE Player_proofs WITH
  RewardPairs <- DrawnPairs,
  granted <- 0, pointsSpent <- 0, ticketsBought <- 0, freeRuns <- 0

-----------------------------------------------------------------------------
(***************************************************************************)
(* Player and PlayerProofs, and Pool and PoolProofs, are the same module   *)
(* instantiated twice, once with its proofs: what has a name in both means *)
(* the same.                                                               *)
(***************************************************************************)

\* The lists of boosts.
LEMMA SameLists ==
  ASSUME NEW boosts, NEW kind, NEW t, NEW r, NEW base, NEW values
  PROVE  /\ Player!PurgeExpired(boosts, t) = PlayerProofs!PurgeExpired(boosts, t)
         /\ Player!Tickets(boosts, r, t) = PlayerProofs!Tickets(boosts, r, t)
         /\ Player!WithoutTicket(boosts, r, t) = PlayerProofs!WithoutTicket(boosts, r, t)
         /\ Player!ValuesOf(boosts, kind, t) = PlayerProofs!ValuesOf(boosts, kind, t)
         /\ Player!Boosted(base, values) = PlayerProofs!Boosted(base, values)
         /\ Player!ClampedBoost(base, values) = PlayerProofs!ClampedBoost(base, values)
         /\ Player!StakingMultiplier(boosts, t) = PlayerProofs!StakingMultiplier(boosts, t)
         /\ Halving!ClampedBoost(base, values) = PlayerProofs!ClampedBoost(base, values)
<1>1. /\ Player!PurgeExpired(boosts, t) = PlayerProofs!PurgeExpired(boosts, t)
      /\ Player!ValuesOf(boosts, kind, t) = PlayerProofs!ValuesOf(boosts, kind, t)
      /\ Player!ValuesOf(boosts, "StakingMultiplierBps", t)
           = PlayerProofs!ValuesOf(boosts, "StakingMultiplierBps", t)
  BY DEF Player!PurgeExpired, Player!ValuesOf, Player!Kept, Player!Alive, Player!ActiveBoost,
         Player!BoostKinds, Player!IsExpired,
         PlayerProofs!PurgeExpired, PlayerProofs!ValuesOf, PlayerProofs!Kept,
         PlayerProofs!Alive, PlayerProofs!ActiveBoost, PlayerProofs!BoostKinds,
         PlayerProofs!IsExpired
<1>2. Player!Tickets(boosts, r, t) = PlayerProofs!Tickets(boosts, r, t)
  BY DEF Player!Tickets, Player!IsExpired, Player!AppliesToRig, Player!AnyRig,
         PlayerProofs!Tickets, PlayerProofs!IsExpired, PlayerProofs!AppliesToRig,
         PlayerProofs!AnyRig
<1>3. Player!WithoutTicket(boosts, r, t) = PlayerProofs!WithoutTicket(boosts, r, t)
  BY <1>2 DEF Player!WithoutTicket, Player!RemoveAt, Player!Min,
              PlayerProofs!WithoutTicket, PlayerProofs!RemoveAt, PlayerProofs!Min
<1>4. /\ Player!Boosted(base, values) = PlayerProofs!Boosted(base, values)
      /\ Halving!Boosted(base, values) = PlayerProofs!Boosted(base, values)
  BY DEF Player!Boosted, Player!MinOf, PlayerProofs!Boosted, PlayerProofs!MinOf,
         Halving!Boosted, Halving!MinOf
<1>5. /\ Player!ClampedBoost(base, values) = PlayerProofs!ClampedBoost(base, values)
      /\ Halving!ClampedBoost(base, values) = PlayerProofs!ClampedBoost(base, values)
  BY <1>4 DEF Player!ClampedBoost, Player!MinOf, PlayerProofs!ClampedBoost,
              PlayerProofs!MinOf, Halving!ClampedBoost, Halving!MinOf
<1>6. Player!StakingMultiplier(boosts, t) = PlayerProofs!StakingMultiplier(boosts, t)
  BY <1>1 DEF Player!StakingMultiplier, Player!Max, Player!Range,
              PlayerProofs!StakingMultiplier, PlayerProofs!Max, PlayerProofs!Range
<1> QED BY <1>1, <1>2, <1>3, <1>4, <1>5, <1>6

\* What a run is worth, and what it does to the account.
LEMMA SameRun ==
  ASSUME NEW u, NEW r, NEW base, NEW high
  PROVE  /\ Player!LiveBoosts(u) = PlayerProofs!LiveBoosts(u)
         /\ Player!BoostsAfterRun(u, r) = PlayerProofs!BoostsAfterRun(u, r)
         /\ Player!Deposit(u, r) = PlayerProofs!Deposit(u, r)
         /\ Player!RunReward(u, r, base) = PlayerProofs!RunReward(u, r, base)
         /\ Player!Mine(u, r, base, high) <=> PlayerProofs!Mine(u, r, base, high)
<1>1. Player!LiveBoosts(u) = PlayerProofs!LiveBoosts(u)
  BY SameLists DEF Player!LiveBoosts, PlayerProofs!LiveBoosts
<1>2. /\ Player!BoostsAfterRun(u, r) = PlayerProofs!BoostsAfterRun(u, r)
      /\ Player!Deposit(u, r) = PlayerProofs!Deposit(u, r)
  BY <1>1, SameLists DEF Player!BoostsAfterRun, PlayerProofs!BoostsAfterRun,
                         Player!Deposit, PlayerProofs!Deposit
<1>3. /\ Player!RunReward(u, r, base) = PlayerProofs!RunReward(u, r, base)
      /\ Player!RunPoints(u, r) = PlayerProofs!RunPoints(u, r)
      /\ Player!IsCrit(u, r, base, high) <=> PlayerProofs!IsCrit(u, r, base, high)
  BY <1>2, SameLists DEF Player!RunReward, PlayerProofs!RunReward, Player!RunPoints,
         PlayerProofs!RunPoints, Player!IsCrit, PlayerProofs!IsCrit
<1>4. Player!Mine(u, r, base, high) <=> PlayerProofs!Mine(u, r, base, high)
  BY <1>2, <1>3 DEF Player!Mine, Player!SatAdd, Player!MinOf,
                    PlayerProofs!Mine, PlayerProofs!SatAdd, PlayerProofs!MinOf
<1> QED BY <1>1, <1>2, <1>3, <1>4

\* The specification of the players' accounts.
LEMMA SamePlayer ==
  /\ Player!PlayerInit <=> PlayerProofs!PlayerInit
  /\ [Player!PlayerNext]_(Player!playerVars) <=> [PlayerProofs!PlayerNext]_(PlayerProofs!playerVars)
<1>1. Player!PlayerInit <=> PlayerProofs!PlayerInit
  BY DEF Player!PlayerInit, Player!NewAccount, Player!NoOffer,
         PlayerProofs!PlayerInit, PlayerProofs!NewAccount, PlayerProofs!NoOffer
<1>2. \A u : /\ Player!RunsOf(u) = PlayerProofs!RunsOf(u)
             /\ Player!PurgeForStake(u) <=> PlayerProofs!PurgeForStake(u)
  BY SameRun DEF Player!RunsOf, Player!SumFunction, Player!SumFunctionOnSet,
         Player!FoldFunctionOnSet, Player!MapThenFoldSet, Player!PurgeForStake,
         PlayerProofs!RunsOf, PlayerProofs!SumFunction, PlayerProofs!SumFunctionOnSet,
         PlayerProofs!FoldFunctionOnSet, PlayerProofs!MapThenFoldSet,
         PlayerProofs!PurgeForStake
<1>3. \A u, n : /\ Player!ApplyRankingResults(u, n) <=> PlayerProofs!ApplyRankingResults(u, n)
                /\ Player!ResetDailyPoints(u, n) <=> PlayerProofs!ResetDailyPoints(u, n)
                /\ Player!UpsertBoostConfig(u, n) <=> PlayerProofs!UpsertBoostConfig(u, n)
                /\ Player!PassTime(n) <=> PlayerProofs!PassTime(n)
  BY DEF Player!ApplyRankingResults, Player!ResetDailyPoints, Player!UpsertBoostConfig,
         Player!PassTime, Player!SatAdd, Player!MinOf,
         PlayerProofs!ApplyRankingResults, PlayerProofs!ResetDailyPoints,
         PlayerProofs!UpsertBoostConfig, PlayerProofs!PassTime, PlayerProofs!SatAdd,
         PlayerProofs!MinOf
<1>4. ASSUME NEW u, NEW id
      PROVE  Player!ActivateBoost(u, id) <=> PlayerProofs!ActivateBoost(u, id)
  BY SameRun DEF Player!ActivateBoost, Player!CanActivate, Player!Activated, Player!NoOffer,
         Player!SatSub, Player!MaxOf,
         PlayerProofs!ActivateBoost, PlayerProofs!CanActivate, PlayerProofs!Activated,
         PlayerProofs!NoOffer, PlayerProofs!SatSub, PlayerProofs!MaxOf
<1>5. Player!PlayerNext <=> PlayerProofs!PlayerNext
  BY <1>2, <1>3, <1>4, SameRun DEF Player!PlayerNext, PlayerProofs!PlayerNext
<1> QED BY <1>1, <1>5 DEF Player!playerVars, PlayerProofs!playerVars

\* The specification of the pool.
LEMMA SamePool ==
  /\ Pool!Init <=> PoolProofs!Init
  /\ [Pool!Next]_(Pool!vars) <=> [PoolProofs!Next]_(PoolProofs!vars)
  /\ Pool!TypeOK <=> PoolProofs!TypeOK
BY DEF
  Pool!Init, Pool!Next, Pool!vars, Pool!TypeOK, Pool!Position, Pool!NoPosition,
  Pool!InitialPositions, Pool!Slots, Pool!PositionIds, Pool!CalculateEffective,
  Pool!LockMultiplier, Pool!LockTerms, Pool!Amounts, Pool!Effectives, Pool!GameSupply,
  Pool!Pending, Pool!SettledDebt, Pool!Distribution, Pool!MineWithRig, Pool!NextSlot,
  Pool!Stake, Pool!CanSettle, Pool!PayRewards, Pool!Claim, Pool!CanUnstake, Pool!Unstake,
  Pool!DonateXnt, Pool!DonateGame, Pool!Tick, Pool!MaxOf, Pool!MinOf, Pool!SatAdd,
  Pool!SatSub, Pool!Accumulated, Pool!PendingRewards, Pool!ToStakers, Pool!PerShare,
  Pool!SumFunction, Pool!SumFunctionOnSet, Pool!FoldFunctionOnSet, Pool!MapThenFoldSet,
  PoolProofs!Init, PoolProofs!Next, PoolProofs!vars, PoolProofs!TypeOK, PoolProofs!Position,
  PoolProofs!NoPosition, PoolProofs!InitialPositions, PoolProofs!Slots,
  PoolProofs!PositionIds, PoolProofs!CalculateEffective, PoolProofs!LockMultiplier,
  PoolProofs!LockTerms, PoolProofs!Amounts, PoolProofs!Effectives, PoolProofs!GameSupply,
  PoolProofs!Pending, PoolProofs!SettledDebt, PoolProofs!Distribution,
  PoolProofs!MineWithRig, PoolProofs!NextSlot, PoolProofs!Stake, PoolProofs!CanSettle,
  PoolProofs!PayRewards, PoolProofs!Claim, PoolProofs!CanUnstake, PoolProofs!Unstake,
  PoolProofs!DonateXnt, PoolProofs!DonateGame, PoolProofs!Tick, PoolProofs!MaxOf,
  PoolProofs!MinOf, PoolProofs!SatAdd, PoolProofs!SatSub, PoolProofs!Accumulated,
  PoolProofs!PendingRewards, PoolProofs!ToStakers, PoolProofs!PerShare,
  PoolProofs!SumFunction, PoolProofs!SumFunctionOnSet, PoolProofs!FoldFunctionOnSet,
  PoolProofs!MapThenFoldSet
-----------------------------------------------------------------------------
(***************************************************************************)
(* What the parts assume of their constants follows from what the arena    *)
(* assumes of its own.                                                     *)
(***************************************************************************)

\* A reward shifted right is a natural number.
LEMMA HalvedIsNat ==
  ASSUME NEW base \in Nat, NEW level \in Nat
  PROVE  Halving!Halved(base, level) \in Nat
<1> DEFINE Next(g, n) == IF n = 0 THEN base ELSE g[n - 1] \div 2
           Defines(g, m) == g = [n \in 0 .. m |-> Next(g, n)]
           result == CHOOSE g : Defines(g, level)
<1>1. Halving!ShiftedRight(base, level) = result[level]
  BY DEF Halving!ShiftedRight
<1>2. \E g : Defines(g, level)
  <2> DEFINE T == {m \in Nat : \E g : Defines(g, m)}
  <2>1. 0 \in T
    <3>1. Defines([n \in 0 .. 0 |-> base], 0)
      OBVIOUS
    <3> QED BY <3>1
  <2>2. ASSUME NEW m \in Nat, m \in T PROVE m + 1 \in T
    <3>1. PICK g : Defines(g, m)
      BY <2>2
    <3> DEFINE h == [n \in 0 .. m + 1 |-> IF n <= m THEN g[n] ELSE Next(g, m + 1)]
    <3>2. ASSUME NEW n \in 0 .. m + 1 PROVE h[n] = Next(h, n)
      <4>1. CASE n = 0
        BY <3>1, <4>1
      <4>2. CASE n # 0 /\ n <= m
        <5>1. h[n] = g[n] /\ h[n - 1] = g[n - 1]
          BY <4>2
        <5>2. g[n] = Next(g, n)
          BY <3>1, <4>2
        <5> QED BY <4>2, <5>1, <5>2
      <4>3. CASE n = m + 1
        <5>1. h[n - 1] = g[m] /\ n - 1 = m /\ n # 0 /\ ~ n <= m
          BY <4>3
        <5> QED BY <4>3, <5>1
      <4> QED BY <4>1, <4>2, <4>3
    <3>3. h = [n \in 0 .. m + 1 |-> h[n]]
      OBVIOUS
    <3>4. Defines(h, m + 1)
      <4> HIDE DEF h, Next
      <4> QED BY <3>2, <3>3
    <3>5. \E f : Defines(f, m + 1)
      BY <3>4
    <3> HIDE DEF Defines
    <3> QED BY <3>5
  <2>3. Nat \subseteq T
    <3> HIDE DEF T
    <3> QED BY <2>1, <2>2, NatsIn
  <2> QED BY <2>3
<1>3. Defines(result, level)
  BY <1>2
<1>4. \A n \in 0 .. level : result[n] = Next(result, n)
  <2> HIDE DEF result, Next
  <2> QED BY <1>3
<1> HIDE DEF result
<1>5. \A n \in 0 .. level : result[n] \in Nat
  <2> DEFINE T == {n \in Nat : n <= level => result[n] \in Nat}
  <2>1. 0 \in T
    BY <1>4
  <2>2. ASSUME NEW n \in Nat, n \in T PROVE n + 1 \in T
    <3> SUFFICES ASSUME n + 1 <= level PROVE result[n + 1] \in Nat
      OBVIOUS
    <3>1. result[n] \in Nat /\ result[n + 1] = result[n] \div 2
      BY <1>4, <2>2
    <3> QED BY <3>1
  <2> HIDE DEF T
  <2>3. Nat \subseteq T
    BY <2>1, <2>2, NatsIn
  <2> QED BY <2>3 DEF T
<1>6. Halving!ShiftedRight(base, level) \in Nat
  BY <1>1, <1>5
<1> QED BY <1>6 DEF Halving!Halved

\* What a run can draw.
LEMMA DrawnType == DrawnPairs \subseteq Nat \X Nat
<1> DEFINE Drawn(r, level) ==
             {<<base, Halving!Halved(BaseHigh[r], level)>> : base \in Halving!BaseRewards(r, level)}
<1>1. ASSUME NEW r \in RigIds, NEW level \in 0 .. 255
      PROVE  Drawn(r, level) \subseteq Nat \X Nat
  <2>1. BaseLow[r] \in Nat /\ BaseHigh[r] \in Nat /\ level \in Nat
    BY NumbersAssumption
  <2>2. Halving!Halved(BaseLow[r], level) \in Nat /\ Halving!Halved(BaseHigh[r], level) \in Nat
    BY <2>1, HalvedIsNat
  <2> QED BY <2>2 DEF Halving!BaseRewards
<1>2. DrawnPairs = UNION {Drawn(r, level) : r \in RigIds, level \in 0 .. 255}
  BY DEF DrawnPairs
<1> HIDE DEF Drawn
<1>3. ASSUME NEW p \in DrawnPairs PROVE p \in Nat \X Nat
  <2>1. PICK D \in {Drawn(r, level) : r \in RigIds, level \in 0 .. 255} : p \in D
    BY <1>2
  <2>2. PICK r \in RigIds, level \in 0 .. 255 : D = Drawn(r, level)
    BY <2>1
  <2> QED BY <1>1, <2>1, <2>2
<1> QED BY <1>3

LEMMA PlayerHolds == PlayerProofs!PlayerAssumption
<1>1. BoostOffers \subseteq PlayerProofs!Published
  BY OffersAssumption DEF Player!Published, Player!BoostKinds, PlayerProofs!Published,
                          PlayerProofs!BoostKinds
<1> QED BY <1>1, DrawnType, NumbersAssumption
     DEF PlayerProofs!PlayerAssumption, IsFiniteSet, PlayerProofs!IsFiniteSet

\* What the boosts make of a reward is a u64.
LEMMA RewardType ==
  ASSUME NEW base \in Nat, NEW values \in Seq(Nat)
  PROVE  Player!ClampedBoost(base, values) \in 0 .. U64Max
<1>1. PlayerProofs!ClampedBoost(base, values) \in 0 .. U64Max
  BY ScaleAssumption, WidthAssumption, PlayerHolds, PlayerProofs!ClampedType
     DEF PlayerProofs!PlayerAssumption
<1>2. Player!ClampedBoost(base, values) = PlayerProofs!ClampedBoost(base, values)
  BY SameLists
<1> QED BY <1>1, <1>2

LEMMA PoolHolds ==
  /\ PoolProofs!UsersAssumption
  /\ PoolProofs!ConfigAssumption
  /\ PoolProofs!HoldingsAssumption
  /\ PoolProofs!EffectiveAssumption
<1>1. PoolProofs!UsersAssumption
  BY WalletsAssumption DEF PoolProofs!UsersAssumption, IsFiniteSet, PoolProofs!IsFiniteSet
<1>2. PoolProofs!ConfigAssumption
  <2>1. {MaxOf(BPS, offer.value_bps) : offer \in BoostOffers} \cup {BPS} \subseteq BPS .. U16Max
    <3>1. \A offer \in BoostOffers : offer.value_bps \in 0 .. U16Max
      BY OffersAssumption DEF Player!Published
    <3> QED BY <3>1, ScaleAssumption, WidthAssumption DEF MaxOf
  <2>2. {0} \cup {RigCost[r] : r \in RigIds} \subseteq Nat
    BY NumbersAssumption
  <2>3. {Player!ClampedBoost(p[1], values) : p \in DrawnPairs, values \in RewardBoosts} \subseteq Nat
    <3>1. ASSUME NEW p \in DrawnPairs, NEW values \in RewardBoosts
          PROVE  Player!ClampedBoost(p[1], values) \in Nat
      <4>1. p[1] \in Nat
        BY DrawnType
      <4>2. values \in Seq(Nat)
        BY OffersAssumption, WidthAssumption
      <4> QED BY <4>1, <4>2, RewardType, WidthAssumption
    <3> QED BY <3>1
  <2>4. StakingShareBps \in 1 .. BPS /\ StakeAmounts \subseteq 0 .. U64Max
    BY NumbersAssumption
  <2>5. LockChoices \subseteq PoolProofs!LockTerms
    BY NumbersAssumption DEF LockTerms, PoolProofs!LockTerms
  <2>6. /\ GiftAmounts \subseteq Nat /\ Times \subseteq Nat /\ 0 \in Times
        /\ Day \in Nat \ {0} /\ AccBound \in 0 .. U128Max
    BY NumbersAssumption
  <2> QED BY <2>1, <2>2, <2>3, <2>4, <2>5, <2>6 DEF PoolProofs!ConfigAssumption
<1>3. PoolProofs!HoldingsAssumption
  BY WalletsAssumption DEF PoolProofs!HoldingsAssumption, SumFunction, SumFunctionOnSet,
       FoldFunctionOnSet, MapThenFoldSet, Pool!Slots, Pool!InitialPositions, Pool!NoPosition,
       Pool!PositionIds, Pool!CalculateEffective, Pool!LockMultiplier, Pool!LockTerms,
       PoolProofs!SumFunction, PoolProofs!SumFunctionOnSet, PoolProofs!FoldFunctionOnSet,
       PoolProofs!MapThenFoldSet, PoolProofs!Slots, PoolProofs!InitialPositions,
       PoolProofs!NoPosition, PoolProofs!PositionIds, PoolProofs!CalculateEffective,
       PoolProofs!LockMultiplier, PoolProofs!LockTerms
<1>4. PoolProofs!EffectiveAssumption
  BY NumbersAssumption DEF PoolProofs!EffectiveAssumption, LockTerms, LockMultiplier,
       PoolProofs!LockTerms, PoolProofs!LockMultiplier
<1> QED BY <1>1, <1>2, <1>3, <1>4
-----------------------------------------------------------------------------
(***************************************************************************)
(* The accounts and the level.  A run draws its reward at the level the    *)
(* last one left, so that it is a draw PlayerAccount knows takes the type  *)
(* of the level, which takes the type of the count, which takes that of    *)
(* the reward, which takes that of the accounts: one invariant.            *)
(***************************************************************************)
LevelInv ==
  /\ PlayerProofs!PlayerTypeOK
  /\ totalMinted \in Nat
  /\ halvingLevel \in 0 .. 255

LEMMA LevelType ==
  ASSUME NEW minted \in Nat
  PROVE  Halving!LevelOf(minted) \in 0 .. 255
<1>1. minted \div HalvingInterval \in Nat
  BY NumbersAssumption
<1> QED BY <1>1 DEF Halving!LevelOf

\* A run draws a pair that PlayerAccount knows, and mints a natural number.
LEMMA RunDraws ==
  ASSUME LevelInv, NEW u \in Users, NEW r \in RigIds,
         NEW base \in Halving!BaseRewards(r, halvingLevel)
  PROVE  /\ <<base, Halving!Halved(BaseHigh[r], halvingLevel)>> \in DrawnPairs
         /\ base \in Nat
         /\ Player!RunReward(u, r, base) \in 0 .. U64Max
<1>1. <<base, Halving!Halved(BaseHigh[r], halvingLevel)>> \in DrawnPairs
  <2> DEFINE Drawn(q, level) ==
               {<<b, Halving!Halved(BaseHigh[q], level)>> : b \in Halving!BaseRewards(q, level)}
  <2>1. <<base, Halving!Halved(BaseHigh[r], halvingLevel)>> \in Drawn(r, halvingLevel)
    OBVIOUS
  <2>2. DrawnPairs = UNION {Drawn(q, level) : q \in RigIds, level \in 0 .. 255}
    BY DEF DrawnPairs
  <2>3. halvingLevel \in 0 .. 255
    BY DEF LevelInv
  <2> HIDE DEF Drawn
  <2> QED BY <2>1, <2>2, <2>3
<1>2. base \in Nat
  BY <1>1, DrawnType
<1>3. PlayerProofs!RunReward(u, r, base) \in 0 .. U64Max
  BY <1>2, PlayerHolds, ScaleAssumption, WidthAssumption, PlayerProofs!RunType
     DEF LevelInv, PlayerProofs!PlayerAssumption
<1>4. Player!RunReward(u, r, base) = PlayerProofs!RunReward(u, r, base)
  BY SameRun
<1> QED BY <1>1, <1>2, <1>3, <1>4

\* A step of the arena is, for the accounts, a step of PlayerAccount.
LEMMA ArenaStepIsPlayerStep ==
  ASSUME LevelInv, [ArenaNext]_arenaVars
  PROVE  [Player!PlayerNext]_(Player!playerVars)
<1>1. ASSUME NEW u \in Users, NEW r \in RigIds, MineWithRig(u, r)
      PROVE  Player!PlayerNext
  <2> DEFINE high == Halving!Halved(BaseHigh[r], halvingLevel)
  <2>1. PICK base \in Halving!BaseRewards(r, halvingLevel) : Player!Mine(u, r, base, high)
    BY <1>1 DEF MineWithRig
  <2>2. Player!RunsOf(u) < MaxRuns
    BY <1>1 DEF MineWithRig
  <2> DEFINE p == <<base, high>>
  <2>3. p \in DrawnPairs /\ p[1] = base /\ p[2] = high
    BY RunDraws
  <2>4. Player!Mine(u, r, p[1], p[2])
    BY <2>1, <2>3
  <2> HIDE DEF p
  <2> QED BY <2>2, <2>3, <2>4 DEF Player!PlayerNext
<1>2. ASSUME NEW u \in Users, NEW amount \in StakeAmounts, NEW lockDays \in LockChoices,
             Stake(u, amount, lockDays)
      PROVE  Player!PlayerNext
  BY <1>2 DEF Stake, Player!PlayerNext
<1>3. ASSUME NEW u \in Users, PoolStep(u) PROVE UNCHANGED Player!playerVars
  BY <1>3 DEF PoolStep, Player!playerVars, playerVars, Pool!Claim, Pool!Unstake, Pool!DonateXnt,
              Pool!DonateGame
<1>4. ASSUME NEW u \in Users, PlayerStep(u) PROVE Player!PlayerNext
  BY <1>4 DEF PlayerStep, Player!PlayerNext
<1>5. ASSUME UpdateHalving PROVE UNCHANGED Player!playerVars
  BY <1>5 DEF UpdateHalving, Player!playerVars, playerVars, poolVars
<1>6. ASSUME NEW t \in Times, Tick(t) PROVE Player!PlayerNext
  BY <1>6 DEF Tick, Pool!Tick, Player!PlayerNext, Player!PassTime, playerVars
<1>7. CASE UNCHANGED arenaVars
  BY <1>7 DEF arenaVars, poolVars, playerVars, Player!playerVars
<1> QED BY <1>1, <1>2, <1>3, <1>4, <1>5, <1>6, <1>7 DEF ArenaNext

\* The count and the level keep their types.
LEMMA LevelKeeps ==
  ASSUME LevelInv, [ArenaNext]_arenaVars
  PROVE  totalMinted' \in Nat /\ halvingLevel' \in 0 .. 255
<1>1. ASSUME NEW u \in Users, NEW r \in RigIds, MineWithRig(u, r)
      PROVE  totalMinted' \in Nat /\ halvingLevel' \in 0 .. 255
  <2>1. PICK base \in Halving!BaseRewards(r, halvingLevel) :
               Halving!Mint(Player!RunReward(u, r, base))
    BY <1>1 DEF MineWithRig
  <2> DEFINE reward == Player!RunReward(u, r, base)
  <2>2. reward \in 0 .. U64Max
    BY RunDraws
  <2> HIDE DEF reward
  <2>3. /\ totalMinted' = Halving!SatAdd(totalMinted, reward, U64Max)
        /\ halvingLevel' = Halving!LevelOf(totalMinted')
    BY <2>1 DEF Halving!Mint, reward
  <2>4. totalMinted' \in Nat
    BY <2>2, <2>3, WidthAssumption DEF LevelInv, Halving!SatAdd, Halving!MinOf
  <2> QED BY <2>3, <2>4, LevelType
<1>2. ASSUME UpdateHalving PROVE totalMinted' \in Nat /\ halvingLevel' \in 0 .. 255
  BY <1>2, LevelType DEF UpdateHalving, Halving!UpdateHalving, LevelInv
<1>3. CASE UNCHANGED emissionVars
  BY <1>3 DEF emissionVars, LevelInv
<1>4. CASE UNCHANGED arenaVars
  BY <1>3, <1>4 DEF arenaVars
<1> QED BY <1>1, <1>2, <1>3, <1>4 DEF ArenaNext, Stake, PoolStep, PlayerStep, Tick

LEMMA LevelInvariant == ArenaSpec => []LevelInv
<1>1. ArenaInit => LevelInv
  <2> SUFFICES ASSUME ArenaInit PROVE LevelInv
    OBVIOUS
  <2>1. PlayerProofs!PlayerInit
    BY SamePlayer DEF ArenaInit
  <2>2. PlayerProofs!PlayerTypeOK
    BY <2>1, PlayerHolds, ScaleAssumption, WidthAssumption, PlayerProofs!PlayerInitType
       DEF PlayerProofs!PlayerAssumption
  <2> QED BY <2>2 DEF ArenaInit, Halving!EmissionInit, LevelInv
<1>2. LevelInv /\ [ArenaNext]_arenaVars => LevelInv'
  <2> SUFFICES ASSUME LevelInv, [ArenaNext]_arenaVars PROVE LevelInv'
    OBVIOUS
  <2>1. [PlayerProofs!PlayerNext]_(PlayerProofs!playerVars)
    BY ArenaStepIsPlayerStep, SamePlayer
  <2>2. PlayerProofs!PlayerTypeOK
    BY DEF LevelInv
  <2>3. PlayerProofs!PlayerTypeOK'
    BY <2>1, <2>2, PlayerHolds, ScaleAssumption, WidthAssumption, PlayerProofs!PlayerKeepsType
       DEF PlayerProofs!PlayerAssumption
  <2> QED BY <2>3, LevelKeeps DEF LevelInv
<1> QED BY <1>1, <1>2, PTL DEF ArenaSpec

\* What the arena does to the accounts is a behaviour of PlayerAccount: stake
\* and mine_with_rig, whatever they do to the pool, do to an account nothing
\* that PlayerAccount does not know.
THEOREM ArenaIsPlayer == ArenaSpec => IsPlayer
<1>1. ArenaInit => Player!PlayerInit
  BY DEF ArenaInit
<1>2. LevelInv /\ [ArenaNext]_arenaVars => [Player!PlayerNext]_(Player!playerVars)
  BY ArenaStepIsPlayerStep
<1> QED BY <1>1, <1>2, LevelInvariant, PTL DEF ArenaSpec, IsPlayer, Player!PlayerSpec

-----------------------------------------------------------------------------
(***************************************************************************)
(* The halving and the pool.  They get from the boosts only what boosts on *)
(* offer can give.                                                         *)
(***************************************************************************)
ArenaInv == LevelInv /\ PlayerProofs!HoldsOffers

LEMMA ArenaInvariant == ArenaSpec => []ArenaInv
<1>1. Player!PlayerSpec => PlayerProofs!PlayerSpec
  BY SamePlayer, PTL DEF Player!PlayerSpec, PlayerProofs!PlayerSpec
<1>2. PlayerProofs!PlayerSpec => []PlayerProofs!HoldsOffers
  BY PlayerHolds, ScaleAssumption, WidthAssumption, PlayerProofs!OnlyOffered
     DEF PlayerProofs!PlayerAssumption
<1>3. ArenaSpec => Player!PlayerSpec
  BY ArenaIsPlayer DEF IsPlayer
<1> QED BY <1>1, <1>2, <1>3, LevelInvariant, PTL DEF ArenaInv

\* The boosts that count after the ticket is gone are of those on offer.
LEMMA RunBoosts ==
  ASSUME ArenaInv, NEW u \in Users, NEW r \in RigIds
  PROVE  Player!ValuesOf(Player!BoostsAfterRun(u, r), "MiningRewardBps", now) \in RewardBoosts
<1> DEFINE boosts == PlayerProofs!BoostsAfterRun(u, r)
           values == PlayerProofs!ValuesOf(boosts, "MiningRewardBps", now)
<1>1. PlayerProofs!LiveBoosts(u) \in Seq(PlayerProofs!Offered)
  <2>1. accounts[u].active_boosts \in Seq(PlayerProofs!Offered)
    BY DEF ArenaInv, PlayerProofs!HoldsOffers
  <2>2. PlayerProofs!PurgeExpired(accounts[u].active_boosts, now) \in Seq(PlayerProofs!Offered)
    BY <2>1, PlayerHolds, ScaleAssumption, WidthAssumption, PlayerProofs!OfferedAfterRun
       DEF PlayerProofs!PlayerAssumption
  <2> QED BY <2>2 DEF PlayerProofs!LiveBoosts
<1>2. boosts \in Seq(PlayerProofs!Offered)
  <2>1. PlayerProofs!WithoutTicket(PlayerProofs!LiveBoosts(u), r, now) \in Seq(PlayerProofs!Offered)
    BY <1>1, PlayerHolds, ScaleAssumption, WidthAssumption, PlayerProofs!OfferedAfterRun
       DEF PlayerProofs!PlayerAssumption
  <2> QED BY <2>1 DEF PlayerProofs!BoostsAfterRun
<1>3. Len(boosts) <= MaxActiveBoosts /\ Len(boosts) \in Nat
  <2>1. Len(boosts) <= MaxActiveBoosts
    BY PlayerHolds, ScaleAssumption, WidthAssumption, PlayerProofs!RunType
       DEF ArenaInv, LevelInv, PlayerProofs!PlayerAssumption
  <2> QED BY <1>2, <2>1, LenProperties
<1> HIDE DEF boosts
<1>4. /\ Len(values) \in 0 .. Len(boosts)
      /\ values \in [1 .. Len(values) -> PlayerProofs!OfferedValues("MiningRewardBps")]
  BY <1>2, PlayerHolds, ScaleAssumption, WidthAssumption, PlayerProofs!ValuesOffered
     DEF PlayerProofs!PlayerAssumption
<1>5. Player!ValuesOf(Player!BoostsAfterRun(u, r), "MiningRewardBps", now) = values
  BY SameRun, SameLists DEF boosts
<1> HIDE DEF values
<1> DEFINE n == Len(values)
<1>6. n \in 0 .. MaxActiveBoosts
  BY <1>3, <1>4, NumbersAssumption
<1> HIDE DEF n
<1>7. values \in [1 .. n -> PlayerProofs!OfferedValues("MiningRewardBps")]
  BY <1>4 DEF n
<1>8. values \in RewardBoosts
  BY <1>6, <1>7, OffersAssumption DEF PlayerProofs!OfferedValues
<1> QED BY <1>5, <1>8

\* What the arena does to the count and the level is a behaviour of Emission:
\* the boosts of all players together, the tickets and the ranking have no
\* other part in it than the lists of reward boosts Emission allows for.
THEOREM ArenaIsHalving == ArenaSpec => IsHalving
<1>1. ArenaInit => Halving!EmissionInit
  BY DEF ArenaInit
<1>2. ArenaInv /\ [ArenaNext]_arenaVars => [Halving!EmissionNext]_(Halving!emissionVars)
  <2> SUFFICES ASSUME ArenaInv, [ArenaNext]_arenaVars
               PROVE  [Halving!EmissionNext]_(Halving!emissionVars)
    OBVIOUS
  <2>1. ASSUME NEW u \in Users, NEW r \in RigIds, MineWithRig(u, r)
        PROVE  Halving!EmissionNext
    <3> DEFINE values == Player!ValuesOf(Player!BoostsAfterRun(u, r), "MiningRewardBps", now)
    <3>1. PICK base \in Halving!BaseRewards(r, halvingLevel) :
                 Halving!Mint(Player!RunReward(u, r, base))
      BY <2>1 DEF MineWithRig
    <3>2. values \in RewardBoosts
      BY RunBoosts
    <3>3. Player!RunReward(u, r, base) = Player!ClampedBoost(base, values)
      BY DEF Player!RunReward
    <3> HIDE DEF values
    <3>4. Player!ClampedBoost(base, values) = Halving!ClampedBoost(base, values)
      BY SameLists
    <3>5. Halving!Mint(Halving!ClampedBoost(base, values))
      BY <3>1, <3>3, <3>4
    <3>6. Halving!Mine(r, values)
      BY <3>5 DEF Halving!Mine
    <3> QED BY <3>2, <3>6 DEF Halving!EmissionNext
  <2>2. CASE UpdateHalving
    BY <2>2 DEF UpdateHalving, Halving!EmissionNext
  <2>3. CASE UNCHANGED emissionVars
    BY <2>3 DEF emissionVars, Halving!emissionVars
  <2>4. CASE UNCHANGED arenaVars
    BY <2>3, <2>4 DEF arenaVars
  <2> QED BY <2>1, <2>2, <2>3, <2>4 DEF ArenaNext, Stake, PoolStep, PlayerStep, Tick
<1> QED BY <1>1, <1>2, ArenaInvariant, PTL DEF ArenaSpec, IsHalving, Halving!EmissionSpec

\* The weight a stake gets is one the pool allows for.
LEMMA StakeWeight ==
  ASSUME ArenaInv, NEW u \in Users
  PROVE  Player!StakingMultiplier(Player!LiveBoosts(u), now)
           \in {MaxOf(BPS, offer.value_bps) : offer \in BoostOffers} \cup {BPS}
<1> DEFINE boosts == PlayerProofs!LiveBoosts(u)
<1>1. boosts \in Seq(PlayerProofs!Offered)
  <2>1. accounts[u].active_boosts \in Seq(PlayerProofs!Offered)
    BY DEF ArenaInv, PlayerProofs!HoldsOffers
  <2>2. PlayerProofs!PurgeExpired(accounts[u].active_boosts, now) \in Seq(PlayerProofs!Offered)
    BY <2>1, PlayerHolds, ScaleAssumption, WidthAssumption, PlayerProofs!OfferedAfterRun
       DEF PlayerProofs!PlayerAssumption
  <2> QED BY <2>2 DEF PlayerProofs!LiveBoosts
<1>2. Player!LiveBoosts(u) = boosts
  BY SameRun
<1> HIDE DEF boosts
<1>3. PlayerProofs!StakingMultiplier(boosts, now)
        \in {PlayerProofs!MaxOf(BPS, offer.value_bps) : offer \in BoostOffers} \cup {BPS}
  BY <1>1, PlayerHolds, ScaleAssumption, WidthAssumption, PlayerProofs!MultiplierOffered
     DEF PlayerProofs!PlayerAssumption
<1>4. Player!StakingMultiplier(boosts, now) = PlayerProofs!StakingMultiplier(boosts, now)
  BY SameLists
<1> QED BY <1>2, <1>3, <1>4 DEF MaxOf, PlayerProofs!MaxOf

\* What the arena does to the pool, the positions and the tokens is a behaviour
\* of StakingPool: no list of boosts makes a reward, a price or a weight the
\* pool has not been checked with.
THEOREM ArenaIsPool == ArenaSpec => IsPool
<1>1. ArenaInit => Pool!Init
  BY DEF ArenaInit
<1>2. ArenaInv /\ [ArenaNext]_arenaVars => [Pool!Next]_(Pool!vars)
  <2> SUFFICES ASSUME ArenaInv, [ArenaNext]_arenaVars PROVE [Pool!Next]_(Pool!vars)
    OBVIOUS
  <2>1. ASSUME NEW u \in Users, NEW r \in RigIds, MineWithRig(u, r) PROVE Pool!Next
    <3> DEFINE values == Player!ValuesOf(Player!BoostsAfterRun(u, r), "MiningRewardBps", now)
               high == Halving!Halved(BaseHigh[r], halvingLevel)
               deposits == {0} \cup {RigCost[q] : q \in RigIds}
               rewards == {Player!ClampedBoost(p[1], list) : p \in DrawnPairs, list \in RewardBoosts}
    <3>1. PICK base \in Halving!BaseRewards(r, halvingLevel) :
                 Pool!MineWithRig(u, Player!Deposit(u, r), Player!RunReward(u, r, base))
      BY <2>1 DEF MineWithRig
    <3>2. values \in RewardBoosts
      BY RunBoosts
    <3>3. Player!RunReward(u, r, base) = Player!ClampedBoost(base, values)
      BY DEF Player!RunReward
    <3> HIDE DEF values
    <3>4. Player!RunReward(u, r, base) \in rewards
      <4> DEFINE p == <<base, high>>
      <4>1. p \in DrawnPairs /\ p[1] = base
        BY RunDraws DEF ArenaInv
      <4> HIDE DEF p
      <4>2. Player!ClampedBoost(p[1], values) \in rewards
        BY <3>2, <4>1
      <4> QED BY <3>3, <4>1, <4>2
    <3>5. Player!Deposit(u, r) \in deposits
      BY DEF Player!Deposit
    <3> DEFINE deposit == Player!Deposit(u, r)
               reward == Player!RunReward(u, r, base)
    <3> HIDE DEF deposit, reward
    <3>6. Pool!MineWithRig(u, deposit, reward) /\ deposit \in deposits /\ reward \in rewards
      BY <3>1, <3>4, <3>5 DEF deposit, reward
    <3>7. \E d \in deposits, w \in rewards : Pool!MineWithRig(u, d, w)
      BY <3>6
    <3> QED BY <3>7 DEF Pool!Next
  <2>2. ASSUME NEW u \in Users, NEW amount \in StakeAmounts, NEW lockDays \in LockChoices,
               Stake(u, amount, lockDays)
        PROVE  Pool!Next
    <3> DEFINE mults == {MaxOf(BPS, offer.value_bps) : offer \in BoostOffers} \cup {BPS}
    <3>1. \E m \in mults : Pool!Stake(u, amount, lockDays, m)
      BY <2>2, StakeWeight DEF Stake
    <3> QED BY <3>1 DEF Pool!Next
  <2>3. ASSUME NEW u \in Users, PoolStep(u) PROVE Pool!Next
    BY <2>3 DEF PoolStep, Pool!Next
  <2>4. ASSUME NEW t \in Times, Tick(t) PROVE Pool!Next
    BY <2>4 DEF Tick, Pool!Next
  <2>5. CASE UNCHANGED poolVars
    BY <2>5 DEF poolVars, Pool!vars
  <2>6. CASE UNCHANGED arenaVars
    BY <2>5, <2>6 DEF arenaVars
  <2> QED BY <2>1, <2>2, <2>3, <2>4, <2>5, <2>6 DEF ArenaNext, PlayerStep, UpdateHalving
<1> QED BY <1>1, <1>2, ArenaInvariant, PTL DEF ArenaSpec, IsPool, Pool!Spec

-----------------------------------------------------------------------------
(***************************************************************************)
(* Where the tokens are.                                                   *)
(***************************************************************************)

\* The pool's variables keep their types in the arena.
LEMMA PoolTypes == ArenaSpec => []PoolProofs!TypeOK
<1>1. Pool!Spec => PoolProofs!Spec
  BY SamePool, PTL DEF Pool!Spec, PoolProofs!Spec
<1>2. PoolProofs!Spec => []PoolProofs!TypeOK
  BY PoolHolds, ScaleAssumption, WidthAssumption, PoolProofs!TypeCorrect
     DEF PoolProofs!UsersAssumption, PoolProofs!ConfigAssumption,
         PoolProofs!HoldingsAssumption, PoolProofs!EffectiveAssumption
<1>3. ArenaSpec => Pool!Spec
  BY ArenaIsPool DEF IsPool
<1> QED BY <1>1, <1>2, <1>3, PTL

\* What one wallet gains, the wallets together gain.
Gains(f, g, u, d) == g[u] = f[u] + d /\ \A w \in Users \ {u} : g[w] = f[w]

LEMMA WalletGains ==
  ASSUME NEW f \in [Users -> Nat], NEW g \in [Users -> Nat], NEW u \in Users, NEW d \in Int,
         Gains(f, g, u, d)
  PROVE  SumFunction(g) = SumFunction(f) + d /\ SumFunction(f) \in Nat
<1>1. SameBut(f, g, u, Users)
  BY DEF SameBut, Gains
<1>2. IsFiniteSet(Users)
  BY WalletsAssumption
<1>3. SumFunction(g) = SumFunction(f) - f[u] + g[u]
  BY <1>1, <1>2, SumUpdate
<1>4. SumFunction(f) \in Nat
  BY <1>2, SumNat
<1>5. f[u] \in Nat /\ g[u] = f[u] + d
  BY DEF Gains
<1> QED BY <1>3, <1>4, <1>5

\* What a settlement pays is a u64.
LEMMA PendingType ==
  ASSUME PoolProofs!TypeOK, NEW u \in Users, NEW id \in PoolProofs!PositionIds
  PROVE  PoolProofs!Pending(<<u, id>>) \in Nat
<1>1. <<u, id>> \in PoolProofs!Slots
  BY DEF PoolProofs!Slots
<1>2. PoolProofs!Pending(<<u, id>>) \in 0 .. U64Max
  BY <1>1, PoolHolds, ScaleAssumption, WidthAssumption, PoolProofs!PendingNat
     DEF PoolProofs!UsersAssumption, PoolProofs!ConfigAssumption,
         PoolProofs!HoldingsAssumption, PoolProofs!EffectiveAssumption
<1> QED BY <1>2, WidthAssumption

\* The steps of the pool, with the sets their amounts are from left out.
LEMMA PoolSteps ==
  ASSUME [PoolProofs!Next]_(PoolProofs!vars)
  PROVE  \/ \E u \in Users :
              \/ \E deposit \in Nat, reward \in Nat : PoolProofs!MineWithRig(u, deposit, reward)
              \/ \E amount \in Nat : \E lockDays, mult : PoolProofs!Stake(u, amount, lockDays, mult)
              \/ \E id \in PoolProofs!PositionIds : PoolProofs!Claim(u, id)
              \/ \E id \in PoolProofs!PositionIds : PoolProofs!Unstake(u, id)
              \/ \E amount \in Nat : PoolProofs!DonateXnt(u, amount)
              \/ \E amount \in Nat : PoolProofs!DonateGame(u, amount)
         \/ \E t \in Times : PoolProofs!Tick(t)
         \/ UNCHANGED PoolProofs!vars
<1> DEFINE mults == {MaxOf(BPS, offer.value_bps) : offer \in BoostOffers} \cup {BPS}
           deposits == {0} \cup {RigCost[r] : r \in RigIds}
           rewards == {Player!ClampedBoost(p[1], list) : p \in DrawnPairs, list \in RewardBoosts}
<1>1. deposits \subseteq Nat /\ rewards \subseteq Nat /\ GiftAmounts \subseteq Nat
  BY PoolHolds DEF PoolProofs!ConfigAssumption
<1>2. StakeAmounts \subseteq Nat
  BY NumbersAssumption, WidthAssumption
<1>3. \/ \E u \in Users :
           \/ \E deposit \in deposits, reward \in rewards :
                PoolProofs!MineWithRig(u, deposit, reward)
           \/ \E amount \in StakeAmounts, lockDays \in LockChoices, mult \in mults :
                PoolProofs!Stake(u, amount, lockDays, mult)
           \/ \E id \in PoolProofs!PositionIds : PoolProofs!Claim(u, id)
           \/ \E id \in PoolProofs!PositionIds : PoolProofs!Unstake(u, id)
           \/ \E amount \in GiftAmounts : PoolProofs!DonateXnt(u, amount)
           \/ \E amount \in GiftAmounts : PoolProofs!DonateGame(u, amount)
      \/ \E t \in Times : PoolProofs!Tick(t)
      \/ UNCHANGED PoolProofs!vars
  BY DEF PoolProofs!Next
<1> HIDE DEF mults, deposits, rewards
<1> QED BY <1>1, <1>2, <1>3

\* XNT goes from a wallet to the treasury, or back.
LEMMA XntStep ==
  ASSUME PoolProofs!TypeOK, PoolProofs!TypeOK', [PoolProofs!Next]_(PoolProofs!vars)
  PROVE  SumFunction(xnt') + treasury' = SumFunction(xnt) + treasury
<1> DEFINE Same == SumFunction(xnt') + treasury' = SumFunction(xnt) + treasury
<1>1. xnt \in [Users -> Nat] /\ xnt' \in [Users -> Nat] /\ treasury \in Nat
  BY WidthAssumption DEF PoolProofs!TypeOK
<1>2. ASSUME NEW u \in Users, NEW d \in Int, Gains(xnt, xnt', u, d), treasury' = treasury - d
      PROVE  Same
  <2>1. SumFunction(xnt') = SumFunction(xnt) + d /\ SumFunction(xnt) \in Nat
    BY <1>1, <1>2, WalletGains
  <2> QED BY <1>1, <1>2, <2>1
<1>3. CASE xnt' = xnt /\ treasury' = treasury
  BY <1>3
<1>4. ASSUME NEW u \in Users, NEW paid \in Nat, NEW reward,
             PoolProofs!MineWithRig(u, paid, reward) \/ PoolProofs!DonateXnt(u, paid)
      PROVE  Same
  <2> DEFINE d == 0 - paid
  <2>1. xnt' = [xnt EXCEPT ![u] = xnt[u] - paid] /\ treasury' = treasury + paid
    BY <1>4 DEF PoolProofs!MineWithRig, PoolProofs!DonateXnt
  <2>2. Gains(xnt, xnt', u, d) /\ treasury' = treasury - d /\ d \in Int
    BY <1>1, <2>1 DEF Gains
  <2> HIDE DEF d, Same
  <2> QED BY <1>2, <2>2
<1>5. ASSUME NEW u \in Users, NEW id \in PoolProofs!PositionIds,
             PoolProofs!Claim(u, id) \/ PoolProofs!Unstake(u, id)
      PROVE  Same
  <2> DEFINE d == PoolProofs!Pending(<<u, id>>)
  <2>1. d \in Int
    BY PendingType
  <2>2. xnt' = [xnt EXCEPT ![u] = xnt[u] + d] /\ treasury' = treasury - d
    BY <1>5 DEF PoolProofs!Claim, PoolProofs!Unstake, PoolProofs!PayRewards
  <2> HIDE DEF d, Same
  <2>3. Gains(xnt, xnt', u, d)
    BY <1>1, <2>2 DEF Gains
  <2> QED BY <1>2, <2>1, <2>2, <2>3
<1>6. ASSUME NEW u, NEW amount, NEW lockDays, NEW mult,
             PoolProofs!Stake(u, amount, lockDays, mult) \/ PoolProofs!DonateGame(u, amount)
      PROVE  Same
  BY <1>3, <1>6 DEF PoolProofs!Stake, PoolProofs!DonateGame
<1>7. CASE (\E t \in Times : PoolProofs!Tick(t)) \/ UNCHANGED PoolProofs!vars
  BY <1>3, <1>7 DEF PoolProofs!Tick, PoolProofs!vars
<1>8. CASE \E u \in Users : \/ \E paid \in Nat, reward \in Nat : PoolProofs!MineWithRig(u, paid, reward)
                            \/ \E paid \in Nat : PoolProofs!DonateXnt(u, paid)
  BY <1>4, <1>8
<1>9. CASE \E u \in Users, id \in PoolProofs!PositionIds :
             PoolProofs!Claim(u, id) \/ PoolProofs!Unstake(u, id)
  BY <1>5, <1>9
<1>10. CASE \E u \in Users, amount \in Nat :
              \/ \E lockDays, mult : PoolProofs!Stake(u, amount, lockDays, mult)
              \/ PoolProofs!DonateGame(u, amount)
  BY <1>6, <1>10
<1> QED BY PoolSteps, <1>7, <1>8, <1>9, <1>10

\* Fees, rewards and gifts of XNT, by any number of players in any order, move
\* what there was at the start.
THEOREM XntConserved == ArenaSpec => []XntIsConserved
<1>1. ArenaInit => XntIsConserved
  <2> SUFFICES ASSUME ArenaInit PROVE XntIsConserved
    OBVIOUS
  <2>1. xnt = InitXnt /\ treasury = 0
    BY DEF ArenaInit, Pool!Init
  <2>2. InitXnt \in [Users -> Nat] /\ IsFiniteSet(Users)
    BY WalletsAssumption, WidthAssumption
  <2>3. SumFunction(InitXnt) \in Nat
    BY <2>2, SumNat
  <2> QED BY <2>1, <2>3 DEF XntIsConserved
<1>2. /\ PoolProofs!TypeOK /\ PoolProofs!TypeOK' /\ [PoolProofs!Next]_(PoolProofs!vars)
      /\ XntIsConserved
      => XntIsConserved'
  BY XntStep DEF XntIsConserved
<1>3. Pool!Spec => [][PoolProofs!Next]_(PoolProofs!vars)
  BY SamePool, PTL DEF Pool!Spec
<1>4. ArenaSpec => Pool!Spec
  BY ArenaIsPool DEF IsPool
<1> QED BY <1>1, <1>2, <1>3, <1>4, PoolTypes, PTL DEF ArenaSpec

\* What there is of GAME, and what there was at the start.
Supply == SumFunction(game) + stakingVault
StakedAtStart == SumFunction([s \in Pool!Slots |-> Pool!InitialPositions[s].amount_staked])
AtStart == SumFunction(InitGame) + StakedAtStart

LEMMA SameSum ==
  ASSUME NEW f
  PROVE  Pool!SumFunction(f) = SumFunction(f)
BY DEF SumFunction, SumFunctionOnSet, FoldFunctionOnSet, MapThenFoldSet, Pool!SumFunction,
       Pool!SumFunctionOnSet, Pool!FoldFunctionOnSet, Pool!MapThenFoldSet

LEMMA StartNat ==
  AtStart \in Nat /\ SumFunction(InitGame) \in Nat /\ StakedAtStart \in Nat
<1> DEFINE f == [s \in Pool!Slots |-> Pool!InitialPositions[s].amount_staked]
<1>1. PoolProofs!InitialPositions \in [PoolProofs!Slots -> PoolProofs!Position]
  BY PoolHolds, ScaleAssumption, WidthAssumption, PoolProofs!InitialPositionsFacts
     DEF PoolProofs!UsersAssumption, PoolProofs!ConfigAssumption,
         PoolProofs!HoldingsAssumption, PoolProofs!EffectiveAssumption
<1>2. Pool!Slots = PoolProofs!Slots
  BY DEF Pool!Slots, PoolProofs!Slots, Pool!PositionIds, PoolProofs!PositionIds
<1>3. Pool!InitialPositions = PoolProofs!InitialPositions
  BY DEF Pool!InitialPositions, Pool!NoPosition, Pool!Slots, Pool!PositionIds,
         Pool!CalculateEffective, Pool!LockMultiplier, Pool!LockTerms,
         PoolProofs!InitialPositions, PoolProofs!NoPosition, PoolProofs!Slots,
         PoolProofs!PositionIds, PoolProofs!CalculateEffective, PoolProofs!LockMultiplier,
         PoolProofs!LockTerms
<1>4. f \in [Pool!Slots -> Nat]
  BY <1>1, <1>2, <1>3 DEF PoolProofs!Position
<1>5. IsFiniteSet(Pool!Slots)
  <2>1. IsFiniteSet(0 .. U32Max)
    BY WidthAssumption, FS_Interval
  <2> QED BY <2>1, WalletsAssumption, FS_Product DEF Pool!Slots, Pool!PositionIds
<1> HIDE DEF f
<1>6. SumFunction(f) \in Nat
  BY <1>4, <1>5, SumNat
<1>7. SumFunction(InitGame) \in Nat
  <2>1. InitGame \in [Users -> Nat] /\ IsFiniteSet(Users)
    BY WalletsAssumption, WidthAssumption
  <2> QED BY <2>1, SumNat
<1> QED BY <1>6, <1>7 DEF AtStart, StakedAtStart, f

\* GAME goes from a wallet to the vault or back, or it is minted and counted.
LEMMA GameStep ==
  ASSUME ArenaInv, PoolProofs!TypeOK, PoolProofs!TypeOK', Supply = totalMinted + AtStart,
         [ArenaNext]_arenaVars
  PROVE  Supply' = totalMinted' + AtStart
<1>1. /\ game \in [Users -> Nat] /\ game' \in [Users -> Nat] /\ stakingVault \in Nat
      /\ totalMinted \in Nat /\ AtStart \in Nat
  BY StartNat, WidthAssumption DEF PoolProofs!TypeOK, ArenaInv, LevelInv
<1>2. ASSUME NEW u \in Users, NEW d \in Int, Gains(game, game', u, d), NEW e \in Int,
             stakingVault' = stakingVault + e, totalMinted' = totalMinted + (d + e)
      PROVE  Supply' = totalMinted' + AtStart
  <2>1. SumFunction(game') = SumFunction(game) + d /\ SumFunction(game) \in Nat
    BY <1>1, <1>2, WalletGains
  <2>2. Supply = SumFunction(game) + stakingVault /\ Supply' = SumFunction(game') + stakingVault'
    BY DEF Supply
  <2>3. SumFunction(game) + stakingVault = totalMinted + AtStart
    BY <2>2
  <2>4. SumFunction(game') + stakingVault' = SumFunction(game) + stakingVault + (d + e)
    BY <1>1, <1>2, <2>1
  <2>5. totalMinted' + AtStart = totalMinted + AtStart + (d + e)
    BY <1>1, <1>2
  <2> QED BY <2>2, <2>3, <2>4, <2>5
<1>3. CASE UNCHANGED <<game, stakingVault, totalMinted>>
  BY <1>3 DEF Supply
<1>4. ASSUME NEW u \in Users, NEW r \in RigIds, MineWithRig(u, r)
      PROVE  Supply' = totalMinted' + AtStart
  <2>1. PICK base \in Halving!BaseRewards(r, halvingLevel) :
               /\ Pool!MineWithRig(u, Player!Deposit(u, r), Player!RunReward(u, r, base))
               /\ Halving!Mint(Player!RunReward(u, r, base))
    BY <1>4 DEF MineWithRig
  <2> DEFINE d == Player!RunReward(u, r, base)
  <2>2. d \in 0 .. U64Max
    BY RunDraws DEF ArenaInv
  <2>3. /\ Pool!GameSupply + d <= U64Max
        /\ game' = [game EXCEPT ![u] = game[u] + d] /\ stakingVault' = stakingVault
        /\ totalMinted' = Halving!SatAdd(totalMinted, d, U64Max)
    BY <2>1 DEF Pool!MineWithRig, Halving!Mint
  <2> HIDE DEF d
  <2>4. Supply + d <= U64Max
    BY <2>3, SameSum DEF Pool!GameSupply, Supply
  <2>5. totalMinted' = totalMinted + d
    BY <1>1, <2>2, <2>3, <2>4, WidthAssumption DEF Halving!SatAdd, Halving!MinOf
  <2>6. Gains(game, game', u, d) /\ d \in Int
    BY <1>1, <2>2, <2>3 DEF Gains
  <2>7. stakingVault' = stakingVault + 0 /\ totalMinted' = totalMinted + (d + 0) /\ 0 \in Int
    BY <1>1, <2>3, <2>5, <2>6
  <2> QED BY <1>2, <2>6, <2>7
<1>5. ASSUME NEW u \in Users, NEW a \in Nat, game' = [game EXCEPT ![u] = game[u] - a],
             stakingVault' = stakingVault + a, totalMinted' = totalMinted
      PROVE  Supply' = totalMinted' + AtStart
  <2> DEFINE d == 0 - a
  <2>1. /\ Gains(game, game', u, d) /\ d \in Int /\ a \in Int
        /\ totalMinted' = totalMinted + (d + a)
    BY <1>1, <1>5 DEF Gains
  <2> HIDE DEF d
  <2> QED BY <1>2, <1>5, <2>1
<1>6. ASSUME NEW u \in Users, NEW a \in Nat, game' = [game EXCEPT ![u] = game[u] + a],
             stakingVault' = stakingVault - a, totalMinted' = totalMinted
      PROVE  Supply' = totalMinted' + AtStart
  <2> DEFINE e == 0 - a
  <2>1. /\ Gains(game, game', u, a) /\ a \in Int /\ e \in Int
        /\ stakingVault' = stakingVault + e /\ totalMinted' = totalMinted + (a + e)
    BY <1>1, <1>6 DEF Gains
  <2> HIDE DEF e
  <2> QED BY <1>2, <2>1
<1>7. ASSUME NEW u \in Users, NEW amount \in StakeAmounts, NEW lockDays \in LockChoices,
             Stake(u, amount, lockDays)
      PROVE  Supply' = totalMinted' + AtStart
  <2>1. amount \in Nat
    BY NumbersAssumption, WidthAssumption
  <2>2. /\ game' = [game EXCEPT ![u] = game[u] - amount]
        /\ stakingVault' = stakingVault + amount /\ totalMinted' = totalMinted
    BY <1>7 DEF Stake, Pool!Stake, emissionVars
  <2> QED BY <1>5, <2>1, <2>2
<1>8. ASSUME NEW u \in Users, PoolStep(u)
      PROVE  Supply' = totalMinted' + AtStart
  <2>1. totalMinted' = totalMinted
    BY <1>8 DEF PoolStep, emissionVars
  <2>2. ASSUME NEW id \in Pool!PositionIds, Pool!Claim(u, id)
        PROVE  Supply' = totalMinted' + AtStart
    BY <1>3, <2>1, <2>2 DEF Pool!Claim
  <2>3. ASSUME NEW id \in Pool!PositionIds, Pool!Unstake(u, id)
        PROVE  Supply' = totalMinted' + AtStart
    <3> DEFINE a == positions[<<u, id>>].amount_staked
    <3>1. a \in Nat
      <4>1. <<u, id>> \in PoolProofs!Slots
        BY DEF PoolProofs!Slots, Pool!PositionIds, PoolProofs!PositionIds
      <4> QED BY <4>1 DEF PoolProofs!TypeOK, PoolProofs!Position
    <3>2. game' = [game EXCEPT ![u] = game[u] + a] /\ stakingVault' = stakingVault - a
      BY <2>3 DEF Pool!Unstake
    <3> HIDE DEF a
    <3> QED BY <1>6, <2>1, <3>1, <3>2
  <2>4. ASSUME NEW amount \in GiftAmounts, Pool!DonateXnt(u, amount)
        PROVE  Supply' = totalMinted' + AtStart
    BY <1>3, <2>1, <2>4 DEF Pool!DonateXnt
  <2>5. ASSUME NEW amount \in GiftAmounts, Pool!DonateGame(u, amount)
        PROVE  Supply' = totalMinted' + AtStart
    <3>1. amount \in Nat
      BY NumbersAssumption
    <3>2. /\ game' = [game EXCEPT ![u] = game[u] - amount]
          /\ stakingVault' = stakingVault + amount
      BY <2>5 DEF Pool!DonateGame
    <3> QED BY <1>5, <2>1, <3>1, <3>2
  <2> QED BY <1>8, <2>2, <2>3, <2>4, <2>5 DEF PoolStep
<1>9. CASE UNCHANGED <<poolVars, emissionVars>>
  BY <1>3, <1>9 DEF poolVars, emissionVars
<1>10. ASSUME NEW u \in Users, PlayerStep(u)
       PROVE  Supply' = totalMinted' + AtStart
  BY <1>9, <1>10 DEF PlayerStep
<1>11. CASE UpdateHalving
  BY <1>3, <1>11 DEF UpdateHalving, Halving!UpdateHalving, poolVars
<1>12. ASSUME NEW t \in Times, Tick(t)
       PROVE  Supply' = totalMinted' + AtStart
  BY <1>3, <1>12 DEF Tick, Pool!Tick, emissionVars
<1>13. CASE UNCHANGED arenaVars
  BY <1>9, <1>13 DEF arenaVars
<1> QED BY <1>4, <1>7, <1>8, <1>10, <1>11, <1>12, <1>13 DEF ArenaNext

\* All the GAME there is was there at the start or has been counted as mined,
\* boosts included; total_minted, from which the halving is derived, has never
\* stopped at its width.
THEOREM GameIsMined == ArenaSpec => []GameComesFromMining
<1> DEFINE Counted == Supply = totalMinted + AtStart
<1>1. ArenaInit => Counted
  <2> SUFFICES ASSUME ArenaInit PROVE Counted
    OBVIOUS
  <2>1. /\ game = InitGame /\ stakingVault = Pool!SumFunction(Pool!Amounts)
        /\ positions = Pool!InitialPositions /\ totalMinted = 0
    BY DEF ArenaInit, Pool!Init, Halving!EmissionInit
  <2>2. stakingVault = StakedAtStart
    BY <2>1, SameSum DEF StakedAtStart, Pool!Amounts
  <2> QED BY <2>1, <2>2, StartNat DEF Supply, AtStart
<1>2. /\ ArenaInv /\ PoolProofs!TypeOK /\ PoolProofs!TypeOK' /\ Counted /\ [ArenaNext]_arenaVars
      => Counted'
  <2> SUFFICES ASSUME ArenaInv, PoolProofs!TypeOK, PoolProofs!TypeOK', Counted,
                      [ArenaNext]_arenaVars
               PROVE  Counted'
    OBVIOUS
  <2>1. Supply' = totalMinted' + AtStart
    BY GameStep
  <2>2. AtStart' = AtStart
    BY DEF AtStart, StakedAtStart
  <2> QED BY <2>1, <2>2
<1>3. ArenaInv /\ Counted => GameComesFromMining
  <2> SUFFICES ASSUME ArenaInv, Counted PROVE GameComesFromMining
    OBVIOUS
  <2>1. totalMinted \in Nat
    BY DEF ArenaInv, LevelInv
  <2>2. Pool!GameSupply = Supply
    BY SameSum DEF Pool!GameSupply, Supply
  <2>3. Supply = totalMinted + SumFunction(InitGame) + StakedAtStart
    BY <2>1, StartNat DEF AtStart
  <2> QED BY <2>2, <2>3 DEF GameComesFromMining, StakedAtStart
<1> HIDE DEF Counted
<1> QED BY <1>1, <1>2, <1>3, ArenaInvariant, PoolTypes, PTL DEF ArenaSpec
=============================================================================
