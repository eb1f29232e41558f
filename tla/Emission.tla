------------------------------ MODULE Emission ------------------------------
(***************************************************************************)
(* How much GAME mining mints, and the halving of the rewards.  The        *)
(* program keeps total_minted and, derived from it, halving_level in       *)
(* global_config; a run reads the level the last one left, mints a reward  *)
(* shifted right by it, and writes both.                                   *)
(*                                                                         *)
(* That the token program refuses to mint beyond u64 is in StakingPool,    *)
(* which has the balances; this module may do more than the program does.  *)
(***************************************************************************)
EXTENDS Boosts

CONSTANTS
  HalvingInterval,   \* global_config.halving_interval, in base units of GAME
  RigIds,            \* the rigs
  BaseLow, BaseHigh, \* BaseLow[r], BaseHigh[r]: the two rewards of rig r
  RewardBoosts,      \* the value_bps of the reward boosts a miner may have
  LastLevel,         \* the first level at which every reward is 0
  MaxReward          \* no run mints more

VARIABLES totalMinted, halvingLevel

emissionVars == <<totalMinted, halvingLevel>>

\* The rigs of the program, with their rewards in hundredths of GAME.
ProgramRigs == 0 .. 3
ProgramLow == [r \in ProgramRigs |-> <<50, 300, 1400, 4200>>[r + 1]]
ProgramHigh == [r \in ProgramRigs |-> <<100, 400, 1600, 4800>>[r + 1]]

\* x shifted right by level bits.
ShiftedRight(x, level) ==
  LET shifted[bits \in 0 .. level] == IF bits = 0 THEN x ELSE shifted[bits - 1] \div 2
  IN shifted[level]

\* checked_shr(level).unwrap_or(0) of a u64.
Halved(base, level) == IF level < 64 THEN ShiftedRight(base, level) ELSE 0

\* The two rewards a run with rig r may have before boosts; the program draws
\* one of them from a hash.
BaseRewards(r, level) == {Halved(BaseLow[r], level), Halved(BaseHigh[r], level)}

ASSUME EmissionAssumption ==
  /\ HalvingInterval \in Nat \ {0}
  /\ LastLevel \in 1 .. 256
  /\ MaxReward \in Nat

\* No reward exceeds MaxReward, and from LastLevel on every reward is 0.
ASSUME RewardAssumption ==
  \A r \in RigIds, boosts \in RewardBoosts, level \in 0 .. 255 :
    \A base \in BaseRewards(r, level) :
      /\ ClampedBoost(base, boosts) \in 0 .. MaxReward
      /\ level >= LastLevel => ClampedBoost(base, boosts) = 0

\* halving_level is a u8: the quotient is cast.
LevelOf(minted) == (minted \div HalvingInterval) % 256

\* Mutant: the level is taken from the count before the run.
MintThenHalveLate(reward) ==
  /\ totalMinted' = SatAdd(totalMinted, reward, U64Max)
  /\ halvingLevel' = LevelOf(totalMinted)

Mint(reward) ==
  /\ totalMinted' = SatAdd(totalMinted, reward, U64Max)
  /\ halvingLevel' = LevelOf(totalMinted')

\* Mutant: the reward is not halved.
MineUnhalved(r, boosts) ==
  \E base \in BaseRewards(r, 0) : Mint(ClampedBoost(base, boosts))

Mine(r, boosts) ==
  \E base \in BaseRewards(r, halvingLevel) : Mint(ClampedBoost(base, boosts))

UpdateHalving ==
  /\ halvingLevel' = LevelOf(totalMinted)
  /\ UNCHANGED totalMinted

EmissionInit == totalMinted = 0 /\ halvingLevel = 0

EmissionNext ==
  \/ \E r \in RigIds, boosts \in RewardBoosts : Mine(r, boosts)
  \/ UpdateHalving

EmissionSpec == EmissionInit /\ [][EmissionNext]_emissionVars
-----------------------------------------------------------------------------
\* The README's halving: the level is the number of whole intervals minted.
HalvingMatchesMinted == halvingLevel = totalMinted \div HalvingInterval

\* The supply that mining ever creates is finite: LastLevel intervals and less
\* than one boosted reward more.
SupplyCapped == totalMinted < LastLevel * HalvingInterval + MaxReward

\* A reward, once halved, never grows back.
LevelNeverFalls == [][halvingLevel' >= halvingLevel]_emissionVars

\* What the three depend on: even the overshoot of the largest boosted reward
\* stays below the 256 intervals that a u8 can count.
SlowHalving ==
  /\ LastLevel * HalvingInterval + MaxReward <= 256 * HalvingInterval
  /\ LastLevel * HalvingInterval + MaxReward <= U64Max
=============================================================================
