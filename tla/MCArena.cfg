INIT ArenaInit
NEXT MCNext
CONSTANTS
  u1 = u1
  u2 = u2
  Users <- MCUsers
  BPS = 20
  PRECISION = 10
  U16Max = 40
  U32Max = 1
  U64Max = 100
  U128Max = 1000000
  StakingShareBps = 10
  Legacy <- MCLegacy
  InitXnt <- MCXnt
  InitGame <- MCGame
  StakeAmounts = {1}
  LockChoices = {7}
  GiftAmounts = {3}
  Times <- MCTimes
  Day = 1
  AccBound = 100
  HalvingInterval = 3
  BaseLow <- MCReward
  BaseHigh <- MCReward
  LastLevel = 2
  MaxReward = 6
  RigIds <- MCRigs
  RigCost <- MCCost
  MiningPoints <- MCPoints
  Grants = {1}
  DayIds = {0}
  BoostIds = {1}
  BoostOffers <- MCOffers
  MaxActiveBoosts = 1
  MaxRuns = 1
  RewardBoosts <- MCBoosts
INVARIANTS
  GameComesFromMining
  XntIsConserved
PROPERTIES
  IsPool
  IsHalving
  IsPlayer
