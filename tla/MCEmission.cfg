SPECIFICATION EmissionSpec
CONSTANTS
  BPS = 10000
  PRECISION = 1000000
  U16Max = 65535
  U32Max = 1000000
  U64Max = 1000000
  U128Max = 1000000000
  HalvingInterval = 2000
  RigIds <- ProgramRigs
  BaseLow <- ProgramLow
  BaseHigh <- ProgramHigh
  RewardBoosts <- MCBoosts
  LastLevel = 13
  MaxReward = 14400
INVARIANTS
  HalvingMatchesMinted
  SupplyCapped
