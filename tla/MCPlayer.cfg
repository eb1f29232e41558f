INIT MCInit
NEXT MCNext
CONSTANTS
  u1 = u1
  p1 = p1
  p2 = p2
  p3 = p3
  g1 = g1
  g2 = g2
  a1 = a1
  Users = {u1}
  AdminKey = u1
  Runs = {p1, p2, p3, g1, g2, a1}
  Jobs <- MCJobs
  KeyNumber <- MCKeyNumber
  Validity = 1
  BPS = 10
  PRECISION = 10
  U8Max = 3
  U16Max = 40
  U32Max = 100
  U64Max = 200
  U128Max = 1000
  RigIds <- MCRigs
  RigCost <- MCCost
  MiningPoints <- MCPoints
  RewardPairs <- MCPairs
  Grants <- MCGrants
  DayIds = {1}
  BoostIds = {1}
  BoostOffers <- MCOffers
  MaxActiveBoosts = 2
  Times <- MCTimes
  MaxRuns = 2
INVARIANTS
  LazyPurgeIsHarmless
  PointsBalance
  TicketsUsedOnce
  ChargedOncePerRun
PROPERTIES
  BoostsAreKept
  SoldAsPublished
CHECK_DEADLOCK FALSE
