SPECIFICATION AuditSpec
CONSTANTS
  u1 = u1
  u2 = u2
  Users <- MCUsers
  BPS = 20
  PRECISION = 10
  U16Max = 40
  U32Max = 2
  U64Max = 100
  U128Max = 1000000
  AccBound = 60
  StakingShareBps = 18
  Legacy <- MCLegacy
  InitXnt <- MCXnt
  InitGame <- MCGame
  StakeAmounts = {3}
  LockChoices = {7, 30}
  BoostMults = {20, 30}
  Deposits = {0, 10}
  Rewards = {0}
  GiftAmounts = {3}
  Times <- MCTimes
  Day = 1
INVARIANTS
  TypeOK
  TotalIsSumOfEffective
  VaultCoversPrincipal
  NextIdIsFree
  OwedWithinDust
  EarnsOnlyWhileStaked
  SolventWithReserve
  ReserveMeansLeave
PROPERTIES
  ClosedStaysClosed
  ImplementsCustody
