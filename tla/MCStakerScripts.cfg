INIT ScriptInit
NEXT MCNext
CONSTANTS
  u1 = u1
  u2 = u2
  s1 = s1
  x1 = x1
  x2 = x2
  x3 = x3
  x4 = x4
  c1 = c1
  c2 = c2
  l1 = l1
  m1 = m1
  None = None
  Users <- MCUsers
  Runs = {s1, x1, x2, x3, x4, c1, c2, l1, m1}
  Jobs <- MCJobs
  Legacy <- MCLegacy
  KeyNumber <- MCKeyNumber
  InitXnt <- MCXnt
  InitGame <- MCGame
  Times <- MCTimes
  Validity = 1
  BPS = 20
  PRECISION = 10
  U8Max = 3
  U16Max = 40
  U32Max = 3
  U64Max = 100
  U128Max = 1000000
  AccBound = 100000
  StakingShareBps = 6
  StakeAmounts = {2}
  LockChoices = {7}
  BoostMults = {20}
  Deposits = {10}
  Rewards = {0}
  GiftAmounts = {}
  Day = 1
INVARIANT OneUnstakePerId
PROPERTY ListNeverOverstates
CHECK_DEADLOCK FALSE
