INIT MCInit
NEXT MCNext
CONSTANTS
  admin = admin
  other = other
  g1 = g1
  t1 = t1
  t2 = t2
  p1 = p1
  p2 = p2
  None = None
  Default = Default
  Runs = {g1, t1, t2, p1, p2}
  Addresses = {g1, t1, t2, p1, p2}
  Script <- MCScript
  FreshKey <- MCFresh
  AdminKey = admin
  Keys = {admin, other}
  KeyNumber <- MCKeyNumber
  Validity = 2
  ShareOfScript = 6
  IntervalOfScript = 10
  BPS = 20
  PRECISION = 10
  U8Max = 3
  U16Max = 40
  U32Max = 4
  U64Max = 100
  U128Max = 1000000
  ShareArgs = {0, 1, 20, 21}
  IntervalArgs = {0, 1}
  DefaultShareBps = 5
  DefaultHalvingInterval = 20
  Amounts = {1, 2}
  MaxXnt = 3
INVARIANTS
  ConfigIsUsable
  PoolHasItsVaults
  DepositsCanBePaid
  PatientSetupWorks
  SuccessIsTrue
PROPERTY SeparatedForGood
CHECK_DEADLOCK FALSE
