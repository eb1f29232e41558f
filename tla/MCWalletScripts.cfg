SPECIFICATION MCSpec
CONSTANTS
  w1 = w1
  w2 = w2
  m1 = m1
  m2 = m2
  m3 = m3
  testnet = testnet
  other = other
  Unset = Unset
  Runs = {w1, w2, m1, m2, m3}
  Script <- MCScript
  Clusters = {testnet, other}
  DefaultCluster = testnet
  Env <- MCEnv
  HadAta = {}
  Amount = 2
  Cost = 1
  Native = 4
  Validity = 2
INVARIANTS
  WrappedIsSpendable
  SpentIsWrapped
  WrapServesMine
PROPERTIES
  ImplementsDelivery
  RunsEnd
  RaceIsHarmless
CHECK_DEADLOCK FALSE
