SPECIFICATION CallSpec
CONSTANTS
  Builders <- AllButTwo
  Wallets <- MCWallets
  FreshKeys <- MCFresh
  Vaults <- MCVaults
  XntMint <- MCXnt
  GameMint <- MCGame
  KeyNumber <- MCKeyNumber
  None = None
  Numbers = {0, 5, 17}
  Ids = {0, 1, 2, 4}
  Chains <- MCChains
  U8Max = 4
  U16Max = 16
  U32Max = 3
  U64Max = 20
INVARIANTS
  FoundIsMeant
  MeantIsTaken
CHECK_DEADLOCK FALSE
