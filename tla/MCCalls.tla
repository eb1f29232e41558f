------------------------------ MODULE MCCalls ------------------------------
(***************************************************************************)
(* Calls for TLC: a user with positions 0 and 1, an admin, and chains from *)
(* the empty one to an arena at work.  A byte holds 0 to 4.                *)
(***************************************************************************)
EXTENDS Calls, TLC

User == <<"user">>
Admin == <<"admin">>
Treasury == <<"treasury">>
StakingVault == <<"staking-vault">>

MCWallets == {User, Admin}
MCFresh == {<<"new-1">>, Treasury}
MCVaults == {Treasury, StakingVault}
MCKeyNumber == (User :> 7) @@ (Admin :> 3)
MCXnt == <<"XNT">>
MCGame == <<"new-1">>

Chain(accounts, treasury, pool, next) ==
  [accounts |-> accounts, admin |-> Admin, xntMint |-> MCXnt, gameMint |-> MCGame,
   treasury |-> treasury, poolTreasury |-> pool, stakingVault |-> StakingVault,
   nextPositionId |-> (User :> next) @@ (Admin :> 0)]

TokenAccounts == {Ata(m, w) : m \in {MCXnt, MCGame}, w \in MCWallets}
Nowhere == <<"default">>
SetUp == {<<"global-config">>, MCXnt, MCGame}
Working == SetUp \cup TokenAccounts \cup {<<"staking-pool">>, Treasury, StakingVault}
Positions == {PositionAddress(User, 0), PositionAddress(User, 1)}

MCChains == {Chain({MCXnt}, Nowhere, Nowhere, 0),
             Chain(SetUp, Nowhere, Nowhere, 0),
             Chain(Working \ TokenAccounts, Treasury, Treasury, 0),
             Chain(Working \cup {BoostAddress(1)}, Treasury, Treasury, 0),
             Chain(Working \cup Positions \cup {BoostAddress(0)}, Treasury, Treasury, 2)}

AllButTwo == {"initialize_global", "initialize_treasury_vault", "initialize_staking_pool",
              "mine_with_rig", "claim", "unstake", "activate_boost", "upsert_boost_config"}
=============================================================================
