-------------------------------- MODULE Calls --------------------------------
(***************************************************************************)
(* One call through the SDK: somebody asks for an instruction, the builder *)
(* encodes it or throws, the program takes it or refuses it.  The chain it *)
(* finds is any of Chains, from before the set-up to an arena at work.     *)
(*                                                                         *)
(* What was asked is written down by name, the way Anchor's own client     *)
(* takes accounts (tests/x1-mining-arena.ts).  The properties compare it   *)
(* with what the program finds in the bytes and the list of keys.          *)
(***************************************************************************)
EXTENDS Instructions

CONSTANTS
  Builders,    \* the builders that are called
  Wallets,     \* addresses of key pairs of users and the admin
  FreshKeys,   \* addresses of new key pairs
  Vaults,      \* addresses of token accounts the caller may name
  XntMint, GameMint,
  Numbers,     \* numbers a caller may ask for
  Ids,         \* ids of positions, boosts and rigs
  Chains       \* what the call may find

\* A wallet's address is the key of a key pair.
ASSUME CallsAssumption ==
  /\ U8Max \in Nat /\ U16Max \in Nat /\ U32Max \in Nat /\ U64Max \in Nat
  /\ \A w \in Wallets : w = <<w[1]>>
  /\ Numbers \subseteq Int /\ Ids \subseteq Int

VARIABLES chain, asked, outcome, found

callVars == <<chain, asked, outcome, found>>

Idle == [name |-> "none"]
Nothing == [accounts |-> <<>>, args |-> <<>>]

Params(name) ==
  CASE name = "initialize_global" ->
         [admin : Wallets, payer : Wallets, xntMint : {XntMint}, gameMint : FreshKeys,
          halvingInterval : Numbers, stakingShareBps : Numbers]
    [] name = "initialize_treasury_vault" ->
         [admin : Wallets, xntMint : {XntMint}, treasuryXntVault : FreshKeys]
    [] name = "initialize_staking_pool" ->
         [admin : Wallets, gameMint : {GameMint}, xntMint : {XntMint}, stakingVault : FreshKeys]
    [] name = "mine_with_rig" ->
         {[payer |-> w, gameMint |-> GameMint, userGameAccount |-> Ata(GameMint, w),
           userXntAccount |-> Ata(XntMint, w), treasuryXntVault |-> v, rigId |-> id] :
             w \in Wallets, v \in Vaults, id \in Ids}
    [] name = "stake" ->
         {[owner |-> w, stakingVault |-> s, treasuryXntVault |-> v,
           userGameAccount |-> Ata(GameMint, w), userXntAccount |-> Ata(XntMint, w),
           amount |-> a, lockDays |-> d, positionId |-> id] :
             w \in Wallets, s, v \in Vaults, a, d \in Numbers, id \in Ids}
    [] name = "claim" ->
         {[owner |-> w, treasuryXntVault |-> v, userXntAccount |-> Ata(XntMint, w),
           positionId |-> id] : w \in Wallets, v \in Vaults, id \in Ids}
    [] name = "unstake" ->
         {[owner |-> w, stakingVault |-> s, treasuryXntVault |-> v,
           userGameAccount |-> Ata(GameMint, w), userXntAccount |-> Ata(XntMint, w),
           positionId |-> id] : w \in Wallets, s, v \in Vaults, id \in Ids}
    [] name = "activate_boost" -> [user : Wallets, boostId : Ids]
    [] name = "upsert_boost_config" ->
         [admin : Wallets, id : Ids, kind : 0 .. 4, costBoostPoints : Numbers,
          valueBps : Numbers, durationSeconds : Numbers, rigId : Ids \cup {None}]
    [] name = "apply_ranking_results" ->
         [admin : Wallets, user : Wallets, addedBoostPoints : Numbers]

Built(name, p) ==
  CASE name = "initialize_global" -> ixInitializeGlobal(p)
    [] name = "initialize_treasury_vault" -> ixInitializeTreasuryVault(p)
    [] name = "initialize_staking_pool" -> ixInitializeStakingPool(p)
    [] name = "mine_with_rig" -> ixMineWithRig(p)
    [] name = "stake" -> ixStake(p)
    [] name = "claim" -> ixClaim(p)
    [] name = "unstake" -> ixUnstake(p)
    [] name = "activate_boost" -> ixActivateBoost(p)
    [] name = "upsert_boost_config" -> ixUpsertBoostConfig(p)
    [] name = "apply_ranking_results" -> ixApplyRankingResults(p)

\* The key pairs the scripts sign with: the wallet, and the keys of new accounts.
Signers(name, p) ==
  CASE name = "initialize_global" -> {p.payer, p.gameMint}
    [] name = "initialize_treasury_vault" -> {p.admin, p.treasuryXntVault}
    [] name = "initialize_staking_pool" -> {p.admin, p.stakingVault}
    [] name = "mine_with_rig" -> {p.payer}
    [] name \in {"stake", "claim", "unstake"} -> {p.owner}
    [] name = "activate_boost" -> {p.user}
    [] OTHER -> {p.admin}

CallInit ==
  /\ chain \in Chains
  /\ asked = Idle
  /\ outcome = "none"
  /\ found = Nothing

Ask(name, p) ==
  /\ asked = Idle
  /\ asked' = [name |-> name, p |-> p]
  /\ outcome' = IF Encodes(Built(name, p)) THEN "sent" ELSE "thrown"
  /\ UNCHANGED <<chain, found>>

Deliver ==
  /\ outcome = "sent"
  /\ LET i == Built(asked.name, asked.p) IN
     IF Accepts(i, Signers(asked.name, asked.p), chain)
       THEN /\ outcome' = "taken"
            /\ found' = [accounts |-> AccountsOf(i), args |-> ArgsOf(i)]
       ELSE outcome' = "refused" /\ UNCHANGED found
  /\ UNCHANGED <<chain, asked>>

CallNext ==
  \/ \E name \in Builders : \E p \in Params(name) : Ask(name, p)
  \/ Deliver

CallSpec == CallInit /\ [][CallNext]_callVars
-----------------------------------------------------------------------------
(***************************************************************************)
(* Properties.                                                             *)
(***************************************************************************)
BoostAddress(id) == <<"boost-config", id>>

\* The accounts that were asked for, by the names of the program.
MeantAccounts(name, p) ==
  CASE name = "initialize_global" ->
         [global_config |-> <<"global-config">>, payer |-> p.payer, xnt_mint |-> p.xntMint,
          game_mint |-> p.gameMint]
    [] name = "initialize_treasury_vault" ->
         [admin |-> p.admin, global_config |-> <<"global-config">>, xnt_mint |-> p.xntMint,
          treasury_xnt_vault |-> p.treasuryXntVault]
    [] name = "initialize_staking_pool" ->
         [global_config |-> <<"global-config">>, staking_pool |-> <<"staking-pool">>,
          admin |-> p.admin, game_mint |-> p.gameMint, xnt_mint |-> p.xntMint,
          staking_vault |-> p.stakingVault]
    [] name = "mine_with_rig" ->
         [global_config |-> <<"global-config">>, staking_pool |-> <<"staking-pool">>,
          payer |-> p.payer, game_mint |-> p.gameMint,
          user_game_account |-> p.userGameAccount,
          user_xnt_account |-> p.userXntAccount,
          treasury_xnt_vault |-> p.treasuryXntVault,
          user_account |-> <<"user-account">> \o p.payer]
    [] name = "stake" ->
         [global_config |-> <<"global-config">>, staking_pool |-> <<"staking-pool">>,
          owner |-> p.owner, staking_vault |-> p.stakingVault,
          treasury_xnt_vault |-> p.treasuryXntVault,
          user_game_account |-> p.userGameAccount,
          user_xnt_account |-> p.userXntAccount,
          user_account |-> <<"user-account">> \o p.owner,
          user_stake_position |-> <<"user-stake">> \o p.owner \o <<p.positionId>>]
    [] name = "claim" ->
         [global_config |-> <<"global-config">>, staking_pool |-> <<"staking-pool">>,
          owner |-> p.owner, treasury_xnt_vault |-> p.treasuryXntVault,
          user_xnt_account |-> p.userXntAccount,
          user_stake_position |-> PositionAddress(p.owner, p.positionId)]
    [] name = "unstake" ->
         [global_config |-> <<"global-config">>, staking_pool |-> <<"staking-pool">>,
          owner |-> p.owner, staking_vault |-> p.stakingVault,
          treasury_xnt_vault |-> p.treasuryXntVault,
          user_game_account |-> p.userGameAccount,
          user_xnt_account |-> p.userXntAccount,
          user_stake_position |-> PositionAddress(p.owner, p.positionId)]
    [] name = "activate_boost" ->
         [user |-> p.user, global_config |-> <<"global-config">>,
          boost_config |-> BoostAddress(p.boostId),
          user_account |-> <<"user-account">> \o p.user]
    [] name = "upsert_boost_config" ->
         [admin |-> p.admin, global_config |-> <<"global-config">>,
          boost_config |-> BoostAddress(p.id)]
    [] name = "apply_ranking_results" ->
         [admin |-> p.admin, global_config |-> <<"global-config">>, user |-> p.user,
          user_account |-> <<"user-account">> \o p.user]

MeantArgs(name, p) ==
  CASE name = "initialize_global" -> <<p.admin, p.stakingShareBps, p.halvingInterval>>
    [] name = "mine_with_rig" -> <<p.rigId>>
    [] name = "stake" -> <<p.amount, p.lockDays>>
    [] name = "upsert_boost_config" ->
         <<p.id, p.kind, p.costBoostPoints, p.valueBps, p.durationSeconds, p.rigId>>
    [] name = "apply_ranking_results" -> <<p.addedBoostPoints>>
    [] OTHER -> <<>>

\* An instruction the program takes acts on the accounts, and with the numbers,
\* that were asked for: no key of the list and no byte of the data stands for
\* anything else on the other side.
FoundIsMeant ==
  outcome = "taken" =>
    LET meant == MeantAccounts(asked.name, asked.p) IN
    /\ \A f \in DOMAIN meant : found.accounts[f] = meant[f]
    /\ found.args = MeantArgs(asked.name, asked.p)

\* The builders lose nothing: whatever the program would take by name it takes
\* from the SDK, unless a boost is of a kind it does not have.
MeantIsTaken ==
  outcome = "refused" =>
    \/ ~ Constraints(asked.name, MeantAccounts(asked.name, asked.p),
                     MeantArgs(asked.name, asked.p), chain)
    \/ asked.name = "upsert_boost_config" /\ asked.p.kind \notin 0 .. 3
=============================================================================
