---------------------------- MODULE Instructions ----------------------------
(***************************************************************************)
(* What the SDK sends and what the program makes of it.  A builder of      *)
(* client.ts lists accounts and concatenates arguments; the program knows  *)
(* neither names nor types of what it is sent.  It takes the accounts in   *)
(* the order of its context and cuts the data by the widths of its own     *)
(* arguments.  Both sides are here, each from its own source, so that they *)
(* can be compared.                                                        *)
(*                                                                         *)
(* An argument on the wire is its type and its value.  Read by an argument *)
(* of the same width it is its value; a 32-byte key read by a last         *)
(* argument of 8 bytes is the number its first bytes make, and what        *)
(* follows is not read.                                                    *)
(***************************************************************************)
EXTENDS Pdas, Widths

CONSTANTS
  KeyNumber,  \* KeyNumber[k]: the first eight bytes of key k as u64
  None        \* an absent Option<u8>, an undefined rigId

(***************************************************************************)
(* client.ts: accounts, arguments, builders.                               *)
(***************************************************************************)
SystemProgram == <<"system-program">>
TOKEN_PROGRAM_ID == <<"token-program">>
ASSOCIATED_TOKEN_PROGRAM_ID == <<"associated-token-program">>
SYSVAR_RENT_PUBKEY == <<"rent">>

Signing(k) == [pubkey |-> k, isSigner |-> TRUE, isWritable |-> TRUE]
Writable(k) == [pubkey |-> k, isSigner |-> FALSE, isWritable |-> TRUE]
ReadOnly(k) == [pubkey |-> k, isSigner |-> FALSE, isWritable |-> FALSE]

Arg(type, value) == [type |-> type, value |-> value]
ix(name, dataFields, keys) == [name |-> name, data |-> dataFields, keys |-> keys]

\* writeUInt8 and its like throw when the value does not fit.
Writes(arg) ==
  CASE arg.type = "u8" -> arg.value \in 0 .. U8Max
    [] arg.type = "u16" -> arg.value \in 0 .. U16Max
    [] arg.type = "u32" -> arg.value \in 0 .. U32Max
    [] arg.type = "u64" -> arg.value \in 0 .. U64Max
    [] arg.type = "i64" -> arg.value \in -(U64Max \div 2) - 1 .. U64Max \div 2
    [] arg.type = "pubkey" -> TRUE

\* No builder has thrown: every argument, and every id in an address, was written.
Encodes(i) ==
  /\ \A n \in DOMAIN i.data : Writes(i.data[n])
  /\ \A n \in DOMAIN i.keys :
       LET address == i.keys[n].pubkey IN
       address[1] = "user-stake" /\ Len(address) = 3 => Writes(Arg("u32", address[3]))

ixInitializeGlobal(p) == ix("initialize_global",
  <<Arg("pubkey", p.admin), Arg("u16", p.stakingShareBps), Arg("u64", p.halvingInterval)>>,
  <<Writable(findGlobalConfig), Signing(p.payer), ReadOnly(p.xntMint), Writable(p.gameMint),
    ReadOnly(SystemProgram), ReadOnly(TOKEN_PROGRAM_ID)>>)

ixInitializeTreasuryVault(p) == ix("initialize_treasury_vault", <<>>,
  <<Signing(p.admin), Writable(findGlobalConfig), Writable(p.xntMint),
    Writable(p.treasuryXntVault), ReadOnly(SystemProgram), ReadOnly(TOKEN_PROGRAM_ID)>>)

ixInitializeStakingPool(p) == ix("initialize_staking_pool", <<>>,
  <<Signing(p.admin), Writable(findGlobalConfig), Writable(findStakingPool),
    Writable(p.gameMint), ReadOnly(p.xntMint), Writable(p.stakingVault),
    ReadOnly(SystemProgram), ReadOnly(TOKEN_PROGRAM_ID), ReadOnly(SYSVAR_RENT_PUBKEY)>>)

ixMineWithRig(p) == ix("mine_with_rig", <<Arg("u8", p.rigId)>>,
  <<Signing(p.payer), Writable(findGlobalConfig), Writable(findStakingPool),
    Writable(p.gameMint), Writable(p.userGameAccount), Writable(p.userXntAccount),
    Writable(p.treasuryXntVault), Writable(findUserAccount(p.payer)),
    ReadOnly(TOKEN_PROGRAM_ID), ReadOnly(SystemProgram),
    ReadOnly(ASSOCIATED_TOKEN_PROGRAM_ID), ReadOnly(SYSVAR_RENT_PUBKEY)>>)

ixStake(p) == ix("stake", <<Arg("u64", p.amount), Arg("u16", p.lockDays)>>,
  <<Signing(p.owner), Writable(findGlobalConfig), Writable(findStakingPool),
    Writable(p.stakingVault), Writable(p.treasuryXntVault), Writable(p.userGameAccount),
    Writable(p.userXntAccount), Writable(findUserStakePosition(p.owner, p.positionId)),
    Writable(findUserAccount(p.owner)), ReadOnly(TOKEN_PROGRAM_ID), ReadOnly(SystemProgram),
    ReadOnly(ASSOCIATED_TOKEN_PROGRAM_ID), ReadOnly(SYSVAR_RENT_PUBKEY)>>)

\* Mutant: position 0 is derived with its id.
PositionWithId(owner, positionId) == findUserStakePosition(owner, positionId)

\* In ixClaim and ixUnstake 0 stands for the position without an id.
PositionNamed(owner, positionId) ==
  IF positionId = 0 THEN findUserStake(owner) ELSE findUserStakePosition(owner, positionId)

ixClaim(p) == ix("claim", <<>>,
  <<Signing(p.owner), Writable(findGlobalConfig), Writable(findStakingPool),
    Writable(p.treasuryXntVault), Writable(p.userXntAccount),
    Writable(PositionNamed(p.owner, p.positionId)), ReadOnly(TOKEN_PROGRAM_ID)>>)

ixUnstake(p) == ix("unstake", <<>>,
  <<Signing(p.owner), Writable(findGlobalConfig), Writable(findStakingPool),
    Writable(p.stakingVault), Writable(p.treasuryXntVault), Writable(p.userGameAccount),
    Writable(p.userXntAccount), Writable(PositionNamed(p.owner, p.positionId)),
    ReadOnly(TOKEN_PROGRAM_ID)>>)

ixActivateBoost(p) == ix("activate_boost", <<>>,
  <<Signing(p.user), ReadOnly(findGlobalConfig), ReadOnly(findBoostConfig(p.boostId)),
    Writable(findUserAccount(p.user)), ReadOnly(SystemProgram)>>)

\* Mutant: `if (rigId)` instead of `if (rigId !== undefined)`.
OptionUnlessZero(rigId) ==
  IF rigId \in {None, 0} THEN <<Arg("u8", 0)>> ELSE <<Arg("u8", 1), Arg("u8", rigId)>>

OptionU8(rigId) ==
  IF rigId = None THEN <<Arg("u8", 0)>> ELSE <<Arg("u8", 1), Arg("u8", rigId)>>

ixUpsertBoostConfig(p) == ix("upsert_boost_config",
  <<Arg("u8", p.id), Arg("u8", p.kind), Arg("u64", p.costBoostPoints),
    Arg("u16", p.valueBps), Arg("i64", p.durationSeconds)>> \o OptionU8(p.rigId),
  <<Signing(p.admin), Writable(findGlobalConfig), Writable(findBoostConfig(p.id)),
    ReadOnly(SystemProgram)>>)

ixApplyRankingResults(p) == ix("apply_ranking_results",
  <<Arg("pubkey", p.user), Arg("u64", p.addedBoostPoints)>>,
  <<Signing(p.admin), Writable(findGlobalConfig), ReadOnly(p.user),
    Writable(findUserAccount(p.user)), ReadOnly(SystemProgram)>>)

(***************************************************************************)
(* lib.rs: the accounts of each instruction in their order, its arguments, *)
(* and what the two must satisfy.                                          *)
(***************************************************************************)
Account(field) == [field |-> field, mut |-> FALSE, signer |-> FALSE]
Mut(field) == [field |-> field, mut |-> TRUE, signer |-> FALSE]
Signer(field) == [field |-> field, mut |-> TRUE, signer |-> TRUE]

Contexts ==
  [initialize_global |->
     <<Mut("global_config"), Signer("payer"), Account("xnt_mint"), Signer("game_mint"),
       Account("system_program"), Account("token_program")>>,
   initialize_treasury_vault |->
     <<Signer("admin"), Mut("global_config"), Mut("xnt_mint"), Signer("treasury_xnt_vault"),
       Account("system_program"), Account("token_program")>>,
   initialize_staking_pool |->
     <<Signer("admin"), Mut("global_config"), Mut("staking_pool"), Mut("game_mint"),
       Account("xnt_mint"), Signer("staking_vault"), Account("system_program"),
       Account("token_program"), Account("rent")>>,
   mine_with_rig |->
     <<Signer("payer"), Mut("global_config"), Mut("staking_pool"), Mut("game_mint"),
       Mut("user_game_account"), Mut("user_xnt_account"), Mut("treasury_xnt_vault"),
       Mut("user_account"), Account("token_program"), Account("system_program"),
       Account("associated_token_program"), Account("rent")>>,
   stake |->
     <<Signer("owner"), Mut("global_config"), Mut("staking_pool"), Mut("staking_vault"),
       Mut("treasury_xnt_vault"), Mut("user_game_account"), Mut("user_xnt_account"),
       Mut("user_account"), Mut("user_stake_position"), Account("token_program"),
       Account("system_program"), Account("associated_token_program"), Account("rent")>>,
   claim |->
     <<Signer("owner"), Mut("global_config"), Mut("staking_pool"), Mut("treasury_xnt_vault"),
       Mut("user_xnt_account"), Mut("user_stake_position"), Account("token_program")>>,
   unstake |->
     <<Signer("owner"), Mut("global_config"), Mut("staking_pool"), Mut("staking_vault"),
       Mut("treasury_xnt_vault"), Mut("user_game_account"), Mut("user_xnt_account"),
       Mut("user_stake_position"), Account("token_program")>>,
   activate_boost |->
     <<Signer("user"), Account("global_config"), Account("boost_config"),
       Mut("user_account"), Account("system_program")>>,
   upsert_boost_config |->
     <<Signer("admin"), Mut("global_config"), Mut("boost_config"),
       Account("system_program")>>,
   apply_ranking_results |->
     <<Signer("admin"), Mut("global_config"), Account("user"), Mut("user_account"),
       Account("system_program")>>]

Arguments ==
  [n \in DOMAIN Contexts |->
     CASE n = "initialize_global" -> <<"pubkey", "u16", "u64">>
       [] n = "mine_with_rig" -> <<"u8">>
       [] n = "stake" -> <<"u64", "u16">>
       [] n = "upsert_boost_config" -> <<"u8", "u8", "u64", "u16", "i64", "u8">>
       [] n = "apply_ranking_results" -> <<"u64">>
       [] OTHER -> <<>>]

\* The accounts by the names of the program.
AccountsOf(i) ==
  LET fields == Contexts[i.name] IN
  [f \in {fields[n].field : n \in DOMAIN fields} |->
     i.keys[CHOOSE n \in DOMAIN fields : fields[n].field = f].pubkey]

Width(type) == CASE type = "u8" -> 1 [] type = "u16" -> 2 [] type = "u32" -> 4
                 [] type \in {"u64", "i64"} -> 8 [] type = "pubkey" -> 32

\* The data can be cut into the arguments; the last may be cut out of a longer one.
Deserializes(i) ==
  LET types == Arguments[i.name] IN
  /\ Len(types) <= Len(i.data)
  /\ \A n \in DOMAIN types :
       \/ Width(i.data[n].type) = Width(types[n])
       \/ n = Len(types) /\ types[n] = "u64" /\ i.data[n].type = "pubkey"
  /\ i.name = "upsert_boost_config" =>
       /\ i.data[2].value \in 0 .. 3                           \* BoostKind has four
       /\ i.data[6].value = 0 \/ (i.data[6].value = 1 /\ Len(i.data) >= 7)

ArgsOf(i) ==
  LET types == Arguments[i.name]
      read == [n \in DOMAIN types |->
                 IF types[n] = "u64" /\ i.data[n].type = "pubkey"
                   THEN KeyNumber[i.data[n].value] ELSE i.data[n].value]
  IN IF i.name = "upsert_boost_config"
       THEN [read EXCEPT ![6] = IF @ = 0 THEN None ELSE i.data[7].value]
       ELSE read

\* The address of a position as assert_valid_user_stake_pda has it.
PositionAddress(owner, id) ==
  IF id = 0 THEN <<"user-stake">> \o owner ELSE <<"user-stake">> \o owner \o <<id>>

\* The seeds of a new position: the owner and the next id, at least 1.
NextPositionAt(owner, next, address) ==
  address = PositionAddress(owner, IF next = 0 THEN 1 ELSE next)

(***************************************************************************)
(* Constraints of the contexts, and the checks of keys in the handlers.    *)
(* chain is what the instruction finds: chain.accounts are the addresses   *)
(* in use, the other fields those of global_config and staking_pool, and   *)
(* next_position_id of each wallet.                                        *)
(***************************************************************************)
IsNew(address, chain) == address \notin chain.accounts
IsTokenAccount(address, mint, owner, chain) ==
  address = Ata(mint, owner) /\ address \in chain.accounts
IsAdmin(signer, chain) == findGlobalConfig \in chain.accounts /\ signer = chain.admin
Works(a, chain) ==
  /\ a.global_config = <<"global-config">> /\ a.global_config \in chain.accounts
  /\ a.staking_pool = <<"staking-pool">> /\ a.staking_pool \in chain.accounts
  /\ chain.poolTreasury = chain.treasury

Constraints(name, a, args, chain) ==
  CASE name = "initialize_global" ->
         /\ a.global_config = <<"global-config">> /\ IsNew(a.global_config, chain)
         /\ IsNew(a.game_mint, chain) /\ a.payer = args[1]
    [] name = "initialize_treasury_vault" ->
         /\ IsAdmin(a.admin, chain) /\ a.global_config = <<"global-config">>
         /\ a.xnt_mint = chain.xntMint /\ IsNew(a.treasury_xnt_vault, chain)
    [] name = "initialize_staking_pool" ->
         /\ IsAdmin(a.admin, chain) /\ a.global_config = <<"global-config">>
         /\ a.staking_pool = <<"staking-pool">> /\ IsNew(a.staking_pool, chain)
         /\ a.game_mint = chain.gameMint /\ a.xnt_mint = chain.xntMint
         /\ IsNew(a.staking_vault, chain)
    [] name = "mine_with_rig" ->
         /\ Works(a, chain) /\ a.game_mint = chain.gameMint
         /\ IsTokenAccount(a.user_game_account, chain.gameMint, a.payer, chain)
         /\ IsTokenAccount(a.user_xnt_account, chain.xntMint, a.payer, chain)
         /\ a.treasury_xnt_vault = chain.treasury
         /\ a.user_account = <<"user-account">> \o a.payer
    [] name = "stake" ->
         /\ Works(a, chain) /\ a.staking_vault = chain.stakingVault
         /\ a.treasury_xnt_vault = chain.poolTreasury
         /\ IsTokenAccount(a.user_game_account, chain.gameMint, a.owner, chain)
         /\ IsTokenAccount(a.user_xnt_account, chain.xntMint, a.owner, chain)
         /\ a.user_account = <<"user-account">> \o a.owner
         /\ IsNew(a.user_stake_position, chain)
         /\ NextPositionAt(a.owner, chain.nextPositionId[a.owner], a.user_stake_position)
    [] name = "claim" ->
         /\ Works(a, chain) /\ a.treasury_xnt_vault = chain.poolTreasury
         /\ IsTokenAccount(a.user_xnt_account, chain.xntMint, a.owner, chain)
         /\ a.user_stake_position \in chain.accounts
         /\ \E id \in 0 .. U32Max : a.user_stake_position = PositionAddress(a.owner, id)
    [] name = "unstake" ->
         /\ Works(a, chain) /\ a.staking_vault = chain.stakingVault
         /\ a.treasury_xnt_vault = chain.poolTreasury
         /\ IsTokenAccount(a.user_game_account, chain.gameMint, a.owner, chain)
         /\ IsTokenAccount(a.user_xnt_account, chain.xntMint, a.owner, chain)
         /\ a.user_stake_position \in chain.accounts
         /\ \E id \in 0 .. U32Max : a.user_stake_position = PositionAddress(a.owner, id)
    [] name = "activate_boost" ->
         /\ a.global_config = <<"global-config">> /\ a.global_config \in chain.accounts
         /\ a.boost_config[1] = "boost-config" /\ a.boost_config \in chain.accounts
         /\ a.user_account = <<"user-account">> \o a.user
    [] name = "upsert_boost_config" ->
         /\ IsAdmin(a.admin, chain) /\ a.global_config = <<"global-config">>
         /\ a.boost_config = <<"boost-config", args[1]>>
    [] name = "apply_ranking_results" ->
         /\ IsAdmin(a.admin, chain) /\ a.global_config = <<"global-config">>
         /\ a.user_account = <<"user-account">> \o a.user

IsProgram(a) ==
  /\ "system_program" \in DOMAIN a => a.system_program = SystemProgram
  /\ "token_program" \in DOMAIN a => a.token_program = TOKEN_PROGRAM_ID
  /\ "associated_token_program" \in DOMAIN a =>
       a.associated_token_program = ASSOCIATED_TOKEN_PROGRAM_ID
  /\ "rent" \in DOMAIN a => a.rent = SYSVAR_RENT_PUBKEY

\* The program takes the instruction of a transaction with these signers.
Accepts(i, signers, chain) ==
  LET fields == Contexts[i.name] IN
  /\ Len(fields) <= Len(i.keys)
  /\ \A n \in DOMAIN fields :
       /\ fields[n].signer => i.keys[n].pubkey \in signers
       /\ fields[n].mut => i.keys[n].isWritable
  /\ Deserializes(i)
  /\ IsProgram(AccountsOf(i))
  /\ Constraints(i.name, AccountsOf(i), ArgsOf(i), chain)
=============================================================================
