--------------------------- MODULE Scripts_proofs ---------------------------
(***************************************************************************)
(* Theorems about the scripts of users, StakerScripts and WalletScripts,   *)
(* for any number of runs, wallets and clusters and any environment, and   *)
(* about what they send, Calls.                                            *)
(***************************************************************************)
EXTENDS StakerScripts, WalletScripts, Calls, Staking_proofs, Transactions_proofs, Sequences

-----------------------------------------------------------------------------
(***************************************************************************)
(* StakerScripts: the scripts stay within StakingPool, stake.ts has no     *)
(* effect there, and a second unstake.ts for the same id none either.      *)
(***************************************************************************)
(***************************************************************************)
(* Every step is one of the pool, and one of scripts and cluster.          *)
(***************************************************************************)
LEMMA ScriptStepIsTxStep == [ScriptNext]_scriptVars => [TxNext]_txVars
  BY DEF ScriptNext, scriptVars, TxNext, txVars, ScriptStep, Step, StakeBuilds, ClaimBuilds,
         UnstakeBuilds, MineBuilds, Ready, Throws, ListReadsPool, ListReadsPositions,
         ClaimLands, UnstakeLands, MineLands, Taken, RunsOf, StakeRuns, Break, Elsewhere

LEMMA ScriptStepIsPoolStep == [ScriptNext]_scriptVars => [Next]_vars
<1> SUFFICES ASSUME [ScriptNext]_scriptVars PROVE [Next]_vars
  OBVIOUS
<1>1. ASSUME NEW r \in Runs, ClaimLands(r) PROVE Next
  BY <1>1, JobsAssumption DEF ClaimLands, Next
<1>2. ASSUME NEW r \in Runs, UnstakeLands(r) PROVE Next
  BY <1>2, JobsAssumption DEF UnstakeLands, Next
<1>3. ASSUME NEW r \in Runs, MineLands(r) PROVE Next
  BY <1>3, JobsAssumption DEF MineLands, Next
<1>4. ASSUME NEW r \in Runs, ScriptStep(r) PROVE UNCHANGED vars
  BY <1>4 DEF ScriptStep, StakeBuilds, ClaimBuilds, UnstakeBuilds, MineBuilds, Ready,
              Throws, ListReadsPool, ListReadsPositions
<1> QED
  BY <1>1, <1>2, <1>3, <1>4 DEF ScriptNext, scriptVars, Elsewhere

\* Nothing the scripts do is beyond the pool's specification, so what is proved
\* of that holds whatever the scripts do, and whenever they do it.
THEOREM ScriptsUseThePool == ScriptSpec => Spec
  BY ScriptStepIsPoolStep, PTL DEF ScriptSpec, ScriptInit, Spec

-----------------------------------------------------------------------------
(***************************************************************************)
(* Addresses, and where an instruction has that of the position.           *)
(***************************************************************************)
\* The id of a position can be read off its address.
LEMMA PositionAddressesDiffer ==
  ASSUME NEW u, NEW a \in Nat, NEW b \in Nat,
         PositionAddress(KeyOf(u), a) = PositionAddress(KeyOf(u), b)
  PROVE  a = b
<1> DEFINE short == <<"user-stake">> \o <<u>>
<1>1. Len(short) = 2
  OBVIOUS
<1>2. ASSUME NEW id PROVE Len(short \o <<id>>) = 3 /\ (short \o <<id>>)[3] = id
  OBVIOUS
<1>3. ASSUME NEW id \in Nat
      PROVE  PositionAddress(KeyOf(u), id) = IF id = 0 THEN short ELSE short \o <<id>>
  BY DEF PositionAddress, KeyOf
<1> HIDE DEF short
<1>4. (IF a = 0 THEN short ELSE short \o <<a>>) = (IF b = 0 THEN short ELSE short \o <<b>>)
  BY <1>3
<1>5. CASE a = 0 /\ b # 0
  <2>1. Len(short) = Len(short \o <<b>>)
    BY <1>4, <1>5
  <2> QED BY <2>1, <1>1, <1>2
<1>6. CASE a # 0 /\ b = 0
  <2>1. Len(short) = Len(short \o <<a>>)
    BY <1>4, <1>6
  <2> QED BY <2>1, <1>1, <1>2
<1>7. CASE a # 0 /\ b # 0
  <2>1. (short \o <<a>>)[3] = (short \o <<b>>)[3]
    BY <1>4, <1>7
  <2> QED BY <1>2, <2>1
<1> QED BY <1>5, <1>6, <1>7

LEMMA SdkAgreesOnPositions ==
  ASSUME NEW u, NEW id \in Nat
  PROVE  PositionNamed(KeyOf(u), id) = PositionAddress(KeyOf(u), id)
  BY DEF PositionNamed, PositionAddress, findUserStake, findUserStakePosition

LEMMA StakeAccounts ==
  ASSUME NEW i, i.name = "stake"
  PROVE  /\ AccountsOf(i).user_account = i.keys[8].pubkey
         /\ AccountsOf(i).owner = i.keys[1].pubkey
<1> DEFINE fields == Contexts[i.name]
<1>1. /\ fields = Contexts.stake
      /\ DOMAIN fields = 1 .. 13
  BY DEF Contexts
<1>2. /\ fields[1].field = "owner" /\ fields[2].field = "global_config"
      /\ fields[3].field = "staking_pool" /\ fields[4].field = "staking_vault"
      /\ fields[5].field = "treasury_xnt_vault" /\ fields[6].field = "user_game_account"
      /\ fields[7].field = "user_xnt_account" /\ fields[8].field = "user_account"
      /\ fields[9].field = "user_stake_position" /\ fields[10].field = "token_program"
      /\ fields[11].field = "system_program" /\ fields[12].field = "associated_token_program"
      /\ fields[13].field = "rent"
  BY DEF Contexts, Mut, Signer, Account
<1> HIDE DEF fields
<1>3. (CHOOSE n \in DOMAIN fields : fields[n].field = "user_account") = 8
  BY <1>1, <1>2
<1>4. (CHOOSE n \in DOMAIN fields : fields[n].field = "owner") = 1
  BY <1>1, <1>2
<1>5. {"user_account", "owner"} \subseteq {fields[n].field : n \in DOMAIN fields}
  BY <1>1, <1>2
<1> QED BY <1>3, <1>4, <1>5 DEF AccountsOf, fields

\* A stake whose eighth account is not that of its owner is refused, and so is
\* everything ixStake builds: it has the position there.
LEMMA MisplacedIsRefused ==
  ASSUME NEW i, i.name = "stake", NEW signers, NEW at,
         i.keys[8].pubkey # <<"user-account">> \o i.keys[1].pubkey
  PROVE  ~ Accepts(i, signers, at)
<1> DEFINE a == AccountsOf(i)
<1>1. a.user_account # <<"user-account">> \o a.owner
  BY StakeAccounts
<1> HIDE DEF a
<1>2. ~ Constraints("stake", a, ArgsOf(i), at)
  BY <1>1 DEF Constraints
<1> QED BY <1>2 DEF Accepts, a

LEMMA StakeIsMisplaced ==
  ASSUME NEW p, NEW e, p.owner = <<e>>
  PROVE  /\ ixStake(p).name = "stake"
         /\ ixStake(p).keys[8].pubkey # <<"user-account">> \o ixStake(p).keys[1].pubkey
<1> DEFINE i == ixStake(p)
<1>1. /\ i.name = "stake" /\ i.keys[1].pubkey = <<e>>
      /\ i.keys[8].pubkey = <<"user-stake">> \o <<e>> \o <<p.positionId>>
  BY DEF ixStake, ix, Signing, Writable, findUserStakePosition
<1> HIDE DEF i
<1>2. (<<"user-stake">> \o <<e>> \o <<p.positionId>>)[1] = "user-stake"
  OBVIOUS
<1>3. (<<"user-account">> \o <<e>>)[1] = "user-account"
  OBVIOUS
<1>4. i.name = "stake" /\ i.keys[8].pubkey # <<"user-account">> \o i.keys[1].pubkey
  BY <1>1, <1>2, <1>3
<1> QED BY <1>4 DEF i

LEMMA UnstakeAccounts ==
  ASSUME NEW i, i.name = "unstake"
  PROVE  AccountsOf(i).user_stake_position = i.keys[8].pubkey
<1> DEFINE fields == Contexts[i.name]
<1>1. DOMAIN fields = 1 .. 9
  BY DEF Contexts
<1>2. /\ fields[1].field = "owner" /\ fields[2].field = "global_config"
      /\ fields[3].field = "staking_pool" /\ fields[4].field = "staking_vault"
      /\ fields[5].field = "treasury_xnt_vault" /\ fields[6].field = "user_game_account"
      /\ fields[7].field = "user_xnt_account" /\ fields[8].field = "user_stake_position"
      /\ fields[9].field = "token_program"
  BY DEF Contexts, Mut, Signer, Account
<1> HIDE DEF fields
<1>3. (CHOOSE n \in DOMAIN fields : fields[n].field = "user_stake_position") = 8
  BY <1>1, <1>2
<1>4. "user_stake_position" \in {fields[n].field : n \in DOMAIN fields}
  BY <1>1, <1>2
<1> QED BY <1>3, <1>4 DEF AccountsOf, fields

-----------------------------------------------------------------------------
(***************************************************************************)
(* The inductive invariant.                                                *)
(***************************************************************************)
IsPrepared(r) == stage[r] = "ready" \/ tx[r].status # "none"
UnstakeRuns == RunsOf("unstake.ts")

\* What stake.ts has built is misplaced; what unstake.ts has built names the
\* position of its own wallet that it was asked to unstake.
ViewInv ==
  /\ DOMAIN view = Runs
  /\ \A r \in Runs : DOMAIN view[r] = {"positionId", "ix", "acc", "listed"}
  /\ \A r \in StakeRuns : IsPrepared(r) =>
       /\ view[r].ix.name = "stake"
       /\ view[r].ix.keys[8].pubkey # <<"user-account">> \o view[r].ix.keys[1].pubkey
  /\ \A r \in UnstakeRuns : IsPrepared(r) =>
       /\ Jobs[r].positionId \in Nat
       /\ view[r].ix.name = "unstake"
       /\ view[r].ix.keys[8].pubkey
            = PositionNamed(KeyOf(Jobs[r].wallet), Jobs[r].positionId)

\* A run of unstake.ts has been taken, for an id that is not the last.
HasUnstaked(r) == tx[r].status = "landed" /\ Jobs[r].positionId < U32Max

\* The position that run r names is behind the counter of ids, and closed.
IsGone(r) ==
  /\ Jobs[r].positionId \in PositionIds
  /\ Jobs[r].positionId < NextSlot(Jobs[r].wallet)[2]
  /\ ~ positions[<<Jobs[r].wallet, Jobs[r].positionId>>].open

UnstakeInv == \A r \in UnstakeRuns : HasUnstaked(r) => IsGone(r)

ScriptInv ==
  /\ TypeOK /\ IdInv /\ TxTypeOK
  /\ ViewInv /\ UnstakeInv /\ OneUnstakePerId

LEMMA ScriptsApart ==
  ASSUME NEW r \in Runs
  PROVE  /\ r \in UnstakeRuns => r \notin StakeRuns
         /\ r \in RunsOf("claim.ts") \cup RunsOf("mine.ts") \cup RunsOf("list-positions.ts")
              => r \notin StakeRuns \cup UnstakeRuns
  BY DEF RunsOf, StakeRuns, UnstakeRuns

LEMMA ScriptInvInit == ScriptInit => ScriptInv
<1> SUFFICES ASSUME ScriptInit PROVE ScriptInv
  OBVIOUS
<1>1. TypeOK /\ IdInv /\ TxTypeOK
  BY PoolInit, IdInit, TxTypeInit DEF ScriptInit, PoolInv
<1>2. \A r \in Runs : stage[r] = "off" /\ tx[r].status = "none"
  BY DEF ScriptInit, TxInit, NoTx
<1>3. ViewInv
  BY <1>2 DEF ScriptInit, ViewInv, NewView, IsPrepared, StakeRuns, UnstakeRuns, RunsOf
<1>4. UnstakeInv /\ OneUnstakePerId
  BY <1>2 DEF UnstakeInv, HasUnstaked, OneUnstakePerId, UnstakeRuns, RunsOf
<1> QED BY <1>1, <1>3, <1>4 DEF ScriptInv

(***************************************************************************)
(* Building: a run writes its own view, before anything is sent.           *)
(***************************************************************************)
LEMMA StakeIsBuilt ==
  ASSUME ScriptInv, NEW r \in Runs, StakeBuilds(r)
  PROVE  /\ view'[r].ix.name = "stake"
         /\ view'[r].ix.keys[8].pubkey # <<"user-account">> \o view'[r].ix.keys[1].pubkey
<1> DEFINE i == ixStake(StakeParams(r))
<1>1. view'[r].ix = i
  <2> HIDE DEF i
  <2> QED BY DEF StakeBuilds, ScriptInv, ViewInv, i
<1>2. StakeParams(r).owner = <<Jobs[r].wallet>>
  BY DEF StakeParams, KeyOf
<1>3. i.name = "stake" /\ i.keys[8].pubkey # <<"user-account">> \o i.keys[1].pubkey
  BY <1>2, StakeIsMisplaced
<1> HIDE DEF i
<1> QED BY <1>1, <1>3

LEMMA UnstakeIsBuilt ==
  ASSUME ScriptInv, NEW r \in Runs, UnstakeBuilds(r)
  PROVE  /\ Jobs[r].positionId \in Nat
         /\ view'[r].ix.name = "unstake"
         /\ view'[r].ix.keys[8].pubkey
              = PositionNamed(KeyOf(Jobs[r].wallet), Jobs[r].positionId)
<1> DEFINE i == ixUnstake([owner |-> KeyOf(Jobs[r].wallet), stakingVault |-> StakingVault,
                               treasuryXntVault |-> TreasuryVault,
                               userGameAccount |-> UserGameAta(r),
                               userXntAccount |-> UserXntAta(r),
                               positionId |-> Jobs[r].positionId])
<1>1. /\ i.name = "unstake"
      /\ i.keys[8].pubkey = PositionNamed(KeyOf(Jobs[r].wallet), Jobs[r].positionId)
  BY DEF ixUnstake, ix, Signing, Writable, ReadOnly
<1> HIDE DEF i
<1>2. view'[r].ix = i
  BY DEF UnstakeBuilds, ScriptInv, ViewInv, i
<1> QED BY <1>1, <1>2, JobsAssumption DEF UnstakeBuilds

\* A run that is prepared was so before, with the same view, or has just built.
LEMMA PreparedBefore ==
  ASSUME ScriptInv, ScriptNext, NEW r \in StakeRuns \cup UnstakeRuns, IsPrepared(r)'
  PROVE  \/ StakeBuilds(r) \/ UnstakeBuilds(r)
         \/ IsPrepared(r) /\ view'[r] = view[r]
<1>1. r \in Runs
  BY DEF StakeRuns, UnstakeRuns, RunsOf
<1> USE <1>1 DEF ScriptInv, TxTypeOK, ViewInv, IsPrepared
<1>2. ASSUME NEW q \in Runs,
             StakeBuilds(q) \/ ClaimBuilds(q) \/ UnstakeBuilds(q) \/ MineBuilds(q)
      PROVE  \/ StakeBuilds(r) \/ UnstakeBuilds(r)
             \/ IsPrepared(r) /\ view'[r] = view[r]
  <2>1. CASE q = r
    BY <1>2, <2>1, ScriptsApart DEF ClaimBuilds, MineBuilds
  <2>2. CASE q # r
    <3>1. UNCHANGED tx /\ stage'[r] = stage[r]
      BY <1>2, <2>2 DEF StakeBuilds, ClaimBuilds, UnstakeBuilds, MineBuilds, Ready, Build, Goes
    <3>2. view'[r] = view[r]
      BY <1>2, <2>2 DEF StakeBuilds, ClaimBuilds, UnstakeBuilds, MineBuilds
    <3> QED BY <3>1, <3>2
  <2> QED BY <2>1, <2>2
<1>3. ASSUME NEW q \in Runs, ListReadsPool(q) \/ ListReadsPositions(q)
      PROVE  IsPrepared(r) /\ view'[r] = view[r]
  <2>1. q # r
    BY <1>3, ScriptsApart DEF ListReadsPool, ListReadsPositions
  <2>2. UNCHANGED tx /\ stage'[r] = stage[r] /\ view'[r] = view[r]
    BY <1>3, <2>1 DEF ListReadsPool, ListReadsPositions, EndsUnsent, Goes
  <2> QED BY <2>2
<1>4. ASSUME NEW q \in Runs,
             \/ Throws(q)
             \/ (Send(q) \/ Confirm(q) \/ SeeRefusal(q) \/ GiveUp(q)) /\ UNCHANGED <<vars, view>>
             \/ (Start(q) \/ Break(q) \/ LoseTouch(q) \/ Refuse(q)) /\ UNCHANGED <<vars, view>>
             \/ Taken(q)
      PROVE  IsPrepared(r) /\ view'[r] = view[r]
  <2>1. view' = view
    BY <1>4 DEF Throws, Taken
  <2>2. IsPrepared(r)
    BY <1>4 DEF Throws, Taken, Send, Confirm, SeeRefusal, GiveUp, Start, Break, LoseTouch,
                Refuse, Land, IsOpen, Goes
  <2> QED BY <2>1, <2>2
<1>5. ASSUME NextBlock, UNCHANGED view
      PROVE  IsPrepared(r) /\ view'[r] = view[r]
  BY <1>5 DEF NextBlock
<1>6. ASSUME Elsewhere
      PROVE  IsPrepared(r) /\ view'[r] = view[r]
  BY <1>6 DEF Elsewhere
<1> HIDE DEF ScriptInv, TxTypeOK, ViewInv, IsPrepared
<1> QED BY <1>2, <1>3, <1>4, <1>5, <1>6
        DEF ScriptNext, ScriptStep, ClaimLands, UnstakeLands, MineLands

LEMMA ViewStep == ScriptInv /\ ScriptNext => ViewInv'
<1> SUFFICES ASSUME ScriptInv, ScriptNext PROVE ViewInv'
  OBVIOUS
<1>1. /\ DOMAIN view' = Runs
      /\ \A r \in Runs : DOMAIN view'[r] = {"positionId", "ix", "acc", "listed"}
  BY DEF ScriptInv, ViewInv, ScriptNext, ScriptStep, StakeBuilds, ClaimBuilds, UnstakeBuilds,
         MineBuilds, Throws, ListReadsPool, ListReadsPositions, ClaimLands,
         UnstakeLands, MineLands, Taken, Elsewhere
<1>2. ASSUME NEW r \in StakeRuns, IsPrepared(r)'
      PROVE  /\ view'[r].ix.name = "stake"
             /\ view'[r].ix.keys[8].pubkey # <<"user-account">> \o view'[r].ix.keys[1].pubkey
  <2>1. r \in Runs /\ r \notin UnstakeRuns
    BY ScriptsApart DEF StakeRuns, RunsOf
  <2>2. StakeBuilds(r) \/ (IsPrepared(r) /\ view'[r] = view[r])
    BY <1>2, <2>1, PreparedBefore DEF UnstakeBuilds, UnstakeRuns
  <2>3. CASE StakeBuilds(r)
    BY <2>1, <2>3, StakeIsBuilt
  <2>4. CASE IsPrepared(r) /\ view'[r] = view[r]
    BY <2>4 DEF ScriptInv, ViewInv
  <2> QED BY <2>2, <2>3, <2>4
<1>3. ASSUME NEW r \in UnstakeRuns, IsPrepared(r)'
      PROVE  /\ Jobs[r].positionId \in Nat
             /\ view'[r].ix.name = "unstake"
             /\ view'[r].ix.keys[8].pubkey
                  = PositionNamed(KeyOf(Jobs[r].wallet), Jobs[r].positionId)
  <2>1. r \in Runs /\ r \notin StakeRuns
    BY ScriptsApart DEF UnstakeRuns, RunsOf
  <2>2. UnstakeBuilds(r) \/ (IsPrepared(r) /\ view'[r] = view[r])
    BY <1>3, <2>1, PreparedBefore DEF StakeBuilds
  <2>3. CASE UnstakeBuilds(r)
    BY <2>1, <2>3, UnstakeIsBuilt
  <2>4. CASE IsPrepared(r) /\ view'[r] = view[r]
    BY <2>4 DEF ScriptInv, ViewInv
  <2> QED BY <2>2, <2>3, <2>4
<1> QED BY <1>1, <1>2, <1>3 DEF ViewInv

(***************************************************************************)
(* Arriving: the position that is closed is the one named.                 *)
(***************************************************************************)
LEMMA UnstakeHits ==
  ASSUME ScriptInv, NEW r \in UnstakeRuns, Taken(r), NEW id \in PositionIds, Hits(r, id)
  PROVE  /\ r \in Runs /\ Jobs[r].wallet \in Users
         /\ tx[r].status = "pending"
         /\ \A q \in Runs : q # r => tx'[q] = tx[q]
         /\ id = Jobs[r].positionId
<1> DEFINE u == Jobs[r].wallet
<1>1. r \in Runs /\ u \in Users
  BY JobsAssumption DEF UnstakeRuns, RunsOf
<1>2. /\ tx[r].status = "pending" /\ tx'[r].status = "landed"
      /\ \A q \in Runs : q # r => tx'[q] = tx[q]
  BY <1>1 DEF Taken, Land, IsOpen, ScriptInv, TxTypeOK
<1>3. /\ Jobs[r].positionId \in Nat
      /\ view[r].ix.name = "unstake"
      /\ view[r].ix.keys[8].pubkey = PositionNamed(KeyOf(u), Jobs[r].positionId)
  BY <1>2 DEF ScriptInv, ViewInv, IsPrepared
<1>4. AccountsOf(view[r].ix).user_stake_position
        = PositionAddress(KeyOf(u), Jobs[r].positionId)
  BY <1>3, UnstakeAccounts, SdkAgreesOnPositions
<1>5. PositionAddress(KeyOf(u), Jobs[r].positionId) = PositionAddress(KeyOf(u), id)
  BY <1>4 DEF Hits
<1>6. id \in Nat
  BY DEF PositionIds
<1>7. id = Jobs[r].positionId
  BY <1>3, <1>5, <1>6, PositionAddressesDiffer
<1> QED BY <1>1, <1>2, <1>7

(***************************************************************************)
(* The steps: no more is unstaked than before, but by UnstakeLands.        *)
(***************************************************************************)
LEMMA LandedBefore ==
  ASSUME ScriptInv, [ScriptNext]_scriptVars, NEW r \in UnstakeRuns,
         tx'[r].status = "landed", ~ UnstakeLands(r)
  PROVE  tx[r].status = "landed"
<1>1. /\ r \in Runs
      /\ tx \in [Runs -> [status : {"none", "pending", "landed", "refused"}, ttl : 0 .. Validity]]
  BY DEF UnstakeRuns, RunsOf, ScriptInv, TxTypeOK
<1>2. CASE UNCHANGED tx
  BY <1>2
<1>3. ASSUME NEW q \in Runs, Send(q) \/ Refuse(q)
      PROVE  tx[r].status = "landed"
  BY <1>1, <1>3 DEF Send, Refuse
<1>4. CASE NextBlock
  BY <1>1, <1>4 DEF NextBlock
<1>5. ASSUME NEW q \in Runs, ClaimLands(q) \/ UnstakeLands(q) \/ MineLands(q)
      PROVE  tx[r].status = "landed"
  <2>1. q # r
    BY <1>5, ScriptsApart DEF ClaimLands, MineLands
  <2>2. Land(q)
    BY <1>5 DEF ClaimLands, UnstakeLands, MineLands, Taken
  <2> QED BY <1>1, <2>1, <2>2 DEF Land
<1>6. \/ UNCHANGED tx \/ NextBlock
      \/ \E q \in Runs : \/ Send(q) \/ Refuse(q)
                        \/ ClaimLands(q) \/ UnstakeLands(q) \/ MineLands(q)
  BY DEF ScriptNext, ScriptStep, StakeBuilds, ClaimBuilds, UnstakeBuilds, MineBuilds, Ready,
         Throws, ListReadsPool, ListReadsPositions, scriptVars, Build, EndsUnsent, Confirm,
         SeeRefusal, GiveUp, Start, Break, LoseTouch, Elsewhere
<1> QED BY <1>2, <1>3, <1>4, <1>5, <1>6

\* What is gone stays gone, whatever is sent to the pool.
LEMMA GoneStays ==
  ASSUME TypeOK, [Next]_vars, NEW r \in UnstakeRuns, IsGone(r)
  PROVE  IsGone(r)'
<1>1. Jobs[r].wallet \in Users
  BY JobsAssumption DEF UnstakeRuns, RunsOf
<1> QED BY <1>1, NextSlotGrows, ClosedStays DEF IsGone

\* An id that is unstaked was there, and is gone then.
LEMMA UnstakeGoes ==
  ASSUME ScriptInv, NEW r \in UnstakeRuns, UnstakeLands(r), Jobs[r].positionId < U32Max
  PROVE  ~ IsGone(r) /\ IsGone(r)'
<1> DEFINE u == Jobs[r].wallet
           id == Jobs[r].positionId
<1>1. u \in Users /\ id \in PositionIds /\ Unstake(u, id)
  BY UnstakeHits DEF UnstakeLands
<1>2. <<u, id>> \in Slots
  BY <1>1 DEF Slots
<1>3. UNCHANGED nextPositionId /\ positions[<<u, id>>].open /\ ~ positions'[<<u, id>>].open
  BY <1>1, <1>2 DEF Unstake, CanUnstake, CanSettle, NoPosition, ScriptInv, TypeOK
<1>4. id < NextSlot(u)[2]
  <2>1. nextPositionId[u] \in 0 .. U32Max /\ id \in 0 .. U32Max
    BY <1>1 DEF ScriptInv, TypeOK, PositionIds
  <2>2. CASE nextPositionId[u] < U32Max
    <3>1. ~ (id >= NextSlot(u)[2])
      BY <1>1, <1>3, <2>2 DEF ScriptInv, IdInv
    <3> QED BY <2>1, <3>1 DEF NextSlot, MaxOf
  <2>3. CASE nextPositionId[u] = U32Max
    BY <2>1, <2>3, WidthAssumption DEF NextSlot, MaxOf
  <2> QED BY <2>1, <2>2, <2>3, WidthAssumption
<1> QED BY <1>1, <1>3, <1>4 DEF IsGone, NextSlot

LEMMA UnstakeStep ==
  ASSUME ScriptInv, [ScriptNext]_scriptVars
  PROVE  UnstakeInv' /\ OneUnstakePerId'
<1>1. \A r \in UnstakeRuns : r \in Runs
  BY DEF UnstakeRuns, RunsOf
<1>2. ASSUME NEW r \in UnstakeRuns, HasUnstaked(r)'
      PROVE  HasUnstaked(r) \/ UnstakeLands(r)
  BY <1>2, LandedBefore DEF HasUnstaked
<1>3. UnstakeInv'
  <2> SUFFICES ASSUME NEW r \in UnstakeRuns, HasUnstaked(r)' PROVE IsGone(r)'
    BY DEF UnstakeInv
  <2>1. CASE HasUnstaked(r)
    BY <2>1, GoneStays, ScriptStepIsPoolStep DEF ScriptInv, UnstakeInv
  <2>2. CASE UnstakeLands(r)
    BY <2>2, UnstakeGoes DEF HasUnstaked
  <2> QED BY <1>2, <2>1, <2>2
<1>4. OneUnstakePerId'
  <2> SUFFICES ASSUME NEW r \in UnstakeRuns, NEW q \in UnstakeRuns,
                      HasUnstaked(r)', HasUnstaked(q)',
                      Jobs[r].wallet = Jobs[q].wallet, Jobs[r].positionId = Jobs[q].positionId
               PROVE  r = q
    BY DEF OneUnstakePerId, UnstakeRuns, HasUnstaked
  <2>1. IsGone(r) <=> IsGone(q)
    BY DEF IsGone
  <2>2. Jobs[r].positionId < U32Max /\ Jobs[q].positionId < U32Max
    BY DEF HasUnstaked
  <2>3. CASE HasUnstaked(r) /\ HasUnstaked(q)
    BY <2>3 DEF ScriptInv, OneUnstakePerId, UnstakeRuns, HasUnstaked
  <2>4. CASE HasUnstaked(r) /\ UnstakeLands(q)
    BY <2>1, <2>2, <2>4, UnstakeGoes DEF ScriptInv, UnstakeInv
  <2>5. CASE HasUnstaked(q) /\ UnstakeLands(r)
    BY <2>1, <2>2, <2>5, UnstakeGoes DEF ScriptInv, UnstakeInv
  <2>6. CASE UnstakeLands(r) /\ UnstakeLands(q)
    <3>1. /\ \A p \in Runs : p # r => tx'[p] = tx[p]
          /\ tx[q].status = "pending"
      BY <2>6, UnstakeHits DEF UnstakeLands
    <3>2. tx'[q].status = "landed"
      BY DEF HasUnstaked
    <3> QED BY <1>1, <3>1, <3>2
  <2> QED BY <1>2, <2>3, <2>4, <2>5, <2>6
<1> QED BY <1>3, <1>4

LEMMA ScriptInvStep ==
  ScriptInv /\ TypeOK' /\ [ScriptNext]_scriptVars => ScriptInv'
<1> SUFFICES ASSUME ScriptInv, TypeOK', [ScriptNext]_scriptVars PROVE ScriptInv'
  OBVIOUS
<1>1. IdInv'
  BY ScriptStepIsPoolStep, IdStep DEF ScriptInv
<1>2. TxTypeOK'
  BY ScriptStepIsTxStep, TxTypeStep DEF ScriptInv
<1>3. ViewInv'
  <2>1. CASE UNCHANGED scriptVars
    BY <2>1 DEF scriptVars, ScriptInv, ViewInv, IsPrepared
  <2> QED BY <2>1, ViewStep
<1>4. UnstakeInv' /\ OneUnstakePerId'
  BY UnstakeStep
<1> QED BY <1>1, <1>2, <1>3, <1>4 DEF ScriptInv

LEMMA ScriptsKeepInv == ScriptSpec => []ScriptInv
  BY ScriptInvInit, ScriptInvStep, ScriptsUseThePool, TypeCorrect, PTL DEF ScriptSpec

\* The program refuses what stake.ts sends, whatever the script has read, from
\* whichever wallet, and whatever is on the chain when it arrives.
THEOREM StakeScriptRefused ==
  ScriptSpec => [](\A r \in StakeRuns : IsPrepared(r) =>
                     ~ Accepts(view[r].ix, {KeyOf(Jobs[r].wallet)}, Chain))
<1>1. ScriptInv => \A r \in StakeRuns : IsPrepared(r) =>
                     ~ Accepts(view[r].ix, {KeyOf(Jobs[r].wallet)}, Chain)
  BY MisplacedIsRefused DEF ScriptInv, ViewInv
<1> QED BY <1>1, ScriptsKeepInv, PTL

\* One run of unstake.ts at most has an effect for each position id but the last,
\* whoever stakes again in between.
THEOREM OneUnstakeEach == ScriptSpec => []OneUnstakePerId
<1>1. ScriptInv => OneUnstakePerId
  BY DEF ScriptInv
<1> QED BY <1>1, ScriptsKeepInv, PTL

(***************************************************************************)
(* list-positions.ts: what was read first is behind, and the treasury has  *)
(* what the pool owes, so that nothing is cut off on the chain.            *)
(***************************************************************************)
\* Ids given so far: no fewer than positions were opened.
IdsGiven == SumFunction(nextPositionId)
ListRuns == RunsOf("list-positions.ts")

\* The accumulator a run has read is no later than that of the pool.
ReadBehind ==
  \A r \in Runs : view[r].acc # None =>
    r \in ListRuns /\ view[r].acc \in Nat /\ view[r].acc <= Acc

\* A listing sends nothing.
ListsUnsent == \A r \in ListRuns : stage[r] \notin {"ready", "sent"}

ListInv ==
  /\ DebtsBehind
  /\ TreasuryCovers(IdsGiven)
  /\ ReadBehind
  /\ ListsUnsent

\* No wallet has used up its ids, so each stake takes a new one.
IdsLeft == \A u \in Users : nextPositionId[u] < U32Max

LEMMA IdsFacts ==
  ASSUME PoolInv
  PROVE  /\ nextPositionId \in [Users -> Nat] /\ nextPositionId \in [Users -> PositionIds]
         /\ IdsGiven \in Nat
<1>1. nextPositionId \in [Users -> Nat] /\ nextPositionId \in [Users -> PositionIds]
  BY WidthAssumption DEF PoolInv, TypeOK, PositionIds
<1> QED BY <1>1, UsersAssumption, SumNat DEF IdsGiven

LEMMA SupplyKept == Spec => [](SupplyInv /\ XntSupply = SumFunction(InitXnt))
<1>1. Init => SupplyInv /\ XntSupply = SumFunction(InitXnt)
  <2> SUFFICES ASSUME Init PROVE XntSupply = SumFunction(InitXnt)
    BY SupplyInit
  <2>1. InitXnt \in [Users -> Nat]
    BY HoldingsAssumption
  <2>2. SumFunction(InitXnt) \in Nat
    BY <2>1, UsersAssumption, SumNat
  <2> QED BY <2>2 DEF Init, XntSupply
<1>2. PoolInv /\ SupplyInv /\ XntSupply = SumFunction(InitXnt) /\ [Next]_vars
        => SupplyInv' /\ (XntSupply = SumFunction(InitXnt))'
  BY SupplyStep
<1> QED BY <1>1, <1>2, PoolInvariant, PTL DEF Spec

LEMMA ListInit == ScriptInit => ListInv
<1> SUFFICES ASSUME ScriptInit PROVE ListInv
  OBVIOUS
<1>1. PoolInv
  BY PoolInit DEF ScriptInit
<1>2. DebtsBehind /\ TreasuryCovers(0)
  BY CoverInit DEF ScriptInit
<1>3. DebtsBehind /\ TreasuryCovers(IdsGiven)
  <2>1. PICK n \in Nat : n = IdsGiven
    BY <1>1, IdsFacts
  <2>2. TreasuryCovers(n)
    BY <1>1, <1>2, CoversMore
  <2> QED BY <1>2, <2>1, <2>2
<1>4. ReadBehind
  BY DEF ScriptInit, ReadBehind, NewView
<1>5. ListsUnsent
  BY DEF ScriptInit, TxInit, ListsUnsent, ListRuns, RunsOf
<1> QED BY <1>3, <1>4, <1>5 DEF ListInv

\* What the treasury covers, step by step.
LEMMA CoverStep ==
  ASSUME PoolInv, PoolInv', IdsLeft, DebtsBehind, TreasuryCovers(IdsGiven), [Next]_vars
  PROVE  DebtsBehind' /\ TreasuryCovers(IdsGiven)' /\ Acc <= Acc'
<1>1. PICK n \in Nat : n = IdsGiven
  BY IdsFacts
<1>2. TreasuryCovers(n) /\ Acc \in Nat
  BY <1>1, StateFacts
<1>3. ASSUME UNCHANGED nextPositionId, DebtsBehind' /\ TreasuryCovers(n)' /\ Acc <= Acc'
      PROVE  DebtsBehind' /\ TreasuryCovers(IdsGiven)' /\ Acc <= Acc'
  BY <1>1, <1>3 DEF IdsGiven
<1>4. ASSUME NEW u \in Users, NEW deposit \in Deposits, NEW reward \in Rewards,
             MineWithRig(u, deposit, reward)
      PROVE  DebtsBehind' /\ TreasuryCovers(IdsGiven)' /\ Acc <= Acc'
  BY <1>2, <1>3, <1>4, MineCovers DEF MineWithRig
<1>5. ASSUME NEW u \in Users, NEW amount \in StakeAmounts, NEW lockDays \in LockChoices,
             NEW boostMult \in BoostMults, Stake(u, amount, lockDays, boostMult)
      PROVE  DebtsBehind' /\ TreasuryCovers(IdsGiven)' /\ Acc <= Acc'
  <2>1. nextPositionId' = [nextPositionId EXCEPT
                             ![u] = SatAdd(MaxOf(nextPositionId[u], 1), 1, U32Max)]
    BY <1>5 DEF Stake
  <2>2. nextPositionId \in [Users -> Nat] /\ nextPositionId' \in [Users -> Nat]
    BY WidthAssumption DEF PoolInv, TypeOK, PositionIds
  <2>3. nextPositionId[u] + 1 <= nextPositionId'[u]
    BY <2>1, <2>2, WidthAssumption DEF IdsLeft, SatAdd, MaxOf, MinOf
  <2>4. SumFunction(nextPositionId')
          = SumFunction(nextPositionId) - nextPositionId[u] + nextPositionId'[u]
    <3>1. SameBut(nextPositionId, nextPositionId', u, Users)
      BY <2>1, <2>2 DEF SameBut
    <3> QED BY <2>2, <3>1, UsersAssumption, SumUpdate
  <2>5. PICK k \in Nat : k + 1 = SumFunction(nextPositionId') /\ n <= k
    <3>1. n = SumFunction(nextPositionId) /\ SumFunction(nextPositionId') \in Nat
      BY <1>1, <2>2, UsersAssumption, SumNat DEF IdsGiven
    <3>2. SumFunction(nextPositionId') - 1 \in Nat /\ n <= SumFunction(nextPositionId') - 1
      BY <2>2, <2>3, <2>4, <3>1
    <3> QED BY <3>1, <3>2
  <2>6. TreasuryCovers(k)
    BY <1>2, <2>5, CoversMore
  <2>7. DebtsBehind' /\ TreasuryCovers(k + 1)' /\ Acc' = Acc
    BY <1>5, <2>6, StakeCovers
  <2> QED BY <1>2, <2>5, <2>7 DEF IdsGiven
<1>6. ASSUME NEW u \in Users, NEW id \in PositionIds, Claim(u, id) \/ Unstake(u, id)
      PROVE  DebtsBehind' /\ TreasuryCovers(IdsGiven)' /\ Acc <= Acc'
  <2>1. DebtsBehind' /\ TreasuryCovers(n)' /\ Acc' = Acc
    BY <1>2, <1>6, ClaimCovers, UnstakeCovers
  <2> QED BY <1>2, <1>3, <1>6, <2>1 DEF Claim, Unstake
<1>7. ASSUME UNCHANGED <<positions, stakingPool, nextPositionId>>,
             NEW gift \in Nat, treasury' = treasury + gift
      PROVE  DebtsBehind' /\ TreasuryCovers(IdsGiven)' /\ Acc <= Acc'
  <2>1. DebtsBehind' /\ TreasuryCovers(n)' /\ Acc' = Acc
    BY <1>2, <1>7, TransferCovers
  <2> QED BY <1>2, <1>3, <1>7, <2>1
<1>8. treasury = treasury + 0 /\ GiftAmounts \subseteq Nat
  BY StateFacts, ConfigAssumption
<1>9. ASSUME NEW u \in Users, NEW amount \in GiftAmounts,
             DonateXnt(u, amount) \/ DonateGame(u, amount)
      PROVE  DebtsBehind' /\ TreasuryCovers(IdsGiven)' /\ Acc <= Acc'
  BY <1>7, <1>8, <1>9 DEF DonateXnt, DonateGame
<1>10. ASSUME NEW t \in Times, Tick(t)
       PROVE  DebtsBehind' /\ TreasuryCovers(IdsGiven)' /\ Acc <= Acc'
  BY <1>7, <1>8, <1>10 DEF Tick
<1>11. CASE UNCHANGED vars
  BY <1>7, <1>8, <1>11 DEF vars
<1> QED BY <1>4, <1>5, <1>6, <1>9, <1>10, <1>11 DEF Next

\* What a run has read stays as it is, and is of now when it is read.
LEMMA ReadStep ==
  ASSUME ScriptInv, PoolInv, PoolInv', ListInv, [ScriptNext]_scriptVars, Acc <= Acc'
  PROVE  ReadBehind'
<1> SUFFICES ASSUME NEW r \in Runs, view'[r].acc # None
             PROVE  r \in ListRuns /\ view'[r].acc \in Nat /\ view'[r].acc <= Acc'
  BY DEF ReadBehind
<1>1. Acc \in Nat /\ Acc' \in Nat
  BY StateFacts DEF PoolInv, TypeOK, Acc
<1>2. DOMAIN view = Runs /\ DOMAIN view[r] = {"positionId", "ix", "acc", "listed"}
  BY DEF ScriptInv, ViewInv
<1>3. CASE ListReadsPool(r)
  <2>1. view'[r].acc = Acc /\ r \in ListRuns
    BY <1>2, <1>3 DEF ListReadsPool, Acc, ListRuns
  <2> QED BY <1>1, <2>1
<1>4. CASE ~ ListReadsPool(r)
  <2>1. view'[r].acc = view[r].acc
    <3>1. ASSUME NEW q \in Runs,
                 \/ StakeBuilds(q) \/ ClaimBuilds(q) \/ UnstakeBuilds(q) \/ MineBuilds(q)
                 \/ ListReadsPositions(q)
          PROVE  view'[r].acc = view[r].acc
      BY <1>2, <3>1 DEF StakeBuilds, ClaimBuilds, UnstakeBuilds, MineBuilds, ListReadsPositions
    <3>2. ASSUME NEW q \in Runs, ListReadsPool(q)
          PROVE  view'[r].acc = view[r].acc
      BY <1>2, <1>4, <3>2 DEF ListReadsPool
    <3>3. \/ UNCHANGED view
          \/ \E q \in Runs : \/ StakeBuilds(q) \/ ClaimBuilds(q) \/ UnstakeBuilds(q)
                            \/ MineBuilds(q) \/ ListReadsPositions(q) \/ ListReadsPool(q)
      BY DEF ScriptNext, ScriptStep, Throws, ClaimLands, UnstakeLands, MineLands,
             Taken, scriptVars, Elsewhere
    <3> QED BY <3>1, <3>2, <3>3
  <2>2. r \in ListRuns /\ view[r].acc \in Nat /\ view[r].acc <= Acc
    BY <2>1 DEF ListInv, ReadBehind
  <2> QED BY <1>1, <2>1, <2>2
<1> QED BY <1>3, <1>4

LEMMA UnsentStep ==
  ASSUME ScriptInv, ListInv, [ScriptNext]_scriptVars
  PROVE  ListsUnsent'
<1> SUFFICES ASSUME NEW r \in ListRuns PROVE stage'[r] \notin {"ready", "sent"}
  BY DEF ListsUnsent
<1>1. /\ r \in Runs /\ stage[r] \notin {"ready", "sent"}
      /\ stage \in [Runs -> {"off", "started", "ready", "sent", "done", "failed"}]
  BY DEF ListInv, ListsUnsent, ListRuns, RunsOf, ScriptInv, TxTypeOK
<1>2. ~ (StakeBuilds(r) \/ ClaimBuilds(r) \/ UnstakeBuilds(r) \/ MineBuilds(r))
  BY DEF ListRuns, StakeRuns, RunsOf, StakeBuilds, ClaimBuilds, UnstakeBuilds, MineBuilds
<1>3. ASSUME NEW q \in Runs, q # r,
             \/ Build(q) \/ EndsUnsent(q) \/ Send(q) \/ Confirm(q) \/ SeeRefusal(q) \/ GiveUp(q)
             \/ Start(q) \/ Break(q) \/ LoseTouch(q) \/ Goes(q, "started", "failed")
      PROVE  stage'[r] = stage[r]
  BY <1>1, <1>3 DEF Build, EndsUnsent, Send, Confirm, SeeRefusal, GiveUp, Start, Break,
                    LoseTouch, Goes
<1>4. ASSUME \/ EndsUnsent(r) \/ Send(r) \/ Confirm(r) \/ SeeRefusal(r) \/ GiveUp(r)
             \/ Start(r) \/ Break(r) \/ LoseTouch(r) \/ Goes(r, "started", "failed")
      PROVE  stage'[r] \notin {"ready", "sent"}
  BY <1>1, <1>4 DEF EndsUnsent, Send, Confirm, SeeRefusal, GiveUp, Start, Break, LoseTouch, Goes
<1>5. \/ UNCHANGED stage
      \/ \E q \in Runs :
           \/ Build(q) /\ q # r
           \/ EndsUnsent(q) \/ Send(q) \/ Confirm(q) \/ SeeRefusal(q) \/ GiveUp(q)
           \/ Start(q) \/ Break(q) \/ LoseTouch(q) \/ Goes(q, "started", "failed")
  <2>1. ASSUME NEW q \in Runs, StakeBuilds(q) \/ ClaimBuilds(q) \/ UnstakeBuilds(q) \/ MineBuilds(q)
        PROVE  Build(q) /\ q # r
    BY <1>2, <2>1 DEF StakeBuilds, ClaimBuilds, UnstakeBuilds, MineBuilds
  <2>2. ASSUME NEW q \in Runs, Throws(q) \/ ListReadsPool(q) \/ ListReadsPositions(q)
        PROVE  UNCHANGED stage \/ EndsUnsent(q) \/ Goes(q, "started", "failed")
    BY <2>2 DEF Throws, ListReadsPool, ListReadsPositions
  <2>3. ASSUME NEW q \in Runs,
               ClaimLands(q) \/ UnstakeLands(q) \/ MineLands(q) \/ Refuse(q)
        PROVE  UNCHANGED stage
    BY <2>3 DEF ClaimLands, UnstakeLands, MineLands, Taken, Land, Refuse
  <2> QED BY <2>1, <2>2, <2>3 DEF ScriptNext, ScriptStep, NextBlock, Elsewhere, scriptVars
<1> QED BY <1>1, <1>3, <1>4, <1>5

LEMMA ListInvariant == ScriptSpec /\ []IdsLeft => []ListInv
<1>1. ScriptInv /\ PoolInv /\ PoolInv' /\ IdsLeft /\ ListInv /\ [ScriptNext]_scriptVars
        => ListInv'
  BY CoverStep, ReadStep, UnsentStep, ScriptStepIsPoolStep DEF ListInv
<1> QED BY <1>1, ListInit, ScriptsKeepInv, ScriptsUseThePool, PoolInvariant, PTL DEF ScriptSpec

\* All XNT and all ids that can be given fit u64 together.
XntAndIdsFit ==
  \A f \in [Users -> PositionIds] : SumFunction(InitXnt) + SumFunction(f) <= U64Max

\* What is owed to a position is what the chain pays: the bound of u64 is not met.
LEMMA NothingCutOff ==
  ASSUME PoolInv, ListInv, XntSupply = SumFunction(InitXnt), XntAndIdsFit, NEW s \in Slots
  PROVE  Pending(s) = SatSub(SettledDebt(s), Debt(s))
<1>1. PICK n \in Nat : n = IdsGiven
  BY IdsFacts
<1>2. SumFunction(InitXnt) + n <= U64Max
  BY <1>1, IdsFacts DEF XntAndIdsFit, IdsGiven
<1>3. SettledDebt(s) - Debt(s) <= treasury + n
  BY <1>1, OwedWithinTreasury DEF ListInv
<1>4. xnt \in [Users -> Nat] /\ treasury \in Nat
  BY DEF PoolInv, TypeOK
<1>5. SumFunction(xnt) \in Nat
  BY <1>4, UsersAssumption, SumNat
<1>6. SettledDebt(s) \in Nat /\ Debt(s) \in Nat
  BY SettledDebtNat, StateFacts DEF PoolInv
<1>7. SettledDebt(s) - Debt(s) <= U64Max /\ U64Max \in Nat
  BY <1>2, <1>3, <1>4, <1>5, <1>6, ConstantFacts DEF XntSupply
<1> QED BY <1>6, <1>7 DEF Pending, PendingRewards, SettledDebt, Debt, SatSub, MaxOf, MinOf

\* A unit that was to be had at an earlier accumulator is to be had at a later one.
LEMMA AccumulatedGrows ==
  ASSUME NEW e \in Nat, NEW acc \in Nat, NEW later \in Nat, acc <= later
  PROVE  Accumulated(e, acc) <= Accumulated(e, later)
<1>1. PICK a, b \in Nat : a = Accumulated(e, acc) /\ b = Accumulated(e, later)
  BY AccumulatedFacts
<1>2. PRECISION * a <= e * acc /\ e * later < PRECISION * (b + 1)
  BY <1>1, AccumulatedFacts
<1>3. e * acc <= e * later
  BY ScaleUp
<1>4. PRECISION \in Nat \ {0} /\ e * acc \in Int /\ e * later \in Int
  BY ConstantFacts
<1>5. PRECISION * a \in Int /\ PRECISION * (b + 1) \in Int /\ PRECISION * b \in Int
      /\ PRECISION * (b + 1) = PRECISION * b + PRECISION
  BY <1>1, <1>4
<1>6. PRECISION * a < PRECISION * (b + 1)
  BY <1>2, <1>3, <1>4, <1>5
<1>7. ~ (b + 1 <= a)
  <2> SUFFICES ASSUME b + 1 <= a PROVE FALSE
    OBVIOUS
  <2>1. PRECISION * (b + 1) <= PRECISION * a
    BY <1>1, <1>4, ScaleUp
  <2> QED BY <1>5, <1>6, <2>1
<1> QED BY <1>1, <1>7

\* Between the two reads of list-positions.ts anything may land.  What it lists
\* is open at the second, and no more than claim would pay then: the earlier
\* accumulator is behind, and what is owed never reaches the bound of u64, where
\* the program cuts off and the script does not.  (A position may be owed a unit
\* beyond the XNT there is: so many units as there are ids must fit as well, and
\* no wallet has used up its ids.)
THEOREM ListIsBehind ==
  ASSUME XntAndIdsFit
  PROVE  ScriptSpec /\ []IdsLeft => ListNeverOverstates
<1> DEFINE NoneMade == XntSupply = SumFunction(InitXnt)
           Lists(r) == stage[r] # "done" /\ stage'[r] = "done" /\ view[r].acc # None
           Honest(r) == /\ DOMAIN view'[r].listed = OpenPositions(Jobs[r].wallet)
                        /\ \A s \in DOMAIN view'[r].listed : view'[r].listed[s] <= Pending(s)
<1>1. ASSUME ScriptInv, PoolInv, ListInv, NoneMade, [ScriptNext]_scriptVars, NEW r \in Runs, Lists(r)
      PROVE  Honest(r)
  <2>1. r \in ListRuns /\ view[r].acc \in Nat /\ view[r].acc <= Acc /\ Acc \in Nat
    BY <1>1, StateFacts DEF ListInv, ReadBehind
  <2>2. stage[r] # "sent" /\ stage \in [Runs -> {"off", "started", "ready", "sent", "done", "failed"}]
    BY <1>1, <2>1 DEF ListInv, ListsUnsent, ScriptInv, TxTypeOK
  <2>3. ListReadsPositions(r)
    BY <1>1, <2>2 DEF ScriptNext, ScriptStep, StakeBuilds, ClaimBuilds, UnstakeBuilds,
           MineBuilds, Throws, ListReadsPool, ListReadsPositions, ClaimLands,
           UnstakeLands, MineLands, Taken, Elsewhere, scriptVars, Build, EndsUnsent, Send, Confirm,
           SeeRefusal, GiveUp, Start, Break, LoseTouch, Refuse, Land, NextBlock, Goes
  <2>4. view'[r].listed = [s \in OpenPositions(Jobs[r].wallet) |-> PendingIn(r, positions[s])]
    <3>1. r \in DOMAIN view /\ DOMAIN view[r] = {"positionId", "ix", "acc", "listed"}
      BY <1>1 DEF ScriptInv, ViewInv
    <3> QED BY <2>3, <3>1 DEF ListReadsPositions
  <2>5. ASSUME NEW s \in OpenPositions(Jobs[r].wallet)
        PROVE  PendingIn(r, positions[s]) <= Pending(s)
    <3>1. s \in Slots /\ Weight(s) \in Nat /\ Debt(s) \in Nat
      BY <1>1, StateFacts DEF OpenPositions
    <3>2. PICK a, D \in Nat : a = Accumulated(Weight(s), view[r].acc) /\ D = SettledDebt(s)
      BY <1>1, <2>1, <3>1, AccumulatedFacts, SettledDebtNat DEF PoolInv
    <3>3. D = Accumulated(Weight(s), Acc)
      BY <3>2 DEF SettledDebt, Weight, Acc
    <3>4. a <= D
      BY <2>1, <3>1, <3>2, <3>3, AccumulatedGrows
    <3>5. PendingIn(r, positions[s]) = IF a > Debt(s) THEN a - Debt(s) ELSE 0
      BY <3>2 DEF PendingIn, Accumulated, Weight, Debt
    <3>6. Pending(s) = SatSub(D, Debt(s))
      BY <1>1, <3>1, <3>2, NothingCutOff
    <3> QED BY <3>1, <3>2, <3>4, <3>5, <3>6 DEF SatSub, MaxOf
  <2> QED BY <2>4, <2>5
<1>2. ScriptInv /\ PoolInv /\ ListInv /\ NoneMade /\ [ScriptNext]_scriptVars
        => [\A r \in Runs : Lists(r) => Honest(r)]_scriptVars
  BY <1>1
<1>3. ScriptSpec /\ []IdsLeft => [][\A r \in Runs : Lists(r) => Honest(r)]_scriptVars
  BY <1>2, ScriptsKeepInv, ListInvariant, ScriptsUseThePool, PoolInvariant, SupplyKept, PTL
     DEF ScriptSpec
<1> QED BY <1>3 DEF ListNeverOverstates

-----------------------------------------------------------------------------
(***************************************************************************)
(* WalletScripts: two runs that need the same token account.               *)
(***************************************************************************)
USE WalletAssumption

WalletTypeOK ==
  /\ TxTypeOK
  /\ lamports \in [Clusters -> Nat]
  /\ tokens \in [Clusters -> Nat]
  /\ verdict \in [Runs -> {"none", "have", "throws", "unread", "paid", "unsigned"}]

\* The inductive invariant: what is recorded is there, the books balance, and
\* success of a wrapping is of one that landed.
WalletInv ==
  /\ WalletTypeOK
  /\ WrappedIsSpendable
  /\ SpentIsWrapped
  /\ \A w \in Of("wrap-sol.ts") : stage[w] = "done" => tx[w].status = "landed"
  /\ \A r \in Runs : verdict[r] \in {"have", "paid"} => r \in Of("mine.ts")

LEMMA EndpointsAreClusters == \A r \in Runs : Endpoint(r) \in Clusters
  BY DEF getConnection, wrapConnection, FirstSet, Endpoint

LEMMA BooksAreFinite ==
  ASSUME NEW c
  PROVE  /\ IsFiniteSet(Wraps(c)) /\ Cardinality(Wraps(c)) \in Nat
         /\ IsFiniteSet(Payments(c)) /\ Cardinality(Payments(c)) \in Nat
<1>1. Wraps(c) \subseteq Runs /\ Payments(c) \subseteq Runs
  BY DEF Wraps, Payments, Of
<1> QED BY <1>1, FS_Subset, FS_CardinalityType

LEMMA WalletInvInit == WalletInit => WalletInv
<1> SUFFICES ASSUME WalletInit PROVE WalletInv
  OBVIOUS
<1>1. ASSUME NEW c \in Clusters
      PROVE  tokens[c] + Cost * Cardinality(Payments(c)) = Amount * Cardinality(Wraps(c))
  <2>1. Payments(c) = {} /\ Wraps(c) = {} /\ tokens[c] = 0
    BY DEF WalletInit, TxInit, NoTx, Payments, Wraps, Of
  <2> QED BY <2>1, FS_EmptySet
<1> QED BY <1>1, TxTypeInit
        DEF WalletInit, WalletInv, WalletTypeOK, WrappedIsSpendable, SpentIsWrapped, TxInit,
            NoTx, Of

\* The books of a cluster are closed to a step that neither wraps nor pays there.
LEMMA BooksKept ==
  ASSUME WalletInv, NEW c \in Clusters, tokens'[c] = tokens[c],
         \A w \in Of("wrap-sol.ts") : Endpoint(w) = c =>
           (tx'[w].status = "landed" <=> tx[w].status = "landed"),
         \A m \in Of("mine.ts") : Endpoint(m) = c =>
           (verdict'[m] = "paid" <=> verdict[m] = "paid")
  PROVE  tokens'[c] + Cost * Cardinality(Payments(c)') = Amount * Cardinality(Wraps(c)')
<1>1. Payments(c)' = Payments(c) /\ Wraps(c)' = Wraps(c)
  BY DEF Payments, Wraps, Endpoint, Of
<1> QED BY <1>1 DEF WalletInv, SpentIsWrapped

\* What is done for the token account is a step of a script or of the cluster.
LEMMA WalletStepIsTxStep == [WalletNext]_walletVars => [TxNext]_txVars
  BY DEF WalletNext, walletVars, TxNext, txVars, WalletStep, Step, LooksFirst,
         FirstLookFails, CreationLands, LooksAgain, SecondLookFails, Pays, WrapReads,
         WrapLands, Break, Of

\* Reading and waiting change no coins.
LEMMA ScriptsKeepWalletInv ==
  ASSUME WalletInv, TxTypeOK', NEW r \in Runs,
         WalletStep(r) \/ FirstLookFails(r) \/ SecondLookFails(r)
  PROVE  WalletInv'
<1>1. /\ UNCHANGED <<lamports, tokens>>
      /\ \A q \in Runs : tx'[q].status = "landed" <=> tx[q].status = "landed"
  BY DEF WalletInv, WalletTypeOK, TxTypeOK, WalletStep, FirstLookFails, SecondLookFails,
         LooksFirst, LooksAgain, WrapReads, Build, EndsUnsent, Goes, Send, Confirm,
         SeeRefusal, GiveUp, NoTx
<1>2. /\ verdict' \in [Runs -> {"none", "have", "throws", "unread", "paid", "unsigned"}]
      /\ \A q \in Runs : verdict'[q] = "paid" <=> verdict[q] = "paid"
      /\ \A q \in Runs : verdict'[q] \in {"have", "paid"} => q \in Of("mine.ts")
  BY DEF WalletInv, WalletTypeOK, WalletStep, FirstLookFails, SecondLookFails,
         LooksFirst, LooksAgain, WrapReads, Decides
<1>3. ASSUME NEW w \in Of("wrap-sol.ts"), stage'[w] = "done"
      PROVE  tx'[w].status = "landed"
  BY <1>3 DEF WalletInv, WalletTypeOK, TxTypeOK, WalletStep, FirstLookFails,
         SecondLookFails, LooksFirst, LooksAgain, WrapReads, Build, EndsUnsent, Goes, Send,
         Confirm, SeeRefusal, GiveUp, Of
<1>4. SpentIsWrapped'
  BY <1>1, <1>2, BooksKept DEF SpentIsWrapped, Of
<1> QED
  BY <1>1, <1>2, <1>3, <1>4 DEF WalletInv, WalletTypeOK, WrappedIsSpendable

LEMMA OthersKeepWalletInv ==
  ASSUME WalletInv, TxTypeOK', UNCHANGED <<lamports, tokens, verdict>>,
         \/ NextBlock
         \/ \E r \in Runs : Start(r) \/ LoseTouch(r) \/ Refuse(r) \/ Break(r)
         \/ \E r \in Runs : CreationLands(r)
  PROVE  WalletInv'
<1>1. \A w \in Of("wrap-sol.ts") :
        tx'[w].status = "landed" <=> tx[w].status = "landed"
  BY DEF WalletInv, WalletTypeOK, TxTypeOK, NextBlock, Start, LoseTouch, Refuse, Break,
         CreationLands, Land, IsOpen, Goes, Of
<1>2. \A w \in Of("wrap-sol.ts") : stage'[w] = "done" => tx'[w].status = "landed"
  BY DEF WalletInv, WalletTypeOK, TxTypeOK, NextBlock, Start, LoseTouch, Refuse, Break,
         CreationLands, Land, IsOpen, Goes, Of
<1>3. SpentIsWrapped'
  BY <1>1, BooksKept DEF SpentIsWrapped
<1> QED
  BY <1>2, <1>3 DEF WalletInv, WalletTypeOK, WrappedIsSpendable

LEMMA PaysKeepsWalletInv ==
  ASSUME WalletInv, TxTypeOK', NEW r \in Runs, Pays(r)
  PROVE  WalletInv'
<1> DEFINE here == Endpoint(r)
<1>1. /\ r \in Of("mine.ts") /\ verdict[r] = "have" /\ verdict'[r] = "paid"
      /\ \A q \in Runs : q # r => verdict'[q] = verdict[q]
      /\ here \in Clusters
  BY EndpointsAreClusters DEF WalletInv, WalletTypeOK, Pays
<1>2. WalletTypeOK' /\ WrappedIsSpendable'
  BY EndpointsAreClusters DEF WalletInv, WalletTypeOK, WrappedIsSpendable, Pays
<1>3. /\ tokens'[here] = tokens[here] - Cost /\ tokens[here] \in Nat
      /\ \A c \in Clusters : c # here => tokens'[c] = tokens[c]
      /\ UNCHANGED <<stage, tx>>
  BY <1>1 DEF Pays, WalletInv, WalletTypeOK
<1>4. tokens'[here] + Cost * Cardinality(Payments(here)') = Amount * Cardinality(Wraps(here)')
  <2>1. Wraps(here)' = Wraps(here)
    BY <1>3 DEF Wraps, Endpoint, Of
  <2>2. Payments(here)' = Payments(here) \cup {r} /\ r \notin Payments(here)
    BY <1>1 DEF Payments, Endpoint, Of
  <2>3. PICK n \in Nat : n = Cardinality(Payments(here)) /\ Cardinality(Payments(here)') = n + 1
    BY <2>2, BooksAreFinite, FS_AddElement
  <2>4. tokens[here] + Cost * n = Amount * Cardinality(Wraps(here))
    BY <1>1, <2>3 DEF WalletInv, SpentIsWrapped
  <2>5. Cost * (n + 1) = Cost * n + Cost /\ Cost * n \in Int
    OBVIOUS
  <2>6. (tokens[here] - Cost) + Cost * (n + 1) = tokens[here] + Cost * n
    BY <1>3, <2>5
  <2> QED BY <1>3, <2>1, <2>3, <2>4, <2>6
<1>5. ASSUME NEW c \in Clusters, c # here
      PROVE  tokens'[c] + Cost * Cardinality(Payments(c)') = Amount * Cardinality(Wraps(c)')
  BY <1>1, <1>3, <1>5, BooksKept DEF Of
<1>6. SpentIsWrapped'
  BY <1>4, <1>5 DEF SpentIsWrapped
<1> QED
  BY <1>1, <1>2, <1>3, <1>6 DEF WalletInv, Of

LEMMA WrapKeepsWalletInv ==
  ASSUME WalletInv, TxTypeOK', NEW r \in Runs, WrapLands(r)
  PROVE  WalletInv'
<1> DEFINE here == Endpoint(r)
<1>1. /\ r \in Of("wrap-sol.ts") /\ here \in Clusters
      /\ tx[r].status = "pending" /\ tx'[r].status = "landed"
      /\ \A q \in Runs : q # r => tx'[q] = tx[q]
  BY EndpointsAreClusters DEF WrapLands, Land, IsOpen, WalletInv, WalletTypeOK, TxTypeOK
<1>2. /\ tokens' = [tokens EXCEPT ![here] = lamports[here] + Amount]
      /\ lamports' = [lamports EXCEPT ![here] = @ + Amount]
      /\ UNCHANGED <<stage, verdict>>
  BY <1>1 DEF WrapLands, Land
<1>3. /\ WalletTypeOK' /\ WrappedIsSpendable'
      /\ tokens'[here] = tokens[here] + Amount /\ tokens[here] \in Nat
      /\ \A c \in Clusters : c # here => tokens'[c] = tokens[c]
  BY <1>1, <1>2 DEF WalletInv, WalletTypeOK, WrappedIsSpendable
<1>4. \A w \in Of("wrap-sol.ts") : stage'[w] = "done" => tx'[w].status = "landed"
  BY <1>1, <1>2 DEF WalletInv, Of
<1>5. tokens'[here] + Cost * Cardinality(Payments(here)') = Amount * Cardinality(Wraps(here)')
  <2>1. Payments(here)' = Payments(here)
    BY <1>2 DEF Payments, Endpoint, Of
  <2>2. Wraps(here)' = Wraps(here) \cup {r} /\ r \notin Wraps(here)
    BY <1>1 DEF Wraps, Endpoint, Of
  <2>3. PICK n \in Nat : n = Cardinality(Wraps(here)) /\ Cardinality(Wraps(here)') = n + 1
    BY <2>2, BooksAreFinite, FS_AddElement
  <2>4. PICK p \in Nat : p = Cardinality(Payments(here))
    BY BooksAreFinite
  <2>5. tokens[here] + Cost * p = Amount * n
    BY <1>1, <2>3, <2>4 DEF WalletInv, SpentIsWrapped
  <2>6. Amount * (n + 1) = Amount * n + Amount /\ Amount * n \in Int /\ Cost * p \in Int
    OBVIOUS
  <2>7. (tokens[here] + Amount) + Cost * p = Amount * (n + 1)
    BY <1>3, <2>5, <2>6
  <2> QED BY <1>3, <2>1, <2>3, <2>4, <2>7
<1>6. ASSUME NEW c \in Clusters, c # here
      PROVE  tokens'[c] + Cost * Cardinality(Payments(c)') = Amount * Cardinality(Wraps(c)')
  BY <1>1, <1>2, <1>3, <1>6, BooksKept DEF Of
<1>7. SpentIsWrapped'
  BY <1>5, <1>6 DEF SpentIsWrapped
<1> QED
  BY <1>2, <1>3, <1>4, <1>7 DEF WalletInv

LEMMA WalletInvariant == WalletSpec => []WalletInv
<1>1. WalletInv /\ [WalletNext]_walletVars => WalletInv'
  <2> SUFFICES ASSUME WalletInv, [WalletNext]_walletVars PROVE WalletInv'
    OBVIOUS
  <2>1. TxTypeOK'
    BY WalletStepIsTxStep, TxTypeStep DEF WalletInv, WalletTypeOK
  <2>2. CASE UNCHANGED walletVars
    <3>1. SpentIsWrapped'
      BY <2>2, BooksKept DEF SpentIsWrapped, walletVars
    <3> QED BY <2>2, <3>1 DEF WalletInv, WalletTypeOK, TxTypeOK, WrappedIsSpendable, walletVars
  <2>3. CASE WalletNext
    <3>1. CASE NextBlock /\ UNCHANGED <<native, ata, lamports, tokens, verdict>>
      BY <3>1, <2>1, OthersKeepWalletInv
    <3>2. ASSUME NEW r \in Runs,
                 WalletStep(r) \/ FirstLookFails(r) \/ SecondLookFails(r)
          PROVE  WalletInv'
      BY <3>2, <2>1, ScriptsKeepWalletInv
    <3>3. ASSUME NEW r \in Runs, Pays(r) PROVE WalletInv'
      BY <3>3, <2>1, PaysKeepsWalletInv
    <3>4. ASSUME NEW r \in Runs, WrapLands(r) PROVE WalletInv'
      BY <3>4, <2>1, WrapKeepsWalletInv
    <3>5. ASSUME NEW r \in Runs, CreationLands(r) PROVE WalletInv'
      BY <3>5, <2>1, OthersKeepWalletInv DEF CreationLands
    <3>6. ASSUME NEW r \in Runs, Start(r) \/ LoseTouch(r) \/ Refuse(r) \/ Break(r),
                 UNCHANGED <<native, ata, lamports, tokens, verdict>>
          PROVE  WalletInv'
      BY <3>6, <2>1, OthersKeepWalletInv
    <3> QED BY <2>3, <3>1, <3>2, <3>3, <3>4, <3>5, <3>6 DEF WalletNext
  <2> QED BY <2>2, <2>3
<1> QED BY <1>1, WalletInvInit, PTL DEF WalletSpec

\* Wrapping and mining, in whatever order and number, leave no coins in the token
\* account that cannot be spent.
THEOREM WrappedSpendable == WalletSpec => []WrappedIsSpendable
<1>1. WalletInv => WrappedIsSpendable
  BY DEF WalletInv
<1> QED BY <1>1, WalletInvariant, PTL

\* On every cluster the wallet has what it has wrapped there, less what it has
\* paid, whatever is lost, refused or started again, and whatever the environments.
THEOREM SpentWasWrapped == WalletSpec => []SpentIsWrapped
<1>1. WalletInv => SpentIsWrapped
  BY DEF WalletInv
<1> QED BY <1>1, WalletInvariant, PTL

\* An environment that does not mislead sends both scripts to one cluster.
LEMMA SameCluster ==
  ASSUME NEW r \in Runs, ~ Misleads(Env[r])
  PROVE  wrapConnection(Env[r]) = getConnection(Env[r])
  BY DEF Misleads, wrapConnection, getConnection, FirstSet

\* In any environment but one in which RPC_URL or SOLANA_URL misleads one of the
\* two scripts, what wrap-sol.ts reports as wrapped serves mine.ts, if a wrapping
\* is worth a run.
THEOREM WrapServes ==
  ASSUME Cost <= Amount
  PROVE  WalletSpec => []WrapServesMine
<1>1. ASSUME WalletInv PROVE WrapServesMine
  <2> SUFFICES ASSUME NEW w \in Of("wrap-sol.ts"), NEW m \in Of("mine.ts"),
                      Env[w] = Env[m], ~ Misleads(Env[m]), stage[w] = "done",
                      Payments(Endpoint(m)) = {}
               PROVE  tokens[Endpoint(m)] >= Cost
    BY DEF WrapServesMine
  <2> DEFINE here == Endpoint(m)
  <2>1. w \in Runs /\ m \in Runs /\ here \in Clusters
    BY EndpointsAreClusters DEF Of
  <2>2. Endpoint(w) = here
    BY <2>1, SameCluster DEF Endpoint, Of
  <2>3. w \in Wraps(here)
    BY <1>1, <2>2 DEF WalletInv, Wraps
  <2>4. PICK n \in Nat : n = Cardinality(Wraps(here)) /\ n # 0
    BY <2>3, BooksAreFinite, FS_EmptySet
  <2>5. tokens[here] + Cost * Cardinality(Payments(here)) = Amount * n /\ tokens[here] \in Nat
    BY <1>1, <2>1, <2>4 DEF WalletInv, SpentIsWrapped, WalletTypeOK
  <2>6. Cardinality(Payments(here)) = 0
    BY FS_EmptySet
  <2>7. Amount <= Amount * n
    BY <2>4
  <2> QED BY <2>5, <2>6, <2>7
<1> QED BY <1>1, WalletInvariant, PTL
HIDE WalletAssumption

-----------------------------------------------------------------------------
(***************************************************************************)
(* Calls: what a builder of client.ts makes and what the program finds in  *)
(* it, for any wallets, vaults, numbers and chains.                        *)
(***************************************************************************)
(***************************************************************************)
(* Instructions: the program finds each account under the name its context *)
(* has for the place in the list.                                          *)
(***************************************************************************)
LEMMA ContextFields ==
  /\ DOMAIN Contexts = {"initialize_global", "initialize_treasury_vault",
                        "initialize_staking_pool", "mine_with_rig", "stake", "claim", "unstake",
                        "activate_boost", "upsert_boost_config", "apply_ranking_results"}
  /\ \A name \in DOMAIN Contexts :
       \A m, n \in DOMAIN Contexts[name] :
         Contexts[name][m].field = Contexts[name][n].field => m = n
<1> USE DEF Mut, Signer, Account
<1>1. DOMAIN Contexts = {"initialize_global", "initialize_treasury_vault",
                         "initialize_staking_pool", "mine_with_rig", "stake", "claim", "unstake",
                         "activate_boost", "upsert_boost_config", "apply_ranking_results"}
  BY DEF Contexts
<1> DEFINE Distinct(name) ==
             \A m, n \in DOMAIN Contexts[name] :
               Contexts[name][m].field = Contexts[name][n].field => m = n
<1>2. Distinct("initialize_global") /\ Distinct("initialize_treasury_vault")
  BY DEF Contexts
<1>3. Distinct("initialize_staking_pool")
  BY DEF Contexts
<1>4. Distinct("mine_with_rig")
  BY DEF Contexts
<1>5. Distinct("stake")
  BY DEF Contexts
<1>6. Distinct("claim") /\ Distinct("unstake")
  BY DEF Contexts
<1>7. Distinct("activate_boost") /\ Distinct("upsert_boost_config")
      /\ Distinct("apply_ranking_results")
  BY DEF Contexts
<1> HIDE DEF Distinct
<1>8. \A name \in DOMAIN Contexts : Distinct(name)
  BY <1>1, <1>2, <1>3, <1>4, <1>5, <1>6, <1>7
<1> QED BY <1>1, <1>8 DEF Distinct

LEMMA KeysByName ==
  ASSUME NEW i, i.name \in DOMAIN Contexts, NEW n \in DOMAIN Contexts[i.name],
         NEW f, f = Contexts[i.name][n].field
  PROVE  AccountsOf(i)[f] = i.keys[n].pubkey
<1> DEFINE fields == Contexts[i.name]
<1>1. \A k \in DOMAIN fields : fields[k].field = f => k = n
  BY ContextFields
<1> HIDE DEF fields
<1>2. f \in {fields[k].field : k \in DOMAIN fields}
  BY DEF fields
<1>3. fields[n].field = f /\ n \in DOMAIN fields
  BY DEF fields
<1>4. (CHOOSE k \in DOMAIN fields : fields[k].field = f) = n
  BY <1>1, <1>3
<1>5. AccountsOf(i)[f] = i.keys[CHOOSE k \in DOMAIN fields : fields[k].field = f].pubkey
  BY <1>2 DEF AccountsOf, fields
<1> QED BY <1>4, <1>5

-----------------------------------------------------------------------------
(***************************************************************************)
(* What each builder makes is what was asked for.                          *)
(***************************************************************************)
IsMeant(name, p) ==
  LET meant == MeantAccounts(name, p)
  IN \A f \in DOMAIN meant : AccountsOf(Built(name, p))[f] = meant[f]

LEMMA GlobalIsMeant ==
  ASSUME NEW p
  PROVE  IsMeant("initialize_global", p)
<1> DEFINE i == ixInitializeGlobal(p)
           keys == ixInitializeGlobal(p).keys
           c == Contexts["initialize_global"]
           meant == MeantAccounts("initialize_global", p)
<1>1. Built("initialize_global", p) = i
  BY DEF Built
<1>2. i.name = "initialize_global" /\ i.keys = keys
      /\ "initialize_global" \in DOMAIN Contexts
  BY ContextFields DEF ixInitializeGlobal, ix
<1>3. /\ keys[1].pubkey = meant["global_config"] /\ keys[2].pubkey = meant["payer"]
      /\ keys[3].pubkey = meant["xnt_mint"] /\ keys[4].pubkey = meant["game_mint"]
  BY DEF ixInitializeGlobal, ix, Signing, Writable, ReadOnly, MeantAccounts, findGlobalConfig
<1>4. /\ DOMAIN c = 1 .. 6 /\ c[1].field = "global_config" /\ c[2].field = "payer"
      /\ c[3].field = "xnt_mint" /\ c[4].field = "game_mint"
  BY DEF Contexts, Signer, Mut, Account
<1>5. DOMAIN meant = {"global_config", "payer", "xnt_mint", "game_mint"}
  BY DEF MeantAccounts
<1>6. c = Contexts[i.name]
  BY <1>2
<1> HIDE DEF i, keys, c, meant
<1>7. 1 .. 4 \subseteq DOMAIN c /\ \A f \in DOMAIN meant : \E n \in 1 .. 4 : c[n].field = f
  BY <1>4, <1>5
<1>8. \A n \in 1 .. 4 : keys[n].pubkey = meant[c[n].field]
  BY <1>3, <1>4
<1>9. ASSUME NEW f \in DOMAIN meant
      PROVE  AccountsOf(i)[f] = meant[f]
  <2>1. PICK n \in 1 .. 4 : c[n].field = f
    BY <1>7
  <2>2. n \in DOMAIN Contexts[i.name] /\ f = Contexts[i.name][n].field
    BY <1>6, <1>7, <2>1
  <2>3. AccountsOf(i)[f] = i.keys[n].pubkey
    BY <1>2, <2>2, KeysByName
  <2> QED BY <1>2, <1>8, <2>1, <2>3
<1> QED BY <1>1, <1>9 DEF IsMeant, meant

LEMMA TreasuryIsMeant ==
  ASSUME NEW p
  PROVE  IsMeant("initialize_treasury_vault", p)
<1> DEFINE i == ixInitializeTreasuryVault(p)
           keys == ixInitializeTreasuryVault(p).keys
           c == Contexts["initialize_treasury_vault"]
           meant == MeantAccounts("initialize_treasury_vault", p)
<1>1. Built("initialize_treasury_vault", p) = i
  BY DEF Built
<1>2. i.name = "initialize_treasury_vault" /\ i.keys = keys
      /\ "initialize_treasury_vault" \in DOMAIN Contexts
  BY ContextFields DEF ixInitializeTreasuryVault, ix
<1>3. /\ keys[1].pubkey = meant["admin"] /\ keys[2].pubkey = meant["global_config"]
      /\ keys[3].pubkey = meant["xnt_mint"] /\ keys[4].pubkey = meant["treasury_xnt_vault"]
  BY DEF ixInitializeTreasuryVault, ix, Signing, Writable, ReadOnly, MeantAccounts,
         findGlobalConfig
<1>4. /\ DOMAIN c = 1 .. 6 /\ c[1].field = "admin" /\ c[2].field = "global_config"
      /\ c[3].field = "xnt_mint" /\ c[4].field = "treasury_xnt_vault"
  BY DEF Contexts, Signer, Mut, Account
<1>5. DOMAIN meant = {"admin", "global_config", "xnt_mint", "treasury_xnt_vault"}
  BY DEF MeantAccounts
<1>6. c = Contexts[i.name]
  BY <1>2
<1> HIDE DEF i, keys, c, meant
<1>7. 1 .. 4 \subseteq DOMAIN c /\ \A f \in DOMAIN meant : \E n \in 1 .. 4 : c[n].field = f
  BY <1>4, <1>5
<1>8. \A n \in 1 .. 4 : keys[n].pubkey = meant[c[n].field]
  BY <1>3, <1>4
<1>9. ASSUME NEW f \in DOMAIN meant
      PROVE  AccountsOf(i)[f] = meant[f]
  <2>1. PICK n \in 1 .. 4 : c[n].field = f
    BY <1>7
  <2>2. n \in DOMAIN Contexts[i.name] /\ f = Contexts[i.name][n].field
    BY <1>6, <1>7, <2>1
  <2>3. AccountsOf(i)[f] = i.keys[n].pubkey
    BY <1>2, <2>2, KeysByName
  <2> QED BY <1>2, <1>8, <2>1, <2>3
<1> QED BY <1>1, <1>9 DEF IsMeant, meant

LEMMA PoolIsMeant ==
  ASSUME NEW p
  PROVE  IsMeant("initialize_staking_pool", p)
<1> DEFINE i == ixInitializeStakingPool(p)
           keys == ixInitializeStakingPool(p).keys
           c == Contexts["initialize_staking_pool"]
           meant == MeantAccounts("initialize_staking_pool", p)
<1>1. Built("initialize_staking_pool", p) = i
  BY DEF Built
<1>2. i.name = "initialize_staking_pool" /\ i.keys = keys
      /\ "initialize_staking_pool" \in DOMAIN Contexts
  BY ContextFields DEF ixInitializeStakingPool, ix
<1>3. /\ keys[1].pubkey = meant["admin"] /\ keys[2].pubkey = meant["global_config"]
      /\ keys[3].pubkey = meant["staking_pool"] /\ keys[4].pubkey = meant["game_mint"]
      /\ keys[5].pubkey = meant["xnt_mint"] /\ keys[6].pubkey = meant["staking_vault"]
  BY DEF ixInitializeStakingPool, ix, Signing, Writable, ReadOnly, MeantAccounts,
         findGlobalConfig, findStakingPool
<1>4. /\ DOMAIN c = 1 .. 9 /\ c[1].field = "admin" /\ c[2].field = "global_config"
      /\ c[3].field = "staking_pool" /\ c[4].field = "game_mint" /\ c[5].field = "xnt_mint"
      /\ c[6].field = "staking_vault"
  BY DEF Contexts, Signer, Mut, Account
<1>5. DOMAIN meant = {"admin", "global_config", "staking_pool", "game_mint", "xnt_mint",
                      "staking_vault"}
  BY DEF MeantAccounts
<1>6. c = Contexts[i.name]
  BY <1>2
<1> HIDE DEF i, keys, c, meant
<1>7. 1 .. 6 \subseteq DOMAIN c /\ \A f \in DOMAIN meant : \E n \in 1 .. 6 : c[n].field = f
  BY <1>4, <1>5
<1>8. \A n \in 1 .. 6 : keys[n].pubkey = meant[c[n].field]
  BY <1>3, <1>4
<1>9. ASSUME NEW f \in DOMAIN meant
      PROVE  AccountsOf(i)[f] = meant[f]
  <2>1. PICK n \in 1 .. 6 : c[n].field = f
    BY <1>7
  <2>2. n \in DOMAIN Contexts[i.name] /\ f = Contexts[i.name][n].field
    BY <1>6, <1>7, <2>1
  <2>3. AccountsOf(i)[f] = i.keys[n].pubkey
    BY <1>2, <2>2, KeysByName
  <2> QED BY <1>2, <1>8, <2>1, <2>3
<1> QED BY <1>1, <1>9 DEF IsMeant, meant

LEMMA MineIsMeant ==
  ASSUME NEW p
  PROVE  IsMeant("mine_with_rig", p)
<1> DEFINE i == ixMineWithRig(p)
           keys == ixMineWithRig(p).keys
           c == Contexts["mine_with_rig"]
           meant == MeantAccounts("mine_with_rig", p)
<1>1. Built("mine_with_rig", p) = i
  BY DEF Built
<1>2. i.name = "mine_with_rig" /\ i.keys = keys
      /\ "mine_with_rig" \in DOMAIN Contexts
  BY ContextFields DEF ixMineWithRig, ix
<1>3. /\ keys[1].pubkey = meant["payer"] /\ keys[2].pubkey = meant["global_config"]
      /\ keys[3].pubkey = meant["staking_pool"] /\ keys[4].pubkey = meant["game_mint"]
      /\ keys[5].pubkey = meant["user_game_account"]
      /\ keys[6].pubkey = meant["user_xnt_account"]
      /\ keys[7].pubkey = meant["treasury_xnt_vault"] /\ keys[8].pubkey = meant["user_account"]
  BY DEF ixMineWithRig, ix, Signing, Writable, ReadOnly, MeantAccounts, findGlobalConfig,
         findStakingPool, findUserAccount
<1>4. /\ DOMAIN c = 1 .. 12 /\ c[1].field = "payer" /\ c[2].field = "global_config"
      /\ c[3].field = "staking_pool" /\ c[4].field = "game_mint"
      /\ c[5].field = "user_game_account" /\ c[6].field = "user_xnt_account"
      /\ c[7].field = "treasury_xnt_vault" /\ c[8].field = "user_account"
  BY DEF Contexts, Signer, Mut, Account
<1>5. DOMAIN meant = {"payer", "global_config", "staking_pool", "game_mint",
                      "user_game_account", "user_xnt_account",
                      "treasury_xnt_vault", "user_account"}
  BY DEF MeantAccounts
<1>6. c = Contexts[i.name]
  BY <1>2
<1> HIDE DEF i, keys, c, meant
<1>7. 1 .. 8 \subseteq DOMAIN c /\ \A f \in DOMAIN meant : \E n \in 1 .. 8 : c[n].field = f
  BY <1>4, <1>5
<1>8. \A n \in 1 .. 8 : keys[n].pubkey = meant[c[n].field]
  BY <1>3, <1>4
<1>9. ASSUME NEW f \in DOMAIN meant
      PROVE  AccountsOf(i)[f] = meant[f]
  <2>1. PICK n \in 1 .. 8 : c[n].field = f
    BY <1>7
  <2>2. n \in DOMAIN Contexts[i.name] /\ f = Contexts[i.name][n].field
    BY <1>6, <1>7, <2>1
  <2>3. AccountsOf(i)[f] = i.keys[n].pubkey
    BY <1>2, <2>2, KeysByName
  <2> QED BY <1>2, <1>8, <2>1, <2>3
<1> QED BY <1>1, <1>9 DEF IsMeant, meant

LEMMA ClaimIsMeant ==
  ASSUME NEW p
  PROVE  IsMeant("claim", p)
<1> DEFINE i == ixClaim(p)
           keys == ixClaim(p).keys
           c == Contexts["claim"]
           meant == MeantAccounts("claim", p)
<1>1. Built("claim", p) = i
  BY DEF Built
<1>2. i.name = "claim" /\ i.keys = keys
      /\ "claim" \in DOMAIN Contexts
  BY ContextFields DEF ixClaim, ix
<1>3. /\ keys[1].pubkey = meant["owner"] /\ keys[2].pubkey = meant["global_config"]
      /\ keys[3].pubkey = meant["staking_pool"] /\ keys[4].pubkey = meant["treasury_xnt_vault"]
      /\ keys[5].pubkey = meant["user_xnt_account"]
      /\ keys[6].pubkey = meant["user_stake_position"]
  BY DEF ixClaim, ix, Signing, Writable, ReadOnly, MeantAccounts, findGlobalConfig,
         findStakingPool, PositionNamed, PositionAddress, findUserStake, findUserStakePosition
<1>4. /\ DOMAIN c = 1 .. 7 /\ c[1].field = "owner" /\ c[2].field = "global_config"
      /\ c[3].field = "staking_pool" /\ c[4].field = "treasury_xnt_vault"
      /\ c[5].field = "user_xnt_account" /\ c[6].field = "user_stake_position"
  BY DEF Contexts, Signer, Mut, Account
<1>5. DOMAIN meant = {"owner", "global_config", "staking_pool", "treasury_xnt_vault",
                      "user_xnt_account", "user_stake_position"}
  BY DEF MeantAccounts
<1>6. c = Contexts[i.name]
  BY <1>2
<1> HIDE DEF i, keys, c, meant
<1>7. 1 .. 6 \subseteq DOMAIN c /\ \A f \in DOMAIN meant : \E n \in 1 .. 6 : c[n].field = f
  BY <1>4, <1>5
<1>8. \A n \in 1 .. 6 : keys[n].pubkey = meant[c[n].field]
  BY <1>3, <1>4
<1>9. ASSUME NEW f \in DOMAIN meant
      PROVE  AccountsOf(i)[f] = meant[f]
  <2>1. PICK n \in 1 .. 6 : c[n].field = f
    BY <1>7
  <2>2. n \in DOMAIN Contexts[i.name] /\ f = Contexts[i.name][n].field
    BY <1>6, <1>7, <2>1
  <2>3. AccountsOf(i)[f] = i.keys[n].pubkey
    BY <1>2, <2>2, KeysByName
  <2> QED BY <1>2, <1>8, <2>1, <2>3
<1> QED BY <1>1, <1>9 DEF IsMeant, meant

LEMMA UnstakeIsMeant ==
  ASSUME NEW p
  PROVE  IsMeant("unstake", p)
<1> DEFINE i == ixUnstake(p)
           keys == ixUnstake(p).keys
           c == Contexts["unstake"]
           meant == MeantAccounts("unstake", p)
<1>1. Built("unstake", p) = i
  BY DEF Built
<1>2. i.name = "unstake" /\ i.keys = keys
      /\ "unstake" \in DOMAIN Contexts
  BY ContextFields DEF ixUnstake, ix
<1>3. /\ keys[1].pubkey = meant["owner"] /\ keys[2].pubkey = meant["global_config"]
      /\ keys[3].pubkey = meant["staking_pool"] /\ keys[4].pubkey = meant["staking_vault"]
      /\ keys[5].pubkey = meant["treasury_xnt_vault"]
      /\ keys[6].pubkey = meant["user_game_account"]
      /\ keys[7].pubkey = meant["user_xnt_account"]
      /\ keys[8].pubkey = meant["user_stake_position"]
  BY DEF ixUnstake, ix, Signing, Writable, ReadOnly, MeantAccounts, findGlobalConfig,
         findStakingPool, PositionNamed, PositionAddress, findUserStake, findUserStakePosition
<1>4. /\ DOMAIN c = 1 .. 9 /\ c[1].field = "owner" /\ c[2].field = "global_config"
      /\ c[3].field = "staking_pool" /\ c[4].field = "staking_vault"
      /\ c[5].field = "treasury_xnt_vault" /\ c[6].field = "user_game_account"
      /\ c[7].field = "user_xnt_account" /\ c[8].field = "user_stake_position"
  BY DEF Contexts, Signer, Mut, Account
<1>5. DOMAIN meant = {"owner", "global_config", "staking_pool", "staking_vault",
                      "treasury_xnt_vault", "user_game_account",
                      "user_xnt_account", "user_stake_position"}
  BY DEF MeantAccounts
<1>6. c = Contexts[i.name]
  BY <1>2
<1> HIDE DEF i, keys, c, meant
<1>7. 1 .. 8 \subseteq DOMAIN c /\ \A f \in DOMAIN meant : \E n \in 1 .. 8 : c[n].field = f
  BY <1>4, <1>5
<1>8. \A n \in 1 .. 8 : keys[n].pubkey = meant[c[n].field]
  BY <1>3, <1>4
<1>9. ASSUME NEW f \in DOMAIN meant
      PROVE  AccountsOf(i)[f] = meant[f]
  <2>1. PICK n \in 1 .. 8 : c[n].field = f
    BY <1>7
  <2>2. n \in DOMAIN Contexts[i.name] /\ f = Contexts[i.name][n].field
    BY <1>6, <1>7, <2>1
  <2>3. AccountsOf(i)[f] = i.keys[n].pubkey
    BY <1>2, <2>2, KeysByName
  <2> QED BY <1>2, <1>8, <2>1, <2>3
<1> QED BY <1>1, <1>9 DEF IsMeant, meant

LEMMA ActivateIsMeant ==
  ASSUME NEW p, p.boostId \in 0 .. U8Max
  PROVE  IsMeant("activate_boost", p)
<1> DEFINE i == ixActivateBoost(p)
           keys == ixActivateBoost(p).keys
           c == Contexts["activate_boost"]
           meant == MeantAccounts("activate_boost", p)
<1>1. p.boostId % (U8Max + 1) = p.boostId
  BY CallsAssumption
<1>2. Built("activate_boost", p) = i
  BY DEF Built
<1>3. i.name = "activate_boost" /\ i.keys = keys
      /\ "activate_boost" \in DOMAIN Contexts
  BY ContextFields DEF ixActivateBoost, ix
<1>4. /\ keys[1].pubkey = meant["user"] /\ keys[2].pubkey = meant["global_config"]
      /\ keys[3].pubkey = meant["boost_config"] /\ keys[4].pubkey = meant["user_account"]
  BY <1>1 DEF ixActivateBoost, ix, Signing, Writable, ReadOnly, MeantAccounts,
         findGlobalConfig, findUserAccount, findBoostConfig, BoostAddress
<1>5. /\ DOMAIN c = 1 .. 5 /\ c[1].field = "user" /\ c[2].field = "global_config"
      /\ c[3].field = "boost_config" /\ c[4].field = "user_account"
  BY DEF Contexts, Signer, Mut, Account
<1>6. DOMAIN meant = {"user", "global_config", "boost_config", "user_account"}
  BY DEF MeantAccounts
<1>7. c = Contexts[i.name]
  BY <1>3
<1> HIDE DEF i, keys, c, meant
<1>8. 1 .. 4 \subseteq DOMAIN c /\ \A f \in DOMAIN meant : \E n \in 1 .. 4 : c[n].field = f
  BY <1>5, <1>6
<1>9. \A n \in 1 .. 4 : keys[n].pubkey = meant[c[n].field]
  BY <1>4, <1>5
<1>10. ASSUME NEW f \in DOMAIN meant
      PROVE  AccountsOf(i)[f] = meant[f]
  <2>1. PICK n \in 1 .. 4 : c[n].field = f
    BY <1>8
  <2>2. n \in DOMAIN Contexts[i.name] /\ f = Contexts[i.name][n].field
    BY <1>7, <1>8, <2>1
  <2>3. AccountsOf(i)[f] = i.keys[n].pubkey
    BY <1>3, <2>2, KeysByName
  <2> QED BY <1>3, <1>9, <2>1, <2>3
<1> QED BY <1>2, <1>10 DEF IsMeant, meant

LEMMA UpsertIsMeant ==
  ASSUME NEW p, p.id \in 0 .. U8Max
  PROVE  IsMeant("upsert_boost_config", p)
<1> DEFINE i == ixUpsertBoostConfig(p)
           keys == ixUpsertBoostConfig(p).keys
           c == Contexts["upsert_boost_config"]
           meant == MeantAccounts("upsert_boost_config", p)
<1>1. p.id % (U8Max + 1) = p.id
  BY CallsAssumption
<1>2. Built("upsert_boost_config", p) = i
  BY DEF Built
<1>3. i.name = "upsert_boost_config" /\ i.keys = keys
      /\ "upsert_boost_config" \in DOMAIN Contexts
  BY ContextFields DEF ixUpsertBoostConfig, ix
<1>4. /\ keys[1].pubkey = meant["admin"] /\ keys[2].pubkey = meant["global_config"]
      /\ keys[3].pubkey = meant["boost_config"]
  BY <1>1 DEF ixUpsertBoostConfig, ix, Signing, Writable, ReadOnly, MeantAccounts,
         findGlobalConfig, findBoostConfig, BoostAddress
<1>5. /\ DOMAIN c = 1 .. 4 /\ c[1].field = "admin" /\ c[2].field = "global_config"
      /\ c[3].field = "boost_config"
  BY DEF Contexts, Signer, Mut, Account
<1>6. DOMAIN meant = {"admin", "global_config", "boost_config"}
  BY DEF MeantAccounts
<1>7. c = Contexts[i.name]
  BY <1>3
<1> HIDE DEF i, keys, c, meant
<1>8. 1 .. 3 \subseteq DOMAIN c /\ \A f \in DOMAIN meant : \E n \in 1 .. 3 : c[n].field = f
  BY <1>5, <1>6
<1>9. \A n \in 1 .. 3 : keys[n].pubkey = meant[c[n].field]
  BY <1>4, <1>5
<1>10. ASSUME NEW f \in DOMAIN meant
      PROVE  AccountsOf(i)[f] = meant[f]
  <2>1. PICK n \in 1 .. 3 : c[n].field = f
    BY <1>8
  <2>2. n \in DOMAIN Contexts[i.name] /\ f = Contexts[i.name][n].field
    BY <1>7, <1>8, <2>1
  <2>3. AccountsOf(i)[f] = i.keys[n].pubkey
    BY <1>3, <2>2, KeysByName
  <2> QED BY <1>3, <1>9, <2>1, <2>3
<1> QED BY <1>2, <1>10 DEF IsMeant, meant

LEMMA AwardIsMeant ==
  ASSUME NEW p
  PROVE  IsMeant("apply_ranking_results", p)
<1> DEFINE i == ixApplyRankingResults(p)
           keys == ixApplyRankingResults(p).keys
           c == Contexts["apply_ranking_results"]
           meant == MeantAccounts("apply_ranking_results", p)
<1>1. Built("apply_ranking_results", p) = i
  BY DEF Built
<1>2. i.name = "apply_ranking_results" /\ i.keys = keys
      /\ "apply_ranking_results" \in DOMAIN Contexts
  BY ContextFields DEF ixApplyRankingResults, ix
<1>3. /\ keys[1].pubkey = meant["admin"] /\ keys[2].pubkey = meant["global_config"]
      /\ keys[3].pubkey = meant["user"] /\ keys[4].pubkey = meant["user_account"]
  BY DEF ixApplyRankingResults, ix, Signing, Writable, ReadOnly, MeantAccounts,
         findGlobalConfig, findUserAccount
<1>4. /\ DOMAIN c = 1 .. 5 /\ c[1].field = "admin" /\ c[2].field = "global_config"
      /\ c[3].field = "user" /\ c[4].field = "user_account"
  BY DEF Contexts, Signer, Mut, Account
<1>5. DOMAIN meant = {"admin", "global_config", "user", "user_account"}
  BY DEF MeantAccounts
<1>6. c = Contexts[i.name]
  BY <1>2
<1> HIDE DEF i, keys, c, meant
<1>7. 1 .. 4 \subseteq DOMAIN c /\ \A f \in DOMAIN meant : \E n \in 1 .. 4 : c[n].field = f
  BY <1>4, <1>5
<1>8. \A n \in 1 .. 4 : keys[n].pubkey = meant[c[n].field]
  BY <1>3, <1>4
<1>9. ASSUME NEW f \in DOMAIN meant
      PROVE  AccountsOf(i)[f] = meant[f]
  <2>1. PICK n \in 1 .. 4 : c[n].field = f
    BY <1>7
  <2>2. n \in DOMAIN Contexts[i.name] /\ f = Contexts[i.name][n].field
    BY <1>6, <1>7, <2>1
  <2>3. AccountsOf(i)[f] = i.keys[n].pubkey
    BY <1>2, <2>2, KeysByName
  <2> QED BY <1>2, <1>8, <2>1, <2>3
<1> QED BY <1>1, <1>9 DEF IsMeant, meant
-----------------------------------------------------------------------------
(***************************************************************************)
(* What the program reads is what was asked for, but for the key that      *)
(* ixApplyRankingResults writes first.                                     *)
(***************************************************************************)
ReadAsMeant(name, p) == ArgsOf(Built(name, p)) = MeantArgs(name, p)

LEMMA GlobalReads ==
  ASSUME NEW p
  PROVE  ReadAsMeant("initialize_global", p)
<1> DEFINE i == ixInitializeGlobal(p)
<1>1. Built("initialize_global", p) = i
  BY DEF Built
<1>2. i.name = "initialize_global" /\ Arguments[i.name] = <<"pubkey", "u16", "u64">>
  BY ContextFields DEF ixInitializeGlobal, ix, Arguments
<1>3. /\ i.data[1] = Arg("pubkey", p.admin) /\ i.data[2] = Arg("u16", p.stakingShareBps)
      /\ i.data[3] = Arg("u64", p.halvingInterval)
  BY DEF ixInitializeGlobal, ix
<1> HIDE DEF i
<1>4. ArgsOf(i) = [n \in 1 .. 3 |-> i.data[n].value]
  BY <1>2, <1>3 DEF ArgsOf, Arg
<1>5. ArgsOf(i) = <<i.data[1].value, i.data[2].value, i.data[3].value>>
  BY <1>4
<1>6. MeantArgs("initialize_global", p) = <<p.admin, p.stakingShareBps, p.halvingInterval>>
  BY DEF MeantArgs
<1> QED BY <1>1, <1>3, <1>5, <1>6 DEF ReadAsMeant, Arg

LEMMA MineReads ==
  ASSUME NEW p
  PROVE  ReadAsMeant("mine_with_rig", p)
<1> DEFINE i == ixMineWithRig(p)
<1>1. Built("mine_with_rig", p) = i
  BY DEF Built
<1>2. i.name = "mine_with_rig" /\ Arguments[i.name] = <<"u8">>
  BY ContextFields DEF ixMineWithRig, ix, Arguments
<1>3. i.data[1] = Arg("u8", p.rigId)
  BY DEF ixMineWithRig, ix
<1> HIDE DEF i
<1>4. ArgsOf(i) = [n \in 1 .. 1 |-> i.data[n].value]
  BY <1>2, <1>3 DEF ArgsOf, Arg
<1>5. ArgsOf(i) = <<i.data[1].value>>
  BY <1>4
<1>6. MeantArgs("mine_with_rig", p) = <<p.rigId>>
  BY DEF MeantArgs
<1> QED BY <1>1, <1>3, <1>5, <1>6 DEF ReadAsMeant, Arg

LEMMA StakeReads ==
  ASSUME NEW p
  PROVE  ReadAsMeant("stake", p)
<1> DEFINE i == ixStake(p)
<1>1. Built("stake", p) = i
  BY DEF Built
<1>2. i.name = "stake" /\ Arguments[i.name] = <<"u64", "u16">>
  BY ContextFields DEF ixStake, ix, Arguments
<1>3. i.data[1] = Arg("u64", p.amount) /\ i.data[2] = Arg("u16", p.lockDays)
  BY DEF ixStake, ix
<1> HIDE DEF i
<1>4. ArgsOf(i) = [n \in 1 .. 2 |-> i.data[n].value]
  BY <1>2, <1>3 DEF ArgsOf, Arg
<1>5. ArgsOf(i) = <<i.data[1].value, i.data[2].value>>
  BY <1>4
<1>6. MeantArgs("stake", p) = <<p.amount, p.lockDays>>
  BY DEF MeantArgs
<1> QED BY <1>1, <1>3, <1>5, <1>6 DEF ReadAsMeant, Arg

LEMMA TreasuryReads ==
  ASSUME NEW p
  PROVE  ReadAsMeant("initialize_treasury_vault", p)
BY ContextFields DEF ReadAsMeant, Built, ixInitializeTreasuryVault, ix,
   ArgsOf, Arguments, MeantArgs

LEMMA PoolReads ==
  ASSUME NEW p
  PROVE  ReadAsMeant("initialize_staking_pool", p)
BY ContextFields DEF ReadAsMeant, Built, ixInitializeStakingPool, ix,
   ArgsOf, Arguments, MeantArgs

LEMMA ClaimReads ==
  ASSUME NEW p
  PROVE  ReadAsMeant("claim", p)
BY ContextFields DEF ReadAsMeant, Built, ixClaim, ix, ArgsOf, Arguments, MeantArgs

LEMMA UnstakeReads ==
  ASSUME NEW p
  PROVE  ReadAsMeant("unstake", p)
BY ContextFields DEF ReadAsMeant, Built, ixUnstake, ix, ArgsOf, Arguments, MeantArgs

LEMMA ActivateReads ==
  ASSUME NEW p
  PROVE  ReadAsMeant("activate_boost", p)
BY ContextFields DEF ReadAsMeant, Built, ixActivateBoost, ix, ArgsOf, Arguments, MeantArgs

LEMMA UpsertReads ==
  ASSUME NEW p
  PROVE  ReadAsMeant("upsert_boost_config", p)
<1> DEFINE i == ixUpsertBoostConfig(p)
           first == <<Arg("u8", p.id), Arg("u8", p.kind), Arg("u64", p.costBoostPoints),
                      Arg("u16", p.valueBps), Arg("i64", p.durationSeconds)>>
           types == <<"u8", "u8", "u64", "u16", "i64", "u8">>
           read == [n \in 1 .. 6 |-> i.data[n].value]
<1>1. Built("upsert_boost_config", p) = i
  BY DEF Built
<1>2. i.name = "upsert_boost_config" /\ Arguments[i.name] = types
  BY ContextFields DEF ixUpsertBoostConfig, ix, Arguments
<1>3. /\ i.data[1] = Arg("u8", p.id) /\ i.data[2] = Arg("u8", p.kind)
      /\ i.data[3] = Arg("u64", p.costBoostPoints) /\ i.data[4] = Arg("u16", p.valueBps)
      /\ i.data[5] = Arg("i64", p.durationSeconds)
      /\ IF p.rigId = None THEN i.data[6] = Arg("u8", 0)
           ELSE i.data[6] = Arg("u8", 1) /\ i.data[7] = Arg("u8", p.rigId)
  <2>1. i.data = first \o OptionU8(p.rigId)
    BY DEF ixUpsertBoostConfig, ix
  <2>2. OptionU8(p.rigId) = IF p.rigId = None THEN <<Arg("u8", 0)>>
                                              ELSE <<Arg("u8", 1), Arg("u8", p.rigId)>>
    BY DEF OptionU8
  <2> HIDE DEF i
  <2>3. CASE p.rigId = None
    BY <2>1, <2>2, <2>3
  <2>4. CASE p.rigId # None
    BY <2>1, <2>2, <2>4
  <2> QED BY <2>3, <2>4
<1> HIDE DEF i
<1>4. ArgsOf(i) = [read EXCEPT ![6] = IF @ = 0 THEN None ELSE i.data[7].value]
  <2>1. \A n \in DOMAIN types : ~ (types[n] = "u64" /\ i.data[n].type = "pubkey")
    BY <1>3 DEF Arg
  <2>2. [n \in DOMAIN types |->
           IF types[n] = "u64" /\ i.data[n].type = "pubkey"
             THEN KeyNumber[i.data[n].value] ELSE i.data[n].value] = read
    BY <2>1
  <2> QED BY <1>2, <2>2 DEF ArgsOf
<1>5. IF i.data[6].value = 0 THEN p.rigId = None ELSE p.rigId = i.data[7].value
  BY <1>3 DEF Arg
<1>6. ArgsOf(i) = [n \in 1 .. 6 |-> IF n = 6 THEN p.rigId ELSE i.data[n].value]
  BY <1>4, <1>5
<1>7. ArgsOf(i) = <<i.data[1].value, i.data[2].value, i.data[3].value, i.data[4].value,
                    i.data[5].value, p.rigId>>
  BY <1>6
<1>8. MeantArgs("upsert_boost_config", p)
        = <<p.id, p.kind, p.costBoostPoints, p.valueBps, p.durationSeconds, p.rigId>>
  BY DEF MeantArgs
<1> QED BY <1>1, <1>3, <1>7, <1>8 DEF ReadAsMeant, Arg
-----------------------------------------------------------------------------
(***************************************************************************)
(* What is built goes through, once the constraints hold.                  *)
(***************************************************************************)
FitsAt(i, signers, n) ==
  LET field == Contexts[i.name][n]
      key == i.keys[n]
  IN /\ field.signer => key.pubkey \in signers
     /\ field.mut => key.isWritable
     /\ field.field = "system_program" => key.pubkey = SystemProgram
     /\ field.field = "token_program" => key.pubkey = TOKEN_PROGRAM_ID
     /\ field.field = "associated_token_program" => key.pubkey = ASSOCIATED_TOKEN_PROGRAM_ID
     /\ field.field = "rent" => key.pubkey = SYSVAR_RENT_PUBKEY

Fits(i, signers) ==
  /\ Len(Contexts[i.name]) <= Len(i.keys)
  /\ \A n \in DOMAIN Contexts[i.name] : FitsAt(i, signers, n)

LEMMA GlobalFits ==
  ASSUME NEW p
  PROVE  Fits(ixInitializeGlobal(p), Signers("initialize_global", p))
<1> DEFINE i == ixInitializeGlobal(p)
           s == Signers("initialize_global", p)
<1>1. i.name = "initialize_global"
  BY DEF ixInitializeGlobal, ix
<1>2. DOMAIN Contexts[i.name] = 1 .. 6 /\ Len(Contexts[i.name]) = 6 /\ Len(i.keys) = 6
  BY <1>1 DEF Contexts, ixInitializeGlobal, ix
<1>3. \A n \in 1 .. 6 : FitsAt(i, s, n)
  BY <1>1 DEF FitsAt, Contexts, ixInitializeGlobal, ix, Account, Mut, Signer, ReadOnly,
              Writable, Signing, Signers
<1> QED BY <1>2, <1>3 DEF Fits

LEMMA TreasuryFits ==
  ASSUME NEW p
  PROVE  Fits(ixInitializeTreasuryVault(p), Signers("initialize_treasury_vault", p))
<1> DEFINE i == ixInitializeTreasuryVault(p)
           s == Signers("initialize_treasury_vault", p)
<1>1. i.name = "initialize_treasury_vault"
  BY DEF ixInitializeTreasuryVault, ix
<1>2. DOMAIN Contexts[i.name] = 1 .. 6 /\ Len(Contexts[i.name]) = 6 /\ Len(i.keys) = 6
  BY <1>1 DEF Contexts, ixInitializeTreasuryVault, ix
<1>3. \A n \in 1 .. 6 : FitsAt(i, s, n)
  BY <1>1 DEF FitsAt, Contexts, ixInitializeTreasuryVault, ix, Account, Mut, Signer, ReadOnly,
              Writable, Signing, Signers
<1> QED BY <1>2, <1>3 DEF Fits

LEMMA PoolFits ==
  ASSUME NEW p
  PROVE  Fits(ixInitializeStakingPool(p), Signers("initialize_staking_pool", p))
<1> DEFINE i == ixInitializeStakingPool(p)
           s == Signers("initialize_staking_pool", p)
<1>1. i.name = "initialize_staking_pool"
  BY DEF ixInitializeStakingPool, ix
<1>2. DOMAIN Contexts[i.name] = 1 .. 9 /\ Len(Contexts[i.name]) = 9 /\ Len(i.keys) = 9
  BY <1>1 DEF Contexts, ixInitializeStakingPool, ix
<1>3. \A n \in 1 .. 9 : FitsAt(i, s, n)
  BY <1>1 DEF FitsAt, Contexts, ixInitializeStakingPool, ix, Account, Mut, Signer, ReadOnly,
              Writable, Signing, Signers
<1> QED BY <1>2, <1>3 DEF Fits

LEMMA MineFits ==
  ASSUME NEW p
  PROVE  Fits(ixMineWithRig(p), Signers("mine_with_rig", p))
<1> DEFINE i == ixMineWithRig(p)
           s == Signers("mine_with_rig", p)
<1>1. i.name = "mine_with_rig"
  BY DEF ixMineWithRig, ix
<1>2. DOMAIN Contexts[i.name] = 1 .. 12 /\ Len(Contexts[i.name]) = 12 /\ Len(i.keys) = 12
  BY <1>1 DEF Contexts, ixMineWithRig, ix
<1>3. \A n \in 1 .. 12 : FitsAt(i, s, n)
  BY <1>1 DEF FitsAt, Contexts, ixMineWithRig, ix, Account, Mut, Signer, ReadOnly,
              Writable, Signing, Signers
<1> QED BY <1>2, <1>3 DEF Fits

LEMMA ClaimFits ==
  ASSUME NEW p
  PROVE  Fits(ixClaim(p), Signers("claim", p))
<1> DEFINE i == ixClaim(p)
           s == Signers("claim", p)
<1>1. i.name = "claim"
  BY DEF ixClaim, ix
<1>2. DOMAIN Contexts[i.name] = 1 .. 7 /\ Len(Contexts[i.name]) = 7 /\ Len(i.keys) = 7
  BY <1>1 DEF Contexts, ixClaim, ix
<1>3. \A n \in 1 .. 7 : FitsAt(i, s, n)
  BY <1>1 DEF FitsAt, Contexts, ixClaim, ix, Account, Mut, Signer, ReadOnly,
              Writable, Signing, Signers
<1> QED BY <1>2, <1>3 DEF Fits

LEMMA UnstakeFits ==
  ASSUME NEW p
  PROVE  Fits(ixUnstake(p), Signers("unstake", p))
<1> DEFINE i == ixUnstake(p)
           s == Signers("unstake", p)
<1>1. i.name = "unstake"
  BY DEF ixUnstake, ix
<1>2. DOMAIN Contexts[i.name] = 1 .. 9 /\ Len(Contexts[i.name]) = 9 /\ Len(i.keys) = 9
  BY <1>1 DEF Contexts, ixUnstake, ix
<1>3. \A n \in 1 .. 9 : FitsAt(i, s, n)
  BY <1>1 DEF FitsAt, Contexts, ixUnstake, ix, Account, Mut, Signer, ReadOnly,
              Writable, Signing, Signers
<1> QED BY <1>2, <1>3 DEF Fits

LEMMA ActivateFits ==
  ASSUME NEW p
  PROVE  Fits(ixActivateBoost(p), Signers("activate_boost", p))
<1> DEFINE i == ixActivateBoost(p)
           s == Signers("activate_boost", p)
<1>1. i.name = "activate_boost"
  BY DEF ixActivateBoost, ix
<1>2. DOMAIN Contexts[i.name] = 1 .. 5 /\ Len(Contexts[i.name]) = 5 /\ Len(i.keys) = 5
  BY <1>1 DEF Contexts, ixActivateBoost, ix
<1>3. \A n \in 1 .. 5 : FitsAt(i, s, n)
  BY <1>1 DEF FitsAt, Contexts, ixActivateBoost, ix, Account, Mut, Signer, ReadOnly,
              Writable, Signing, Signers
<1> QED BY <1>2, <1>3 DEF Fits

LEMMA UpsertFits ==
  ASSUME NEW p
  PROVE  Fits(ixUpsertBoostConfig(p), Signers("upsert_boost_config", p))
<1> DEFINE i == ixUpsertBoostConfig(p)
           s == Signers("upsert_boost_config", p)
<1>1. i.name = "upsert_boost_config"
  BY DEF ixUpsertBoostConfig, ix
<1>2. DOMAIN Contexts[i.name] = 1 .. 4 /\ Len(Contexts[i.name]) = 4 /\ Len(i.keys) = 4
  BY <1>1 DEF Contexts, ixUpsertBoostConfig, ix
<1>3. \A n \in 1 .. 4 : FitsAt(i, s, n)
  BY <1>1 DEF FitsAt, Contexts, ixUpsertBoostConfig, ix, Account, Mut, Signer, ReadOnly,
              Writable, Signing, Signers
<1> QED BY <1>2, <1>3 DEF Fits

LEMMA AwardFits ==
  ASSUME NEW p
  PROVE  Fits(ixApplyRankingResults(p), Signers("apply_ranking_results", p))
<1> DEFINE i == ixApplyRankingResults(p)
           s == Signers("apply_ranking_results", p)
<1>1. i.name = "apply_ranking_results"
  BY DEF ixApplyRankingResults, ix
<1>2. DOMAIN Contexts[i.name] = 1 .. 5 /\ Len(Contexts[i.name]) = 5 /\ Len(i.keys) = 5
  BY <1>1 DEF Contexts, ixApplyRankingResults, ix
<1>3. \A n \in 1 .. 5 : FitsAt(i, s, n)
  BY <1>1 DEF FitsAt, Contexts, ixApplyRankingResults, ix, Account, Mut, Signer, ReadOnly,
              Writable, Signing, Signers
<1> QED BY <1>2, <1>3 DEF Fits

LEMMA FitsIsProgram ==
  ASSUME NEW i, i.name \in DOMAIN Contexts, NEW signers, Fits(i, signers)
  PROVE  IsProgram(AccountsOf(i))
<1> DEFINE a == AccountsOf(i)
           c == Contexts[i.name]
<1>1. DOMAIN a = {c[n].field : n \in DOMAIN c}
  BY DEF AccountsOf
<1>2. \A n \in DOMAIN c : a[c[n].field] = i.keys[n].pubkey
  BY KeysByName
<1>3. \A n \in DOMAIN c : FitsAt(i, signers, n)
  BY DEF Fits
<1>4. \A n \in DOMAIN c :
        /\ c[n].field = "system_program" => i.keys[n].pubkey = SystemProgram
        /\ c[n].field = "token_program" => i.keys[n].pubkey = TOKEN_PROGRAM_ID
        /\ c[n].field = "associated_token_program" =>
             i.keys[n].pubkey = ASSOCIATED_TOKEN_PROGRAM_ID
        /\ c[n].field = "rent" => i.keys[n].pubkey = SYSVAR_RENT_PUBKEY
  BY <1>3 DEF FitsAt
<1> HIDE DEF a, c
<1>5. \A f \in DOMAIN a : \E n \in DOMAIN c : c[n].field = f /\ a[f] = i.keys[n].pubkey
  BY <1>1, <1>2
<1>6. "system_program" \in DOMAIN a => a["system_program"] = SystemProgram
  BY <1>4, <1>5
<1>7. "token_program" \in DOMAIN a => a["token_program"] = TOKEN_PROGRAM_ID
  BY <1>4, <1>5
<1>8. "associated_token_program" \in DOMAIN a =>
        a["associated_token_program"] = ASSOCIATED_TOKEN_PROGRAM_ID
  BY <1>4, <1>5
<1>9. "rent" \in DOMAIN a => a["rent"] = SYSVAR_RENT_PUBKEY
  BY <1>4, <1>5
<1> QED BY <1>6, <1>7, <1>8, <1>9 DEF IsProgram, a

LEMMA GlobalDeserializes ==
  ASSUME NEW p
  PROVE  Deserializes(ixInitializeGlobal(p))
BY ContextFields DEF Deserializes, ixInitializeGlobal, ix, Arg, Arguments, Width

LEMMA TreasuryDeserializes ==
  ASSUME NEW p
  PROVE  Deserializes(ixInitializeTreasuryVault(p))
BY ContextFields DEF Deserializes, ixInitializeTreasuryVault, ix, Arg, Arguments, Width

LEMMA PoolDeserializes ==
  ASSUME NEW p
  PROVE  Deserializes(ixInitializeStakingPool(p))
BY ContextFields DEF Deserializes, ixInitializeStakingPool, ix, Arg, Arguments, Width

LEMMA MineDeserializes ==
  ASSUME NEW p
  PROVE  Deserializes(ixMineWithRig(p))
BY ContextFields DEF Deserializes, ixMineWithRig, ix, Arg, Arguments, Width

LEMMA ClaimDeserializes ==
  ASSUME NEW p
  PROVE  Deserializes(ixClaim(p))
BY ContextFields DEF Deserializes, ixClaim, ix, Arg, Arguments, Width

LEMMA UnstakeDeserializes ==
  ASSUME NEW p
  PROVE  Deserializes(ixUnstake(p))
BY ContextFields DEF Deserializes, ixUnstake, ix, Arg, Arguments, Width

LEMMA ActivateDeserializes ==
  ASSUME NEW p
  PROVE  Deserializes(ixActivateBoost(p))
BY ContextFields DEF Deserializes, ixActivateBoost, ix, Arg, Arguments, Width

LEMMA UpsertDeserializes ==
  ASSUME NEW p, p.kind \in 0 .. 3
  PROVE  Deserializes(ixUpsertBoostConfig(p))
<1> DEFINE i == ixUpsertBoostConfig(p)
           types == <<"u8", "u8", "u64", "u16", "i64", "u8">>
<1>1. i.name = "upsert_boost_config" /\ Arguments[i.name] = types
  BY ContextFields DEF ixUpsertBoostConfig, ix, Arguments
<1>2. OptionU8(p.rigId) = IF p.rigId = None THEN <<Arg("u8", 0)>>
                                            ELSE <<Arg("u8", 1), Arg("u8", p.rigId)>>
  BY DEF OptionU8
<1>3. /\ i.data[1].type = "u8" /\ i.data[2] = Arg("u8", p.kind) /\ i.data[3].type = "u64"
      /\ i.data[4].type = "u16" /\ i.data[5].type = "i64" /\ i.data[6].type = "u8"
      /\ Len(i.data) >= 6
      /\ i.data[6].value = 0 \/ (i.data[6].value = 1 /\ Len(i.data) >= 7)
  <2>1. CASE p.rigId = None
    BY <1>2, <2>1 DEF ixUpsertBoostConfig, ix, Arg
  <2>2. CASE p.rigId # None
    BY <1>2, <2>2 DEF ixUpsertBoostConfig, ix, Arg
  <2> QED BY <2>1, <2>2
<1> HIDE DEF i
<1>4. \A n \in DOMAIN types : Width(i.data[n].type) = Width(types[n])
  BY <1>3 DEF Width, Arg
<1>5. Deserializes(i)
  BY <1>1, <1>3, <1>4 DEF Deserializes, Arg
<1> QED BY <1>5 DEF i

LEMMA AwardDeserializes ==
  ASSUME NEW p
  PROVE  Deserializes(ixApplyRankingResults(p))
BY ContextFields DEF Deserializes, ixApplyRankingResults, ix, Arg, Arguments, Width

LEMMA GlobalConstraints ==
  ASSUME NEW p, NEW at, IsMeant("initialize_global", p),
         Constraints("initialize_global", MeantAccounts("initialize_global", p),
                     MeantArgs("initialize_global", p), at)
  PROVE  Constraints("initialize_global", AccountsOf(Built("initialize_global", p)),
                     ArgsOf(Built("initialize_global", p)), at)
<1> DEFINE meant == MeantAccounts("initialize_global", p)
           a == AccountsOf(Built("initialize_global", p))
           args == ArgsOf(Built("initialize_global", p))
           meantArgs == MeantArgs("initialize_global", p)
<1>1. DOMAIN meant = {"global_config", "payer", "xnt_mint", "game_mint"}
  BY DEF MeantAccounts
<1>2. \A f \in DOMAIN meant : a[f] = meant[f]
  BY DEF IsMeant
<1>3. args = meantArgs
  BY GlobalReads DEF ReadAsMeant
<1>4. Constraints("initialize_global", meant, meantArgs, at)
  OBVIOUS
<1> HIDE DEF a, meant, args, meantArgs
<1>5. /\ a["global_config"] = meant["global_config"] /\ a["payer"] = meant["payer"]
      /\ a["xnt_mint"] = meant["xnt_mint"] /\ a["game_mint"] = meant["game_mint"]
  BY <1>1, <1>2
<1>6. Constraints("initialize_global", a, args, at)
  BY <1>3, <1>4, <1>5 DEF Constraints, Works
<1> QED BY <1>6 DEF a, args

LEMMA TreasuryConstraints ==
  ASSUME NEW p, NEW at, IsMeant("initialize_treasury_vault", p),
         Constraints("initialize_treasury_vault", MeantAccounts("initialize_treasury_vault", p),
                     MeantArgs("initialize_treasury_vault", p), at)
  PROVE  Constraints("initialize_treasury_vault", AccountsOf(Built("initialize_treasury_vault", p)),
                     ArgsOf(Built("initialize_treasury_vault", p)), at)
<1> DEFINE meant == MeantAccounts("initialize_treasury_vault", p)
           a == AccountsOf(Built("initialize_treasury_vault", p))
           args == ArgsOf(Built("initialize_treasury_vault", p))
           meantArgs == MeantArgs("initialize_treasury_vault", p)
<1>1. DOMAIN meant = {"admin", "global_config", "xnt_mint", "treasury_xnt_vault"}
  BY DEF MeantAccounts
<1>2. \A f \in DOMAIN meant : a[f] = meant[f]
  BY DEF IsMeant
<1>3. args = meantArgs
  BY TreasuryReads DEF ReadAsMeant
<1>4. Constraints("initialize_treasury_vault", meant, meantArgs, at)
  OBVIOUS
<1> HIDE DEF a, meant, args, meantArgs
<1>5. /\ a["admin"] = meant["admin"] /\ a["global_config"] = meant["global_config"]
      /\ a["xnt_mint"] = meant["xnt_mint"]
      /\ a["treasury_xnt_vault"] = meant["treasury_xnt_vault"]
  BY <1>1, <1>2
<1>6. Constraints("initialize_treasury_vault", a, args, at)
  BY <1>3, <1>4, <1>5 DEF Constraints, Works
<1> QED BY <1>6 DEF a, args

LEMMA PoolConstraints ==
  ASSUME NEW p, NEW at, IsMeant("initialize_staking_pool", p),
         Constraints("initialize_staking_pool", MeantAccounts("initialize_staking_pool", p),
                     MeantArgs("initialize_staking_pool", p), at)
  PROVE  Constraints("initialize_staking_pool", AccountsOf(Built("initialize_staking_pool", p)),
                     ArgsOf(Built("initialize_staking_pool", p)), at)
<1> DEFINE meant == MeantAccounts("initialize_staking_pool", p)
           a == AccountsOf(Built("initialize_staking_pool", p))
           args == ArgsOf(Built("initialize_staking_pool", p))
           meantArgs == MeantArgs("initialize_staking_pool", p)
<1>1. DOMAIN meant = {"admin", "global_config", "staking_pool", "game_mint", "xnt_mint",
                      "staking_vault"}
  BY DEF MeantAccounts
<1>2. \A f \in DOMAIN meant : a[f] = meant[f]
  BY DEF IsMeant
<1>3. args = meantArgs
  BY PoolReads DEF ReadAsMeant
<1>4. Constraints("initialize_staking_pool", meant, meantArgs, at)
  OBVIOUS
<1> HIDE DEF a, meant, args, meantArgs
<1>5. /\ a["admin"] = meant["admin"] /\ a["global_config"] = meant["global_config"]
      /\ a["staking_pool"] = meant["staking_pool"] /\ a["game_mint"] = meant["game_mint"]
      /\ a["xnt_mint"] = meant["xnt_mint"] /\ a["staking_vault"] = meant["staking_vault"]
  BY <1>1, <1>2
<1>6. Constraints("initialize_staking_pool", a, args, at)
  BY <1>3, <1>4, <1>5 DEF Constraints, Works
<1> QED BY <1>6 DEF a, args

LEMMA MineConstraints ==
  ASSUME NEW p, NEW at, IsMeant("mine_with_rig", p),
         Constraints("mine_with_rig", MeantAccounts("mine_with_rig", p),
                     MeantArgs("mine_with_rig", p), at)
  PROVE  Constraints("mine_with_rig", AccountsOf(Built("mine_with_rig", p)),
                     ArgsOf(Built("mine_with_rig", p)), at)
<1> DEFINE meant == MeantAccounts("mine_with_rig", p)
           a == AccountsOf(Built("mine_with_rig", p))
           args == ArgsOf(Built("mine_with_rig", p))
           meantArgs == MeantArgs("mine_with_rig", p)
<1>1. DOMAIN meant = {"payer", "global_config", "staking_pool", "game_mint",
                      "user_game_account", "user_xnt_account",
                      "treasury_xnt_vault", "user_account"}
  BY DEF MeantAccounts
<1>2. \A f \in DOMAIN meant : a[f] = meant[f]
  BY DEF IsMeant
<1>3. args = meantArgs
  BY MineReads DEF ReadAsMeant
<1>4. Constraints("mine_with_rig", meant, meantArgs, at)
  OBVIOUS
<1> HIDE DEF a, meant, args, meantArgs
<1>5. /\ a["payer"] = meant["payer"] /\ a["global_config"] = meant["global_config"]
      /\ a["staking_pool"] = meant["staking_pool"] /\ a["game_mint"] = meant["game_mint"]
      /\ a["user_game_account"] = meant["user_game_account"]
      /\ a["user_xnt_account"] = meant["user_xnt_account"]
      /\ a["treasury_xnt_vault"] = meant["treasury_xnt_vault"]
      /\ a["user_account"] = meant["user_account"]
  BY <1>1, <1>2
<1>6. Constraints("mine_with_rig", a, args, at)
  BY <1>3, <1>4, <1>5 DEF Constraints, Works
<1> QED BY <1>6 DEF a, args

LEMMA ClaimConstraints ==
  ASSUME NEW p, NEW at, IsMeant("claim", p),
         Constraints("claim", MeantAccounts("claim", p), MeantArgs("claim", p), at)
  PROVE  Constraints("claim", AccountsOf(Built("claim", p)),
                     ArgsOf(Built("claim", p)), at)
<1> DEFINE meant == MeantAccounts("claim", p)
           a == AccountsOf(Built("claim", p))
           args == ArgsOf(Built("claim", p))
           meantArgs == MeantArgs("claim", p)
<1>1. DOMAIN meant = {"owner", "global_config", "staking_pool", "treasury_xnt_vault",
                      "user_xnt_account", "user_stake_position"}
  BY DEF MeantAccounts
<1>2. \A f \in DOMAIN meant : a[f] = meant[f]
  BY DEF IsMeant
<1>3. args = meantArgs
  BY ClaimReads DEF ReadAsMeant
<1>4. Constraints("claim", meant, meantArgs, at)
  OBVIOUS
<1> HIDE DEF a, meant, args, meantArgs
<1>5. /\ a["owner"] = meant["owner"] /\ a["global_config"] = meant["global_config"]
      /\ a["staking_pool"] = meant["staking_pool"]
      /\ a["treasury_xnt_vault"] = meant["treasury_xnt_vault"]
      /\ a["user_xnt_account"] = meant["user_xnt_account"]
      /\ a["user_stake_position"] = meant["user_stake_position"]
  BY <1>1, <1>2
<1>6. Constraints("claim", a, args, at)
  BY <1>3, <1>4, <1>5 DEF Constraints, Works
<1> QED BY <1>6 DEF a, args

LEMMA UnstakeConstraints ==
  ASSUME NEW p, NEW at, IsMeant("unstake", p),
         Constraints("unstake", MeantAccounts("unstake", p), MeantArgs("unstake", p), at)
  PROVE  Constraints("unstake", AccountsOf(Built("unstake", p)),
                     ArgsOf(Built("unstake", p)), at)
<1> DEFINE meant == MeantAccounts("unstake", p)
           a == AccountsOf(Built("unstake", p))
           args == ArgsOf(Built("unstake", p))
           meantArgs == MeantArgs("unstake", p)
<1>1. DOMAIN meant = {"owner", "global_config", "staking_pool", "staking_vault",
                      "treasury_xnt_vault", "user_game_account",
                      "user_xnt_account", "user_stake_position"}
  BY DEF MeantAccounts
<1>2. \A f \in DOMAIN meant : a[f] = meant[f]
  BY DEF IsMeant
<1>3. args = meantArgs
  BY UnstakeReads DEF ReadAsMeant
<1>4. Constraints("unstake", meant, meantArgs, at)
  OBVIOUS
<1> HIDE DEF a, meant, args, meantArgs
<1>5. /\ a["owner"] = meant["owner"] /\ a["global_config"] = meant["global_config"]
      /\ a["staking_pool"] = meant["staking_pool"]
      /\ a["staking_vault"] = meant["staking_vault"]
      /\ a["treasury_xnt_vault"] = meant["treasury_xnt_vault"]
      /\ a["user_game_account"] = meant["user_game_account"]
      /\ a["user_xnt_account"] = meant["user_xnt_account"]
      /\ a["user_stake_position"] = meant["user_stake_position"]
  BY <1>1, <1>2
<1>6. Constraints("unstake", a, args, at)
  BY <1>3, <1>4, <1>5 DEF Constraints, Works
<1> QED BY <1>6 DEF a, args

LEMMA ActivateConstraints ==
  ASSUME NEW p, NEW at, IsMeant("activate_boost", p),
         Constraints("activate_boost", MeantAccounts("activate_boost", p),
                     MeantArgs("activate_boost", p), at)
  PROVE  Constraints("activate_boost", AccountsOf(Built("activate_boost", p)),
                     ArgsOf(Built("activate_boost", p)), at)
<1> DEFINE meant == MeantAccounts("activate_boost", p)
           a == AccountsOf(Built("activate_boost", p))
           args == ArgsOf(Built("activate_boost", p))
           meantArgs == MeantArgs("activate_boost", p)
<1>1. DOMAIN meant = {"user", "global_config", "boost_config", "user_account"}
  BY DEF MeantAccounts
<1>2. \A f \in DOMAIN meant : a[f] = meant[f]
  BY DEF IsMeant
<1>3. args = meantArgs
  BY ActivateReads DEF ReadAsMeant
<1>4. Constraints("activate_boost", meant, meantArgs, at)
  OBVIOUS
<1> HIDE DEF a, meant, args, meantArgs
<1>5. /\ a["user"] = meant["user"] /\ a["global_config"] = meant["global_config"]
      /\ a["boost_config"] = meant["boost_config"] /\ a["user_account"] = meant["user_account"]
  BY <1>1, <1>2
<1>6. Constraints("activate_boost", a, args, at)
  BY <1>3, <1>4, <1>5 DEF Constraints, Works
<1> QED BY <1>6 DEF a, args

LEMMA UpsertConstraints ==
  ASSUME NEW p, NEW at, IsMeant("upsert_boost_config", p),
         Constraints("upsert_boost_config", MeantAccounts("upsert_boost_config", p),
                     MeantArgs("upsert_boost_config", p), at)
  PROVE  Constraints("upsert_boost_config", AccountsOf(Built("upsert_boost_config", p)),
                     ArgsOf(Built("upsert_boost_config", p)), at)
<1> DEFINE meant == MeantAccounts("upsert_boost_config", p)
           a == AccountsOf(Built("upsert_boost_config", p))
           args == ArgsOf(Built("upsert_boost_config", p))
           meantArgs == MeantArgs("upsert_boost_config", p)
<1>1. DOMAIN meant = {"admin", "global_config", "boost_config"}
  BY DEF MeantAccounts
<1>2. \A f \in DOMAIN meant : a[f] = meant[f]
  BY DEF IsMeant
<1>3. args = meantArgs
  BY UpsertReads DEF ReadAsMeant
<1>4. Constraints("upsert_boost_config", meant, meantArgs, at)
  OBVIOUS
<1> HIDE DEF a, meant, args, meantArgs
<1>5. /\ a["admin"] = meant["admin"] /\ a["global_config"] = meant["global_config"]
      /\ a["boost_config"] = meant["boost_config"]
  BY <1>1, <1>2
<1>6. Constraints("upsert_boost_config", a, args, at)
  BY <1>3, <1>4, <1>5 DEF Constraints, Works
<1> QED BY <1>6 DEF a, args

LEMMA AwardConstraints ==
  ASSUME NEW p, NEW at, IsMeant("apply_ranking_results", p),
         Constraints("apply_ranking_results", MeantAccounts("apply_ranking_results", p),
                     MeantArgs("apply_ranking_results", p), at)
  PROVE  Constraints("apply_ranking_results", AccountsOf(Built("apply_ranking_results", p)),
                     ArgsOf(Built("apply_ranking_results", p)), at)
<1> DEFINE meant == MeantAccounts("apply_ranking_results", p)
           a == AccountsOf(Built("apply_ranking_results", p))
           args == ArgsOf(Built("apply_ranking_results", p))
           meantArgs == MeantArgs("apply_ranking_results", p)
<1>1. DOMAIN meant = {"admin", "global_config", "user", "user_account"}
  BY DEF MeantAccounts
<1>2. \A f \in DOMAIN meant : a[f] = meant[f]
  BY DEF IsMeant
<1>4. Constraints("apply_ranking_results", meant, meantArgs, at)
  OBVIOUS
<1> HIDE DEF a, meant, args, meantArgs
<1>5. /\ a["admin"] = meant["admin"] /\ a["global_config"] = meant["global_config"]
      /\ a["user"] = meant["user"] /\ a["user_account"] = meant["user_account"]
  BY <1>1, <1>2
<1>6. Constraints("apply_ranking_results", a, args, at)
  BY <1>4, <1>5 DEF Constraints, Works
<1> QED BY <1>6 DEF a, args
-----------------------------------------------------------------------------
(***************************************************************************)
(* A call, whatever was asked for.  An id of a boost must fit its byte:    *)
(* findBoostConfig cuts a larger one.                                      *)
(***************************************************************************)
BoostIdsFit ==
  Builders \cap {"activate_boost", "upsert_boost_config"} # {} => Ids \subseteq 0 .. U8Max

LEMMA BoostIdFits ==
  ASSUME BoostIdsFit, NEW name \in Builders, NEW p \in Params(name)
  PROVE  /\ name = "activate_boost" => p.boostId \in 0 .. U8Max
         /\ name = "upsert_boost_config" => p.id \in 0 .. U8Max
<1>1. name = "activate_boost" => p.boostId \in Ids
  BY DEF Params
<1>2. name = "upsert_boost_config" => p.id \in Ids
  BY DEF Params
<1> QED BY <1>1, <1>2 DEF BoostIdsFit

LEMMA AccountsAreMeant ==
  ASSUME BoostIdsFit, NEW name \in DOMAIN Contexts \ {"stake"}, name \in Builders,
         NEW p \in Params(name)
  PROVE  IsMeant(name, p)
BY ContextFields, BoostIdFits, GlobalIsMeant, TreasuryIsMeant, PoolIsMeant, MineIsMeant,
   ClaimIsMeant, UnstakeIsMeant, ActivateIsMeant, UpsertIsMeant, AwardIsMeant

LEMMA ArgumentsAreMeant ==
  ASSUME NEW name \in DOMAIN Contexts \ {"apply_ranking_results"}, NEW p
  PROVE  ReadAsMeant(name, p)
BY ContextFields, GlobalReads, TreasuryReads, PoolReads, MineReads, StakeReads, ClaimReads,
   UnstakeReads, ActivateReads, UpsertReads

LEMMA BuiltName ==
  ASSUME NEW name \in DOMAIN Contexts, NEW p
  PROVE  Built(name, p).name = name
BY ContextFields DEF Built, ix, ixInitializeGlobal, ixInitializeTreasuryVault,
   ixInitializeStakingPool, ixMineWithRig, ixStake, ixClaim, ixUnstake, ixActivateBoost,
   ixUpsertBoostConfig, ixApplyRankingResults

LEMMA BuiltFits ==
  ASSUME NEW name \in DOMAIN Contexts \ {"stake"}, NEW p
  PROVE  Fits(Built(name, p), Signers(name, p))
BY ContextFields, GlobalFits, TreasuryFits, PoolFits, MineFits, ClaimFits, UnstakeFits,
   ActivateFits, UpsertFits, AwardFits DEF Built

LEMMA BuiltDeserializes ==
  ASSUME NEW name \in DOMAIN Contexts \ {"stake"}, NEW p,
         name = "upsert_boost_config" => p.kind \in 0 .. 3
  PROVE  Deserializes(Built(name, p))
BY ContextFields, GlobalDeserializes, TreasuryDeserializes, PoolDeserializes, MineDeserializes,
   ClaimDeserializes, UnstakeDeserializes, ActivateDeserializes, UpsertDeserializes,
   AwardDeserializes DEF Built

LEMMA ConstraintsByName ==
  ASSUME NEW name \in DOMAIN Contexts \ {"stake"}, NEW p, NEW at, IsMeant(name, p),
         Constraints(name, MeantAccounts(name, p), MeantArgs(name, p), at)
  PROVE  Constraints(name, AccountsOf(Built(name, p)), ArgsOf(Built(name, p)), at)
BY ContextFields, GlobalConstraints, TreasuryConstraints, PoolConstraints, MineConstraints,
   ClaimConstraints, UnstakeConstraints, ActivateConstraints, UpsertConstraints,
   AwardConstraints

\* What would be taken by name is taken as it is built.
LEMMA BuiltIsAccepted ==
  ASSUME BoostIdsFit, NEW name \in DOMAIN Contexts \ {"stake"}, name \in Builders,
         NEW p \in Params(name), NEW at,
         Constraints(name, MeantAccounts(name, p), MeantArgs(name, p), at),
         name = "upsert_boost_config" => p.kind \in 0 .. 3
  PROVE  Accepts(Built(name, p), Signers(name, p), at)
<1> DEFINE i == Built(name, p)
           s == Signers(name, p)
<1>1. i.name = name
  BY BuiltName
<1>2. Fits(i, s)
  BY BuiltFits
<1>3. Deserializes(i)
  BY BuiltDeserializes
<1>4. Constraints(i.name, AccountsOf(i), ArgsOf(i), at)
  BY <1>1, AccountsAreMeant, ConstraintsByName
<1> HIDE DEF i, s
<1>5. IsProgram(AccountsOf(i))
  BY <1>1, <1>2, FitsIsProgram
<1>6. Accepts(i, s, at)
  BY <1>2, <1>3, <1>4, <1>5 DEF Accepts, Fits, FitsAt
<1> QED BY <1>6 DEF i, s

\* ixStake lists the position before the account of the user, the program the
\* other way round: no chain takes it.
LEMMA StakeIsNotAccepted ==
  ASSUME NEW p \in Params("stake"), NEW signers, NEW at
  PROVE  ~ Accepts(ixStake(p), signers, at)
<1>1. PICK w \in Wallets : p.owner = w
  BY DEF Params
<1>2. PICK e : w = <<e>>
  BY CallsAssumption
<1> QED BY <1>1, <1>2, StakeIsMisplaced, MisplacedIsRefused

CallInv ==
  /\ asked = Idle => outcome = "none"
  /\ outcome \in {"none", "sent", "thrown", "taken", "refused"}
  /\ outcome # "none" => asked.name \in Builders /\ asked.p \in Params(asked.name)
  /\ outcome = "taken" =>
       LET i == Built(asked.name, asked.p)
       IN /\ Accepts(i, Signers(asked.name, asked.p), chain)
          /\ found = [accounts |-> AccountsOf(i), args |-> ArgsOf(i)]
  /\ outcome = "refused" =>
       ~ Accepts(Built(asked.name, asked.p), Signers(asked.name, asked.p), chain)

LEMMA CallInvariant == CallSpec => []CallInv
<1>1. CallInit => CallInv
  BY DEF CallInit, CallInv
<1>2. CallInv /\ [CallNext]_callVars => CallInv'
  <2> SUFFICES ASSUME CallInv, [CallNext]_callVars
               PROVE  CallInv'
    OBVIOUS
  <2>1. ASSUME NEW name \in Builders, NEW p \in Params(name), Ask(name, p)
        PROVE  CallInv'
    <3>1. asked' = [name |-> name, p |-> p] /\ outcome' \in {"sent", "thrown"}
      BY <2>1 DEF Ask
    <3>2. asked'.name = name /\ asked'.p = p
      BY <3>1
    <3>3. asked' # Idle
      BY <3>1 DEF Idle
    <3> QED BY <3>1, <3>2, <3>3 DEF CallInv
  <2>2. CASE Deliver
    <3> DEFINE i == Built(asked.name, asked.p)
               s == Signers(asked.name, asked.p)
    <3>1. outcome = "sent" /\ asked' = asked /\ chain' = chain
      BY <2>2 DEF Deliver
    <3>2. /\ asked # Idle
          /\ asked.name \in Builders /\ asked.p \in Params(asked.name)
      BY <3>1 DEF CallInv
    <3> HIDE DEF i, s
    <3>3. CASE Accepts(i, s, chain)
      <4>1. outcome' = "taken" /\ found' = [accounts |-> AccountsOf(i), args |-> ArgsOf(i)]
        BY <2>2, <3>3 DEF Deliver, i, s
      <4> QED BY <3>1, <3>2, <3>3, <4>1 DEF CallInv, i, s
    <3>4. CASE ~ Accepts(i, s, chain)
      <4>1. outcome' = "refused"
        BY <2>2, <3>4 DEF Deliver, i, s
      <4> QED BY <3>1, <3>2, <3>4, <4>1 DEF CallInv, i, s
    <3> QED BY <3>3, <3>4
  <2>3. CASE UNCHANGED callVars
    BY <2>3 DEF CallInv, callVars
  <2> QED BY <2>1, <2>2, <2>3 DEF CallNext
<1> QED BY <1>1, <1>2, PTL DEF CallSpec

\* FoundIsMeant, for every builder but ixApplyRankingResults: what the program
\* finds in the list of keys and in the bytes is what was asked for, whatever
\* wallets, vaults, numbers and chain.  The ids of boosts have to fit a byte.
THEOREM FoundAsMeant ==
  ASSUME Builders \subseteq DOMAIN Contexts \ {"apply_ranking_results"}, BoostIdsFit
  PROVE  CallSpec => []FoundIsMeant
<1>1. CallInv => FoundIsMeant
  <2> SUFFICES ASSUME CallInv, outcome = "taken"
               PROVE  FoundIsMeant
    BY DEF FoundIsMeant
  <2> DEFINE i == Built(asked.name, asked.p)
  <2>1. asked.name \in Builders /\ asked.p \in Params(asked.name)
    BY DEF CallInv
  <2>2. /\ Accepts(i, Signers(asked.name, asked.p), chain)
        /\ found = [accounts |-> AccountsOf(i), args |-> ArgsOf(i)]
    BY DEF CallInv
  <2>3. asked.name # "stake"
    BY <2>1, <2>2, StakeIsNotAccepted DEF Built
  <2>4. IsMeant(asked.name, asked.p) /\ ReadAsMeant(asked.name, asked.p)
    BY <2>1, <2>3, AccountsAreMeant, ArgumentsAreMeant
  <2> QED BY <2>2, <2>4 DEF FoundIsMeant, IsMeant, ReadAsMeant
<1> QED BY <1>1, CallInvariant, PTL

\* MeantIsTaken, for every builder but ixStake: an instruction the program would
\* take from a client that names accounts it takes from the builder.
THEOREM TakenAsMeant ==
  ASSUME Builders \subseteq DOMAIN Contexts \ {"stake"}, BoostIdsFit
  PROVE  CallSpec => []MeantIsTaken
<1>1. CallInv => MeantIsTaken
  <2> SUFFICES ASSUME CallInv, outcome = "refused"
               PROVE  MeantIsTaken
    BY DEF MeantIsTaken
  <2>1. asked.name \in Builders /\ asked.p \in Params(asked.name)
    BY DEF CallInv
  <2>2. ~ Accepts(Built(asked.name, asked.p), Signers(asked.name, asked.p), chain)
    BY DEF CallInv
  <2>3. asked.name = "upsert_boost_config" => asked.p.kind \in 0 .. 4
    BY <2>1 DEF Params
  <2> QED BY <2>1, <2>2, <2>3, BuiltIsAccepted DEF MeantIsTaken
<1> QED BY <1>1, CallInvariant, PTL

\* The finding of run calls_stake for every chain: what ixStake builds is never
\* taken, by whomever it is signed.
THEOREM StakeNeverTaken ==
  CallSpec => [](outcome = "taken" => asked.name # "stake")
<1>1. CallInv => (outcome = "taken" => asked.name # "stake")
  BY StakeIsNotAccepted DEF CallInv, Built
<1> QED BY <1>1, CallInvariant, PTL
=============================================================================
