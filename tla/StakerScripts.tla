--------------------------- MODULE StakerScripts ---------------------------
(***************************************************************************)
(* The scripts of miners and stakers against the pool: stake.ts, claim.ts, *)
(* unstake.ts, mine.ts and list-positions.ts.  What a script reads is old  *)
(* when its transaction arrives: other runs, of the same wallet too, have  *)
(* come in between.  A transaction is what a builder of the SDK makes of   *)
(* what was read; it has an effect when the program accepts it and         *)
(* StakingPool allows the instruction at that moment.  stake.ts has none:  *)
(* the accounts of its instruction are not in the order of the program.    *)
(* Positions come from before ids, or from whoever else writes to the      *)
(* program (Elsewhere).                                                    *)
(*                                                                         *)
(* The token accounts of the wallets exist (ensureAta is in WalletScripts) *)
(* and there is one treasury (Setup says what becomes of two).             *)
(***************************************************************************)
EXTENDS StakingPool, Transactions, Instructions

CONSTANT Jobs   \* Jobs[r]: script, wallet and environment of run r

RunsOf(script) == {r \in Runs : Jobs[r].script = script}
StakeRuns == RunsOf("stake.ts")

ASSUME JobsAssumption ==
  \A r \in Runs : Jobs[r].wallet \in Users /\ Jobs[r].positionId \in Int

VARIABLE view   \* what each run has read, built and printed

scriptVars == <<vars, stage, tx, view>>

NewView == [positionId |-> None, ix |-> None, acc |-> None, listed |-> <<>>]

XNT_MINT == <<"XNT">>
GAME_MINT == <<"GAME">>
TreasuryVault == <<"treasury-vault">>
StakingVault == <<"staking-vault">>
KeyOf(u) == <<u>>
UserGameAta(r) == Ata(GAME_MINT, KeyOf(Jobs[r].wallet))
UserXntAta(r) == Ata(XNT_MINT, KeyOf(Jobs[r].wallet))

\* What an instruction finds on the chain.
Chain ==
  [accounts |-> {findGlobalConfig, findStakingPool, XNT_MINT, GAME_MINT,
                 TreasuryVault, StakingVault}
                \cup {Ata(m, KeyOf(u)) : m \in {XNT_MINT, GAME_MINT}, u \in Users}
                \cup {PositionAddress(KeyOf(s[1]), s[2]) : s \in {s \in Slots : positions[s].open}},
   admin |-> None, xntMint |-> XNT_MINT, gameMint |-> GAME_MINT,
   treasury |-> TreasuryVault, poolTreasury |-> TreasuryVault, stakingVault |-> StakingVault,
   nextPositionId |-> [k \in {KeyOf(u) : u \in Users} |-> nextPositionId[k[1]]]]

(***************************************************************************)
(* Reading and building.                                                   *)
(***************************************************************************)
\* The instruction is ready, unless a builder has thrown.
Ready(i) == Encodes(i) /\ UNCHANGED vars

\* stake.ts: the next id, or 1 when there is no account or no id in it yet.
StakePositionId(r) ==
  IF nextPositionId[Jobs[r].wallet] = 0 THEN 1 ELSE nextPositionId[Jobs[r].wallet]

StakeParams(r) ==
  [owner |-> KeyOf(Jobs[r].wallet), stakingVault |-> StakingVault,
   treasuryXntVault |-> TreasuryVault, userGameAccount |-> UserGameAta(r),
   userXntAccount |-> UserXntAta(r), amount |-> Jobs[r].amount, lockDays |-> Jobs[r].lockDays,
   positionId |-> StakePositionId(r)]

StakeBuilds(r) ==
  /\ Build(r)
  /\ r \in StakeRuns
  /\ LET i == ixStake(StakeParams(r))
     IN /\ Ready(i)
        /\ view' = [view EXCEPT ![r].positionId = StakePositionId(r), ![r].ix = i]

\* claim.ts takes the treasury from global_config, unstake.ts has both vaults
\* written down; POSITION_ID is checked before anything else.
ClaimBuilds(r) ==
  /\ Build(r)
  /\ r \in RunsOf("claim.ts")
  /\ Jobs[r].positionId >= 0
  /\ LET i == ixClaim([owner |-> KeyOf(Jobs[r].wallet), treasuryXntVault |-> Chain.treasury,
                           userXntAccount |-> UserXntAta(r), positionId |-> Jobs[r].positionId])
     IN /\ Ready(i)
        /\ view' = [view EXCEPT ![r].positionId = Jobs[r].positionId, ![r].ix = i]

UnstakeBuilds(r) ==
  /\ Build(r)
  /\ r \in RunsOf("unstake.ts")
  /\ Jobs[r].positionId >= 0
  /\ LET i == ixUnstake([owner |-> KeyOf(Jobs[r].wallet), stakingVault |-> StakingVault,
                             treasuryXntVault |-> TreasuryVault,
                             userGameAccount |-> UserGameAta(r), userXntAccount |-> UserXntAta(r),
                             positionId |-> Jobs[r].positionId])
     IN /\ Ready(i)
        /\ view' = [view EXCEPT ![r].positionId = Jobs[r].positionId, ![r].ix = i]

MineBuilds(r) ==
  /\ Build(r)
  /\ r \in RunsOf("mine.ts")
  /\ LET i == ixMineWithRig([payer |-> KeyOf(Jobs[r].wallet), gameMint |-> GAME_MINT,
                                 userGameAccount |-> UserGameAta(r),
                                 userXntAccount |-> UserXntAta(r),
                                 treasuryXntVault |-> Chain.treasury, rigId |-> Jobs[r].rigId])
     IN /\ Ready(i)
        /\ view' = [view EXCEPT ![r].ix = i]

\* A POSITION_ID below 0 is refused by the script; a number that does not fit its
\* bytes makes the SDK throw.
Unsendable(r) ==
  \/ r \in RunsOf("claim.ts") \cup RunsOf("unstake.ts") /\ Jobs[r].positionId \notin 0 .. U32Max
  \/ r \in RunsOf("mine.ts") /\ Jobs[r].rigId \notin 0 .. U8Max
  \/ r \in StakeRuns /\ (Jobs[r].amount \notin 0 .. U64Max \/ Jobs[r].lockDays \notin 0 .. U16Max)

Throws(r) ==
  /\ Goes(r, "started", "failed")
  /\ Unsendable(r)
  /\ UNCHANGED <<vars, tx, view>>

\* list-positions.ts reads the accumulator first and the positions in a second
\* call; pending is computed from both.
ListReadsPool(r) ==
  /\ stage[r] = "started" /\ view[r].acc = None
  /\ r \in RunsOf("list-positions.ts")
  /\ view' = [view EXCEPT ![r].acc = stakingPool.acc_reward_per_share]
  /\ UNCHANGED <<vars, stage, tx>>

\* Mutant: the debt of a position is left out.
AccruedIn(r, position) == (position.effective_stake * view[r].acc) \div PRECISION

PendingIn(r, position) ==
  LET accrued == (position.effective_stake * view[r].acc) \div PRECISION
  IN IF accrued > position.reward_debt THEN accrued - position.reward_debt ELSE 0

OpenPositions(u) == {s \in Slots : s[1] = u /\ positions[s].open}

ListReadsPositions(r) ==
  /\ EndsUnsent(r)
  /\ r \in RunsOf("list-positions.ts")
  /\ view[r].acc # None
  /\ view' = [view EXCEPT ![r].listed =
       [s \in OpenPositions(Jobs[r].wallet) |-> PendingIn(r, positions[s])]]
  /\ UNCHANGED vars

(***************************************************************************)
(* The transaction arrives.                                                *)
(***************************************************************************)
Taken(r) ==
  /\ Land(r)
  /\ Accepts(view[r].ix, {KeyOf(Jobs[r].wallet)}, Chain)
  /\ UNCHANGED view

\* The position the instruction names.
Hits(r, id) ==
  AccountsOf(view[r].ix).user_stake_position
    = PositionAddress(KeyOf(Jobs[r].wallet), id)

\* There is no such action for stake.ts: the program takes none of its
\* instructions, whatever is on the chain (StakeScriptRefused in Scripts_proofs).
ClaimLands(r) ==
  /\ IsOpen(r)
  /\ r \in RunsOf("claim.ts")
  /\ Taken(r)
  /\ \E id \in PositionIds : Hits(r, id) /\ Claim(Jobs[r].wallet, id)

UnstakeLands(r) ==
  /\ IsOpen(r)
  /\ r \in RunsOf("unstake.ts")
  /\ Taken(r)
  /\ \E id \in PositionIds : Hits(r, id) /\ Unstake(Jobs[r].wallet, id)

MineLands(r) ==
  /\ IsOpen(r)
  /\ r \in RunsOf("mine.ts")
  /\ Taken(r)
  /\ \E deposit \in Deposits, reward \in Rewards : MineWithRig(Jobs[r].wallet, deposit, reward)

\* Whatever else is sent to the program, of these wallets or others, and the clock.
Elsewhere == Next /\ UNCHANGED <<stage, tx, view>>

ScriptInit ==
  /\ Init /\ TxInit
  /\ view = [r \in Runs |-> NewView]

\* What a run does by itself, once started.
ScriptStep(r) ==
  \/ StakeBuilds(r) \/ ClaimBuilds(r) \/ UnstakeBuilds(r) \/ MineBuilds(r) \/ Throws(r)
  \/ ListReadsPool(r) \/ ListReadsPositions(r)
  \/ (Send(r) \/ Confirm(r) \/ SeeRefusal(r) \/ GiveUp(r)) /\ UNCHANGED <<vars, view>>

ScriptNext ==
  \/ \E r \in Runs :
       \/ ScriptStep(r)
       \/ (Start(r) \/ Break(r) \/ LoseTouch(r) \/ Refuse(r)) /\ UNCHANGED <<vars, view>>
       \/ ClaimLands(r) \/ UnstakeLands(r) \/ MineLands(r)
  \/ NextBlock /\ UNCHANGED <<vars, view>>
  \/ Elsewhere

ScriptSpec == ScriptInit /\ [][ScriptNext]_scriptVars
-----------------------------------------------------------------------------
(***************************************************************************)
(* Properties.                                                             *)
(***************************************************************************)
\* The principal of a position is paid to one run of unstake.ts: a second one,
\* started because the first seemed to fail, finds nothing under the same id,
\* and never what was staked in between.  (The last id is opened more than once.)
OneUnstakePerId ==
  \A r, q \in {x \in RunsOf("unstake.ts") : tx[x].status = "landed"} :
    /\ Jobs[r].wallet = Jobs[q].wallet
    /\ Jobs[r].positionId = Jobs[q].positionId /\ Jobs[r].positionId < U32Max
    => r = q

\* list-positions.ts reads twice, and mining, claims and stakes come in between.
\* It lists what is open at the second read, and never more for a position
\* than claim would pay at that moment.
ListNeverOverstates ==
  [][\A r \in Runs : stage[r] # "done" /\ stage'[r] = "done" /\ view[r].acc # None =>
       LET listed == view'[r].listed IN
       /\ DOMAIN listed = OpenPositions(Jobs[r].wallet)
       /\ \A s \in DOMAIN listed : listed[s] <= Pending(s)]_scriptVars
=============================================================================
