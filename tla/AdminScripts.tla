---------------------------- MODULE AdminScripts ----------------------------
(***************************************************************************)
(* The set-up as the admin does it: init-global.ts, init-treasury.ts and   *)
(* init-staking.ts, each run again when it seems to have failed.  Vaults   *)
(* get a fresh key pair in every run, so a run cannot do again what an     *)
(* earlier one did; a second init-treasury.ts that lands makes a second    *)
(* treasury.  Setup says that this is fatal once there is a pool.          *)
(*                                                                         *)
(* The scripts do not look at the chain before they send.  What keeps the  *)
(* arena whole is the order the admin runs them in, MayStart: treasury     *)
(* before pool, and nothing while an earlier transaction may still land.   *)
(***************************************************************************)
EXTENDS Setup, Transactions

CONSTANTS
  Script,      \* Script[r]: which script run r is
  FreshKey,      \* FreshKey[r]: what Keypair.generate() gives run r
  AdminKey,    \* the wallet of the admin
  ShareOfScript, IntervalOfScript,   \* 3000 and 100000000, as init-global.ts has them
  U8Max, KeyNumber, None             \* see Instructions

Sdk == INSTANCE Instructions

ASSUME KeysAreFresh ==
  /\ FreshKey \in [Runs -> Addresses]
  /\ \A r, q \in Runs : FreshKey[r] = FreshKey[q] => r = q

ASSUME AdminAssumption ==
  AdminKey \in Keys /\ ShareOfScript \in Nat /\ IntervalOfScript \in Nat

VARIABLE sent   \* the instruction each run has built

adminVars == <<setupVars, stage, tx, sent>>

XNT_MINT == <<"XNT">>
GAME_MINT == <<"game-mint.json">>
KeyOf(k) == <<k>>

\* What an instruction finds on the chain.
Chain ==
  [accounts |-> {XNT_MINT}
      \cup (IF globalConfig.exists THEN {Sdk!findGlobalConfig, GAME_MINT} ELSE {})
      \cup (IF stakingPool.exists THEN {Sdk!findStakingPool} ELSE {})
      \cup {KeyOf(a) : a \in {b \in Addresses : tokenAccounts[b] # "none"}},
   admin |-> KeyOf(globalConfig.admin), xntMint |-> XNT_MINT, gameMint |-> GAME_MINT,
   treasury |-> KeyOf(globalConfig.treasury_xnt_vault),
   poolTreasury |-> KeyOf(stakingPool.treasury_xnt_vault),
   stakingVault |-> KeyOf(stakingPool.staking_vault), nextPositionId |-> <<>>]

Of(script) == {r \in Runs : Script[r] = script}

\* No transaction of an earlier run may still land, no pool has been asked for
\* when a treasury is made, and the steps come in order.
Rank == [s \in {"init-global.ts", "init-treasury.ts", "init-staking.ts"} |->
           CASE s = "init-global.ts" -> 1 [] s = "init-treasury.ts" -> 2
             [] s = "init-staking.ts" -> 3]
MayStart(r) ==
  \A q \in Runs \ {r} : stage[q] # "off" =>
    /\ stage[q] \in {"done", "failed"} /\ ~ IsOpen(q)
    /\ Rank[Script[q]] <= Rank[Script[r]]

Begin(r) == MayStart(r) /\ Start(r) /\ UNCHANGED <<setupVars, sent>>

\* The signers besides the payer: the key pair of the GAME mint, or a new one.
Extra(r) == IF r \in Of("init-global.ts") THEN GAME_MINT ELSE KeyOf(FreshKey[r])

InitGlobalBuilds(r) ==
  /\ r \in Of("init-global.ts")
  /\ Build(r)
  /\ sent' = [sent EXCEPT ![r] = Sdk!ixInitializeGlobal(
       [admin |-> KeyOf(AdminKey), payer |-> KeyOf(AdminKey), xntMint |-> XNT_MINT,
        gameMint |-> GAME_MINT, halvingInterval |-> IntervalOfScript,
        stakingShareBps |-> ShareOfScript])]
  /\ UNCHANGED setupVars

InitTreasuryBuilds(r) ==
  /\ r \in Of("init-treasury.ts")
  /\ Build(r)
  /\ sent' = [sent EXCEPT ![r] = Sdk!ixInitializeTreasuryVault(
       [admin |-> KeyOf(AdminKey), xntMint |-> XNT_MINT,
        treasuryXntVault |-> KeyOf(FreshKey[r])])]
  /\ UNCHANGED setupVars

InitStakingBuilds(r) ==
  /\ r \in Of("init-staking.ts")
  /\ Build(r)
  /\ sent' = [sent EXCEPT ![r] = Sdk!ixInitializeStakingPool(
       [admin |-> KeyOf(AdminKey), gameMint |-> GAME_MINT, xntMint |-> XNT_MINT,
        stakingVault |-> KeyOf(FreshKey[r])])]
  /\ UNCHANGED setupVars

Taken(r) ==
  /\ Land(r)
  /\ Sdk!Accepts(sent[r], {KeyOf(AdminKey), Extra(r)}, Chain)
  /\ UNCHANGED sent

GlobalLands(r) ==
  /\ r \in Of("init-global.ts")
  /\ Taken(r)
  /\ LET args == Sdk!ArgsOf(sent[r]) IN
     InitializeGlobal(AdminKey, args[1][1], args[2], args[3])

TreasuryLands(r) ==
  /\ r \in Of("init-treasury.ts")
  /\ Taken(r)
  /\ InitializeTreasuryVault(AdminKey, FreshKey[r])

PoolLands(r) ==
  /\ r \in Of("init-staking.ts")
  /\ Taken(r)
  /\ InitializeStakingPool(AdminKey, FreshKey[r])

AdminInit ==
  /\ SetupInit /\ TxInit
  /\ sent = [r \in Runs |-> None]

AdminNext ==
  \/ \E r \in Runs :
       \/ Begin(r)
       \/ InitGlobalBuilds(r) \/ InitTreasuryBuilds(r) \/ InitStakingBuilds(r)
       \/ GlobalLands(r) \/ TreasuryLands(r) \/ PoolLands(r)
       \/ /\ \/ Send(r) \/ Confirm(r) \/ SeeRefusal(r) \/ GiveUp(r)
             \/ Break(r) \/ LoseTouch(r) \/ Refuse(r)
          /\ UNCHANGED <<setupVars, sent>>
  \/ NextBlock /\ UNCHANGED <<setupVars, sent>>

AdminSpec == AdminInit /\ [][AdminNext]_adminVars
-----------------------------------------------------------------------------
(***************************************************************************)
(* Properties.                                                             *)
(***************************************************************************)

\* Whatever the scripts report, and however often they are run again: when the
\* admin keeps the order and waits until nothing is open, a pool that a run of
\* init-staking.ts has made works, and keeps working.
PatientSetupWorks ==
  (\E r \in Of("init-staking.ts") : tx[r].status = "landed") =>
    Operates /\ stakingPool.treasury_xnt_vault \in Treasuries

\* A script that reports success has done its part, and the account it prints
\* is the one in use, or, of two treasuries made before the pool, was.
SuccessIsTrue ==
  \A r \in Runs : stage[r] = "done" =>
    /\ globalConfig.exists
    /\ r \in Of("init-treasury.ts") => FreshKey[r] \in Treasuries
    /\ r \in Of("init-staking.ts") => stakingPool.staking_vault = FreshKey[r]
=============================================================================
