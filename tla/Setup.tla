------------------------------- MODULE Setup -------------------------------
(***************************************************************************)
(* How the arena is set up: initialize_global creates the configuration    *)
(* and the GAME mint, initialize_treasury_vault the account that collects  *)
(* XNT, and initialize_staking_pool the pool with its vault.  They are     *)
(* separate transactions, sent by scripts that an admin runs one after the *)
(* other, and each may be sent again.                                      *)
(*                                                                         *)
(* The address of the treasury is recorded twice, in global_config and in  *)
(* staking_pool.  Every later instruction has the constraint that the two  *)
(* agree.  Of these instructions this module has the constraint, and the   *)
(* account their XNT goes to or comes from.  The mints are created once    *)
(* and recorded once; the constraints on them cannot fail.                 *)
(***************************************************************************)
EXTENDS ArenaMath, FiniteSets, Functions

CONSTANTS
  Keys,                   \* who may sign
  Addresses,              \* where token accounts may be created
  Default,                \* Pubkey::default(), which is no address
  ShareArgs,              \* shares and intervals that may be asked for;
  IntervalArgs,           \* 0 asks for the default
  DefaultShareBps,        \* 3_000
  DefaultHalvingInterval, \* 10^10
  Amounts,                \* XNT a run costs or a claim pays
  MaxXnt                  \* XNT all treasuries hold together; bounds the model

ASSUME SetupAssumption ==
  /\ IsFiniteSet(Addresses) /\ Default \notin Addresses
  /\ ShareArgs \subseteq Nat /\ IntervalArgs \subseteq Nat
  /\ DefaultShareBps \in 1 .. BPS
  /\ DefaultHalvingInterval \in Nat \ {0}
  /\ Amounts \subseteq Nat /\ MaxXnt \in Nat

VARIABLES
  globalConfig,   \* admin, treasury, interval and share, once created
  stakingPool,    \* the two vaults of the pool, once created
  tokenAccounts,  \* what the token account at each address is for
  balance         \* the XNT in it

setupVars == <<globalConfig, stakingPool, tokenAccounts, balance>>

NoConfig == [exists |-> FALSE, admin |-> Default, treasury_xnt_vault |-> Default,
             halving_interval |-> 0, staking_share_bps |-> 0]
NoPool == [exists |-> FALSE, staking_vault |-> Default, treasury_xnt_vault |-> Default]

Treasuries == {a \in Addresses : tokenAccounts[a] = "treasury"}
StakingVaults == {a \in Addresses : tokenAccounts[a] = "staking"}

SetupInit ==
  /\ globalConfig = NoConfig
  /\ stakingPool = NoPool
  /\ tokenAccounts = [a \in Addresses |-> "none"]
  /\ balance = [a \in Addresses |-> 0]

\* Mutant: an interval of 0 is taken as it is.
IntervalAsGiven(arg) == arg

HalvingIntervalOf(arg) == IF arg = 0 THEN DefaultHalvingInterval ELSE arg
StakingShareOf(arg) == IF arg = 0 THEN DefaultShareBps ELSE arg

InitializeGlobal(payer, admin, shareArg, intervalArg) ==
  /\ ~ globalConfig.exists
  /\ payer = admin
  /\ StakingShareOf(shareArg) <= BPS
  /\ globalConfig' = [exists |-> TRUE, admin |-> admin, treasury_xnt_vault |-> Default,
                      halving_interval |-> HalvingIntervalOf(intervalArg),
                      staking_share_bps |-> StakingShareOf(shareArg)]
  /\ UNCHANGED <<stakingPool, tokenAccounts, balance>>

IsAdmin(signer) == globalConfig.exists /\ signer = globalConfig.admin

\* Mutant: a treasury that exists already is taken.
FreshOrTreasury(a) == tokenAccounts[a] \in {"none", "treasury"}

\* init: there must be no account at the address yet.
Fresh(a) == tokenAccounts[a] = "none"

InitializeTreasuryVault(signer, a) ==
  /\ IsAdmin(signer)
  /\ Fresh(a)
  /\ tokenAccounts' = [tokenAccounts EXCEPT ![a] = "treasury"]
  /\ globalConfig' = [globalConfig EXCEPT !.treasury_xnt_vault = a]
  /\ UNCHANGED <<stakingPool, balance>>

\* Mutant: the pool may be made before there is a treasury.
InitializeStakingPoolEarly(signer, a) ==
  /\ IsAdmin(signer)
  /\ ~ stakingPool.exists
  /\ Fresh(a)
  /\ tokenAccounts' = [tokenAccounts EXCEPT ![a] = "staking"]
  /\ stakingPool' = [exists |-> TRUE, staking_vault |-> a,
                     treasury_xnt_vault |-> globalConfig.treasury_xnt_vault]
  /\ UNCHANGED <<globalConfig, balance>>

\* Mutant: the pool records the new vault in the place of the treasury.
InitializeStakingPoolSwapped(signer, a) ==
  /\ IsAdmin(signer)
  /\ globalConfig.treasury_xnt_vault # Default
  /\ ~ stakingPool.exists
  /\ Fresh(a)
  /\ tokenAccounts' = [tokenAccounts EXCEPT ![a] = "staking"]
  /\ stakingPool' = [exists |-> TRUE, staking_vault |-> globalConfig.treasury_xnt_vault,
                     treasury_xnt_vault |-> a]
  /\ UNCHANGED <<globalConfig, balance>>

InitializeStakingPool(signer, a) ==
  /\ IsAdmin(signer)
  /\ globalConfig.treasury_xnt_vault # Default
  /\ ~ stakingPool.exists
  /\ Fresh(a)
  /\ tokenAccounts' = [tokenAccounts EXCEPT ![a] = "staking"]
  /\ stakingPool' = [exists |-> TRUE, staking_vault |-> a,
                     treasury_xnt_vault |-> globalConfig.treasury_xnt_vault]
  /\ UNCHANGED <<globalConfig, balance>>

\* Mutant: it is not asked whether the two records agree.
OperatesAnyhow == globalConfig.exists /\ stakingPool.exists

\* What mine_with_rig, stake, claim and unstake have in common.
Operates ==
  /\ globalConfig.exists /\ stakingPool.exists
  /\ stakingPool.treasury_xnt_vault = globalConfig.treasury_xnt_vault

\* mine_with_rig pays into the account that global_config names, claim and
\* unstake out of the one that staking_pool names.
PayIn(amount) ==
  /\ Operates
  /\ SumFunction(balance) + amount <= MaxXnt
  /\ balance' = [balance EXCEPT ![globalConfig.treasury_xnt_vault] = @ + amount]
  /\ UNCHANGED <<globalConfig, stakingPool, tokenAccounts>>

PayOut(amount) ==
  /\ Operates
  /\ balance[stakingPool.treasury_xnt_vault] >= amount
  /\ balance' = [balance EXCEPT ![stakingPool.treasury_xnt_vault] = @ - amount]
  /\ UNCHANGED <<globalConfig, stakingPool, tokenAccounts>>

SetupNext ==
  \/ \E payer, admin \in Keys, shareArg \in ShareArgs, intervalArg \in IntervalArgs :
       InitializeGlobal(payer, admin, shareArg, intervalArg)
  \/ \E signer \in Keys, a \in Addresses : InitializeTreasuryVault(signer, a)
  \/ \E signer \in Keys, a \in Addresses : InitializeStakingPool(signer, a)
  \/ \E amount \in Amounts : PayIn(amount) \/ PayOut(amount)

SetupSpec == SetupInit /\ [][SetupNext]_setupVars
-----------------------------------------------------------------------------
(***************************************************************************)
(* Properties.                                                             *)
(***************************************************************************)

\* Every variable has its type.
SetupTypeOK ==
  /\ globalConfig \in [exists : BOOLEAN, admin : Keys \cup {Default},
                       treasury_xnt_vault : Addresses \cup {Default},
                       halving_interval : Nat, staking_share_bps : 0 .. BPS]
  /\ stakingPool \in [exists : BOOLEAN, staking_vault : Addresses \cup {Default},
                      treasury_xnt_vault : Addresses \cup {Default}]
  /\ tokenAccounts \in [Addresses -> {"none", "treasury", "staking"}]
  /\ balance \in [Addresses -> Nat]

\* Whatever initialize_global is given, what it stores is what StakingPool and
\* Emission assume: stakers get a share, and halving never divides by 0.
ConfigIsUsable ==
  globalConfig.exists =>
    globalConfig.staking_share_bps \in 1 .. BPS /\ globalConfig.halving_interval > 0

\* In whatever order the set-up is sent, a pool that exists has two vaults, and
\* they are token accounts of the right kind.
PoolHasItsVaults ==
  stakingPool.exists =>
    /\ globalConfig.exists
    /\ stakingPool.treasury_xnt_vault \in Treasuries
    /\ globalConfig.treasury_xnt_vault \in Treasuries
    /\ stakingPool.staking_vault \in StakingVaults

\* XNT is only ever paid into the account it can be paid out of again, even
\* after a second initialize_treasury_vault.
DepositsCanBePaid ==
  \A a \in Addresses : balance[a] > 0 => a = stakingPool.treasury_xnt_vault

\* Once the two records differ they differ for ever: no instruction takes an
\* account that exists back as the treasury, so the pool is never used again.
SeparatedForGood ==
  [][stakingPool.exists /\ ~ Operates => ~ Operates']_setupVars

\* What unstake.ts takes for granted of the vaults it has written down, "known
\* from init": an arena that has worked keeps working with them.
KnownVaultsWork == [][Operates => Operates']_setupVars
=============================================================================
