------------------------ MODULE GlobalConfig_proofs ------------------------
(***************************************************************************)
(* Theorems about what global_config holds: the count and the level of the *)
(* emission (Emission), the share, the interval and the addresses of the   *)
(* set-up (Setup), and what the admin's scripts make of the latter         *)
(* (AdminScripts), for any number of runs, keys and addresses.             *)
(***************************************************************************)
EXTENDS AdminScripts, Emission, Transactions_proofs

-----------------------------------------------------------------------------
(***************************************************************************)
(* Emission: with an interval that is not too small against the largest    *)
(* reward, the u8 never wraps, and the supply is capped.                   *)
(***************************************************************************)
Cap == LastLevel * HalvingInterval + MaxReward

\* The inductive invariant.  The level says which side of the cap the supply
\* is on, so the two have to be proved together.
EmissionInv ==
  /\ totalMinted \in Nat
  /\ totalMinted < Cap
  /\ halvingLevel = totalMinted \div HalvingInterval

LEMMA CapFacts ==
  /\ HalvingInterval \in Nat \ {0} /\ LastLevel \in Nat \ {0} /\ MaxReward \in Nat
  /\ LastLevel * HalvingInterval \in Nat \ {0}
  /\ Cap \in Nat /\ 0 < Cap
<1>1. /\ HalvingInterval \in Nat \ {0} /\ LastLevel \in Nat \ {0} /\ MaxReward \in Nat
  BY EmissionAssumption
<1>2. LastLevel * HalvingInterval \in Nat \ {0}
  BY <1>1
<1> QED BY <1>1, <1>2 DEF Cap

LEMMA QuotientFacts ==
  ASSUME NEW n \in Nat, NEW b \in Nat \ {0}, NEW k \in Nat, n < k * b
  PROVE  n \div b \in Nat /\ n \div b < k
<1>1. n \div b \in Nat /\ (n \div b) * b <= n
  OBVIOUS
<1> DEFINE q == n \div b
<1>2. q \in Nat /\ q * b < k * b
  <2>1. q * b \in Int /\ k * b \in Int
    BY <1>1
  <2> QED BY <1>1, <2>1
<1> HIDE DEF q
<1>3. q < k
  BY <1>2
<1> QED BY <1>2, <1>3 DEF q

LEMMA QuotientGrows ==
  ASSUME NEW n \in Nat, NEW m \in Nat, n <= m, NEW b \in Nat \ {0}
  PROVE  n \div b <= m \div b
OBVIOUS

\* Below the cap the cast to u8 keeps the level.
LEMMA LevelFits ==
  ASSUME SlowHalving, NEW n \in Nat, n < Cap
  PROVE  LevelOf(n) = n \div HalvingInterval /\ n \div HalvingInterval \in 0 .. 255
<1>1. n < 256 * HalvingInterval
  BY CapFacts DEF SlowHalving, Cap
<1> DEFINE q == n \div HalvingInterval
<1>2. q \in Nat /\ q < 256
  BY <1>1, CapFacts, QuotientFacts
<1> HIDE DEF q
<1>3. q % 256 = q
  BY <1>2
<1> QED BY <1>2, <1>3 DEF LevelOf, q

\* A run keeps the supply below the cap: while there is a reward to mint, the
\* level is below LastLevel and so the supply below that many intervals.
LEMMA MineKeepsInv ==
  ASSUME SlowHalving, EmissionInv, NEW r \in RigIds, NEW boosts \in RewardBoosts, Mine(r, boosts)
  PROVE  EmissionInv' /\ totalMinted <= totalMinted'
<1> USE DEF EmissionInv
<1>1. halvingLevel \in 0 .. 255
  BY LevelFits
<1>2. PICK base \in BaseRewards(r, halvingLevel) : Mint(ClampedBoost(base, boosts))
  BY DEF Mine
<1> DEFINE w == ClampedBoost(base, boosts)
<1>3. w \in 0 .. MaxReward /\ (halvingLevel >= LastLevel => w = 0)
  BY <1>1, <1>2, RewardAssumption
<1> HIDE DEF w
<1>4. totalMinted + w < Cap
  <2>1. CASE halvingLevel >= LastLevel
    BY <1>3, <2>1
  <2>2. CASE halvingLevel < LastLevel
    <3>1. totalMinted < LastLevel * HalvingInterval
      <4> DEFINE q == totalMinted \div HalvingInterval
      <4>1. q \in Nat /\ totalMinted < q * HalvingInterval + HalvingInterval
        BY CapFacts
      <4>2. q + 1 <= LastLevel
        BY <2>2, <4>1, CapFacts
      <4> HIDE DEF q
      <4>3. (q + 1) * HalvingInterval <= LastLevel * HalvingInterval
        BY <4>1, <4>2, CapFacts
      <4>4. /\ (q + 1) * HalvingInterval = q * HalvingInterval + HalvingInterval
            /\ q * HalvingInterval \in Int
        BY <4>1, CapFacts
      <4> QED BY <4>1, <4>3, <4>4, CapFacts
    <3> QED BY <1>3, <3>1, CapFacts DEF Cap
  <2> QED BY <1>1, <2>1, <2>2, CapFacts
<1>5. totalMinted' = totalMinted + w
  <2>1. totalMinted + w <= U64Max
    BY <1>3, <1>4, CapFacts, WidthAssumption DEF SlowHalving, Cap
  <2> QED BY <1>2, <2>1 DEF Mint, SatAdd, MinOf, w
<1>6. halvingLevel' = totalMinted' \div HalvingInterval
  BY <1>2, <1>3, <1>4, <1>5, LevelFits DEF Mint
<1> QED BY <1>3, <1>4, <1>5, <1>6

LEMMA EmissionStep ==
  ASSUME SlowHalving, EmissionInv, [EmissionNext]_emissionVars
  PROVE  EmissionInv' /\ halvingLevel' >= halvingLevel
<1> USE DEF EmissionInv
<1>1. ASSUME NEW r \in RigIds, NEW boosts \in RewardBoosts, Mine(r, boosts)
      PROVE  EmissionInv' /\ halvingLevel' >= halvingLevel
  <2>1. EmissionInv' /\ totalMinted <= totalMinted'
    BY <1>1, MineKeepsInv
  <2>2. totalMinted \div HalvingInterval <= totalMinted' \div HalvingInterval
    BY <2>1, CapFacts, QuotientGrows
  <2>3. halvingLevel \in Nat /\ halvingLevel' \in Nat
    BY <2>1, LevelFits
  <2> QED BY <2>1, <2>2, <2>3
<1>2. CASE UpdateHalving
  <2>1. halvingLevel' = halvingLevel /\ totalMinted' = totalMinted /\ halvingLevel \in Nat
    BY <1>2, LevelFits DEF UpdateHalving
  <2> QED BY <2>1
<1>3. CASE UNCHANGED emissionVars
  <2>1. halvingLevel \in Nat
    BY LevelFits
  <2> QED BY <1>3, <2>1 DEF emissionVars
<1> QED BY <1>1, <1>2, <1>3 DEF EmissionNext

LEMMA EmissionInvariant ==
  ASSUME SlowHalving
  PROVE  EmissionSpec => []EmissionInv
<1>1. EmissionInit => EmissionInv
  BY CapFacts DEF EmissionInit, EmissionInv
<1>2. EmissionInv /\ [EmissionNext]_emissionVars => EmissionInv'
  BY EmissionStep
<1> QED BY <1>1, <1>2, PTL DEF EmissionSpec

\* Mining mints less than LastLevel intervals and one largest reward, ever,
\* whatever rigs and boosts are used and whenever update_halving is called.
THEOREM SupplyIsCapped ==
  ASSUME SlowHalving
  PROVE  EmissionSpec => []SupplyCapped
<1>1. EmissionInv => SupplyCapped
  BY DEF EmissionInv, SupplyCapped, Cap
<1> QED BY <1>1, EmissionInvariant, PTL

\* The level is the README's: the whole intervals minted, with no wrap.
THEOREM LevelIsExact ==
  ASSUME SlowHalving
  PROVE  EmissionSpec => []HalvingMatchesMinted
<1>1. EmissionInv => HalvingMatchesMinted
  BY DEF EmissionInv, HalvingMatchesMinted
<1> QED BY <1>1, EmissionInvariant, PTL

\* A halving is never undone.
THEOREM LevelIsMonotone ==
  ASSUME SlowHalving
  PROVE  EmissionSpec => LevelNeverFalls
<1>1. EmissionInv /\ [EmissionNext]_emissionVars => [halvingLevel' >= halvingLevel]_emissionVars
  BY EmissionStep
<1> QED BY <1>1, EmissionInvariant, PTL DEF EmissionSpec, LevelNeverFalls

-----------------------------------------------------------------------------
(***************************************************************************)
(* Setup: whatever order the instructions are sent in, and however often.  *)
(***************************************************************************)
\* The inductive invariant: the properties, and two facts about an arena that is
\* not complete yet.  Without the first nothing is known of the treasury that
\* initialize_staking_pool copies, without the second there might be deposits
\* for a pool that is still to come.
SetupInv ==
  /\ SetupTypeOK
  /\ ConfigIsUsable
  /\ globalConfig.treasury_xnt_vault \in Treasuries \cup {Default}
  /\ ~ stakingPool.exists => stakingPool.treasury_xnt_vault = Default
  /\ PoolHasItsVaults
  /\ DepositsCanBePaid

USE SetupAssumption, ScaleAssumption

\* Nothing has been sent.
LEMMA SetupInvInit == SetupInit => SetupInv
  BY DEF SetupInit, SetupInv, SetupTypeOK, ConfigIsUsable, PoolHasItsVaults,
         DepositsCanBePaid, NoConfig, NoPool, Treasuries, StakingVaults

\* The configuration is created once, and what is stored is usable.
LEMMA GlobalKeepsInv ==
  ASSUME SetupInv, NEW payer \in Keys, NEW admin \in Keys,
         NEW shareArg \in Nat, NEW intervalArg \in Nat,
         InitializeGlobal(payer, admin, shareArg, intervalArg)
  PROVE  SetupInv'
<1>1. ~ stakingPool.exists
  BY DEF SetupInv, PoolHasItsVaults, InitializeGlobal
<1>2. /\ HalvingIntervalOf(intervalArg) \in Nat \ {0}
      /\ StakingShareOf(shareArg) \in 1 .. BPS
  BY DEF HalvingIntervalOf, StakingShareOf, InitializeGlobal
<1>3. SetupTypeOK' /\ ConfigIsUsable'
  BY <1>2 DEF SetupInv, SetupTypeOK, ConfigIsUsable, InitializeGlobal
<1> QED
  BY <1>1, <1>3
  DEF SetupInv, SetupTypeOK, PoolHasItsVaults, DepositsCanBePaid, InitializeGlobal, Treasuries

\* A new treasury takes no address that is in use, so those recorded keep their kind.
LEMMA TreasuryKeepsInv ==
  ASSUME SetupInv, NEW signer \in Keys, NEW a \in Addresses,
         InitializeTreasuryVault(signer, a)
  PROVE  SetupInv'
<1>1. /\ a \in Treasuries'
      /\ Treasuries \subseteq Treasuries'
      /\ StakingVaults \subseteq StakingVaults'
  BY DEF SetupInv, SetupTypeOK, InitializeTreasuryVault, Fresh, Treasuries, StakingVaults
<1>2. SetupTypeOK' /\ ConfigIsUsable' /\ DepositsCanBePaid'
  BY DEF SetupInv, SetupTypeOK, ConfigIsUsable, DepositsCanBePaid, InitializeTreasuryVault
<1>3. globalConfig'.exists /\ globalConfig'.treasury_xnt_vault = a
  BY DEF SetupInv, SetupTypeOK, InitializeTreasuryVault, IsAdmin
<1>4. PoolHasItsVaults'
  BY <1>1, <1>3 DEF SetupInv, PoolHasItsVaults, InitializeTreasuryVault
<1> QED
  BY <1>1, <1>2, <1>3, <1>4 DEF SetupInv, InitializeTreasuryVault

\* The pool copies a treasury that exists, and holds no deposit before.
LEMMA PoolKeepsInv ==
  ASSUME SetupInv, NEW signer \in Keys, NEW a \in Addresses,
         InitializeStakingPool(signer, a)
  PROVE  SetupInv'
<1>1. /\ a \in StakingVaults'
      /\ Treasuries \subseteq Treasuries'
  BY DEF SetupInv, SetupTypeOK, InitializeStakingPool, Fresh, Treasuries, StakingVaults
<1>2. globalConfig.treasury_xnt_vault \in Treasuries
  BY DEF SetupInv, InitializeStakingPool
<1>3. SetupTypeOK' /\ ConfigIsUsable'
  BY DEF SetupInv, SetupTypeOK, ConfigIsUsable, InitializeStakingPool
<1>4. PoolHasItsVaults'
  BY <1>1, <1>2 DEF PoolHasItsVaults, InitializeStakingPool, IsAdmin
<1>5. DepositsCanBePaid'
  <2>1. \A b \in Addresses : ~ balance[b] > 0
    BY DEF SetupInv, DepositsCanBePaid, InitializeStakingPool
  <2> QED BY <2>1 DEF DepositsCanBePaid, InitializeStakingPool
<1> QED
  BY <1>1, <1>2, <1>3, <1>4, <1>5 DEF SetupInv, InitializeStakingPool

\* A deposit goes to the account that is named twice, and so can be paid out.
LEMMA PaymentKeepsInv ==
  ASSUME SetupInv, NEW amount \in Amounts, PayIn(amount) \/ PayOut(amount)
  PROVE  SetupInv'
<1>1. /\ stakingPool.treasury_xnt_vault \in Addresses
      /\ stakingPool.treasury_xnt_vault = globalConfig.treasury_xnt_vault
  BY DEF SetupInv, PoolHasItsVaults, PayIn, PayOut, Operates, Treasuries
<1>2. UNCHANGED <<globalConfig, stakingPool, tokenAccounts>>
  BY DEF PayIn, PayOut
<1>3. balance' \in [Addresses -> Nat]
  BY <1>1 DEF SetupInv, SetupTypeOK, PayIn, PayOut
<1>4. \A a \in Addresses \ {stakingPool.treasury_xnt_vault} : balance'[a] = balance[a]
  BY <1>1 DEF SetupInv, SetupTypeOK, PayIn, PayOut
<1>5. SetupTypeOK' /\ ConfigIsUsable' /\ PoolHasItsVaults'
  BY <1>2, <1>3 DEF SetupInv, SetupTypeOK, ConfigIsUsable, PoolHasItsVaults,
                    Treasuries, StakingVaults
<1>6. DepositsCanBePaid'
  BY <1>2, <1>4 DEF SetupInv, DepositsCanBePaid
<1> QED
  BY <1>2, <1>5, <1>6 DEF SetupInv, Treasuries

LEMMA SetupInvNext == SetupInv /\ [SetupNext]_setupVars => SetupInv'
<1> SUFFICES ASSUME SetupInv, [SetupNext]_setupVars PROVE SetupInv'
  OBVIOUS
<1>1. CASE \E payer, admin \in Keys, shareArg \in ShareArgs, intervalArg \in IntervalArgs :
             InitializeGlobal(payer, admin, shareArg, intervalArg)
  <2>1. ShareArgs \subseteq Nat /\ IntervalArgs \subseteq Nat
    OBVIOUS
  <2> QED BY <1>1, <2>1, GlobalKeepsInv
<1>2. CASE \E signer \in Keys, a \in Addresses : InitializeTreasuryVault(signer, a)
  BY <1>2, TreasuryKeepsInv
<1>3. CASE \E signer \in Keys, a \in Addresses : InitializeStakingPool(signer, a)
  BY <1>3, PoolKeepsInv
<1>4. CASE \E amount \in Amounts : PayIn(amount) \/ PayOut(amount)
  BY <1>4, PaymentKeepsInv
<1>5. CASE UNCHANGED setupVars
  BY <1>5 DEF setupVars, SetupInv, SetupTypeOK, ConfigIsUsable, PoolHasItsVaults,
              DepositsCanBePaid, Treasuries, StakingVaults
<1> QED
  BY <1>1, <1>2, <1>3, <1>4, <1>5 DEF SetupNext

LEMMA SetupInvAlways == SetupSpec => []SetupInv
  BY SetupInvInit, SetupInvNext, PTL DEF SetupSpec

-----------------------------------------------------------------------------
\* The variables of the set-up have their types.
THEOREM SetupTypeCorrect == SetupSpec => []SetupTypeOK
<1>1. SetupInv => SetupTypeOK
  BY DEF SetupInv
<1> QED BY <1>1, SetupInvAlways, PTL

\* Whatever arguments initialize_global accepts, stakers get a share and the
\* interval that update_halving and mine_with_rig divide by is not 0.
THEOREM ConfigUsable == SetupSpec => []ConfigIsUsable
<1>1. SetupInv => ConfigIsUsable
  BY DEF SetupInv
<1> QED BY <1>1, SetupInvAlways, PTL

\* In whatever order the set-up is sent, and however often, a pool has vaults of
\* the right kind.
THEOREM PoolComplete == SetupSpec => []PoolHasItsVaults
<1>1. SetupInv => PoolHasItsVaults
  BY DEF SetupInv
<1> QED BY <1>1, SetupInvAlways, PTL

\* No deposit of mine_with_rig goes to a treasury that claim and unstake do not
\* pay from, a second initialize_treasury_vault notwithstanding.
THEOREM DepositsPayable == SetupSpec => []DepositsCanBePaid
<1>1. SetupInv => DepositsCanBePaid
  BY DEF SetupInv
<1> QED BY <1>1, SetupInvAlways, PTL

\* A second initialize_treasury_vault after the pool exists cannot be undone: the
\* constraint of every later instruction fails for ever.
THEOREM NeverTogetherAgain == SetupSpec => SeparatedForGood
<1>1. ASSUME SetupInv, [SetupNext]_setupVars, stakingPool.exists, ~ Operates
      PROVE  ~ Operates'
  <2>1. /\ globalConfig.exists
        /\ stakingPool.treasury_xnt_vault \in Treasuries
        /\ stakingPool.treasury_xnt_vault # globalConfig.treasury_xnt_vault
    BY <1>1 DEF SetupInv, PoolHasItsVaults, Operates
  <2>2. CASE \E signer \in Keys, a \in Addresses : InitializeTreasuryVault(signer, a)
    <3>1. PICK a \in Addresses : /\ Fresh(a)
                                 /\ globalConfig' = [globalConfig EXCEPT !.treasury_xnt_vault = a]
                                 /\ stakingPool' = stakingPool
      BY <2>2 DEF InitializeTreasuryVault
    <3>2. a # stakingPool.treasury_xnt_vault
      BY <2>1, <3>1 DEF Fresh, Treasuries
    <3>3. globalConfig'.treasury_xnt_vault = a
      BY <1>1, <3>1 DEF SetupInv, SetupTypeOK
    <3> QED BY <3>1, <3>2, <3>3 DEF Operates
  <2>3. CASE UNCHANGED setupVars
    BY <1>1, <2>3 DEF setupVars, Operates
  <2> QED
    BY <1>1, <2>1, <2>2, <2>3
    DEF SetupNext, InitializeGlobal, InitializeStakingPool, PayIn, PayOut, Operates
<1>2. SetupInv /\ [SetupNext]_setupVars
        => [stakingPool.exists /\ ~ Operates => ~ Operates']_setupVars
  BY <1>1
<1> QED BY <1>2, SetupInvAlways, PTL DEF SetupSpec, SeparatedForGood

-----------------------------------------------------------------------------
(***************************************************************************)
(* AdminScripts: the same instructions, sent by runs of scripts that may   *)
(* fail, hang, or report what did not happen.                              *)
(***************************************************************************)
GlobalIx ==
  Sdk!ixInitializeGlobal(
    [admin |-> KeyOf(AdminKey), payer |-> KeyOf(AdminKey), xntMint |-> XNT_MINT,
     gameMint |-> GAME_MINT, halvingInterval |-> IntervalOfScript,
     stakingShareBps |-> ShareOfScript])

\* Nothing of the run is to come: its script has ended, its transaction is decided.
Quiet(r) == stage[r] \in {"done", "failed"} /\ ~ IsOpen(r)

\* The admin's patience: of two runs that have been started one is quiet, and it
\* is of an earlier step, or the same, when the other is not.
OneAtATime ==
  \A r, q \in Runs : r # q /\ stage[r] # "off" /\ ~ Quiet(r) /\ stage[q] # "off" =>
    Quiet(q) /\ Rank[Script[q]] <= Rank[Script[r]]

\* What init-global.ts has built is what its transaction carries.
GlobalAsBuilt ==
  \A r \in Of("init-global.ts") :
    stage[r] = "ready" \/ tx[r].status # "none" => sent[r] = GlobalIx

\* What a transaction that was taken has left behind.
LandedHasEffect ==
  \A r \in Runs : tx[r].status = "landed" =>
    /\ globalConfig.exists
    /\ r \in Of("init-treasury.ts") => FreshKey[r] \in Treasuries
    /\ r \in Of("init-staking.ts") =>
         stakingPool.exists /\ stakingPool.staking_vault = FreshKey[r]

\* The pool was made by a run, and nothing has come between it and its treasury.
PoolIsInUse ==
  stakingPool.exists =>
    /\ Operates
    /\ \E r \in Of("init-staking.ts") : tx[r].status = "landed"

AdminInv ==
  /\ SetupInv /\ TxTypeOK
  /\ \A r \in Runs : stage[r] = "done" => tx[r].status = "landed"
  /\ DOMAIN sent = Runs
  /\ OneAtATime
  /\ GlobalAsBuilt
  /\ LandedHasEffect
  /\ PoolIsInUse

USE KeysAreFresh, AdminAssumption

LEMMA AdminInvInit == AdminInit => AdminInv
<1> SUFFICES ASSUME AdminInit PROVE AdminInv
  OBVIOUS
<1>1. SetupInv /\ TxTypeOK
  BY SetupInvInit, TxTypeInit DEF AdminInit
<1> QED
  BY <1>1 DEF AdminInit, SetupInit, TxInit, NoTx, NoPool, AdminInv, OneAtATime, GlobalAsBuilt,
              LandedHasEffect, PoolIsInUse, Of

\* Whatever a run does that was under way already, it is still the only one.
LEMMA StillAlone ==
  ASSUME OneAtATime, NEW r \in Runs, stage[r] # "off", ~ Quiet(r),
         \A q \in Runs \ {r} : stage'[q] = stage[q] /\ tx'[q] = tx[q]
  PROVE  OneAtATime'
<1>1. \A q \in Runs \ {r} : Quiet(q)' <=> Quiet(q)
  BY DEF Quiet, IsOpen
<1> QED BY <1>1 DEF OneAtATime

\* A run starts when all the others are quiet, and then is the only one.
LEMMA StartsAlone ==
  ASSUME TxTypeOK, OneAtATime, NEW r \in Runs, Begin(r)
  PROVE  OneAtATime'
<1>1. /\ stage' = [stage EXCEPT ![r] = "started"] /\ tx' = tx
      /\ stage \in [Runs -> {"off", "started", "ready", "sent", "done", "failed"}]
  BY DEF Begin, Start, Goes, TxTypeOK
<1>2. \A q \in Runs \ {r} : Quiet(q)' <=> Quiet(q)
  BY <1>1 DEF Quiet, IsOpen
<1>3. ~ Quiet(r)'
  BY <1>1 DEF Quiet
<1>4. \A q \in Runs \ {r} : stage[q] # "off" => Quiet(q) /\ Rank[Script[q]] <= Rank[Script[r]]
  BY DEF Begin, MayStart, Quiet
<1>5. \A q \in Runs \ {r} : stage'[q] = stage[q]
  BY <1>1
<1> QED BY <1>2, <1>3, <1>4, <1>5 DEF OneAtATime

\* Steps of a script, and refusals, have no effect on the arena.
LEMMA ScriptKeepsInv ==
  ASSUME AdminInv, NEW r \in Runs,
         \/ Begin(r)
         \/ InitGlobalBuilds(r) \/ InitTreasuryBuilds(r) \/ InitStakingBuilds(r)
         \/ /\ \/ Send(r) \/ Confirm(r) \/ SeeRefusal(r) \/ GiveUp(r)
               \/ Break(r) \/ LoseTouch(r) \/ Refuse(r)
            /\ UNCHANGED <<setupVars, sent>>
  PROVE  AdminInv'
<1>1. UNCHANGED setupVars
  BY DEF Begin, InitGlobalBuilds, InitTreasuryBuilds, InitStakingBuilds
<1>2. \/ Start(r) \/ Build(r) \/ Send(r) \/ Confirm(r) \/ SeeRefusal(r) \/ GiveUp(r)
      \/ Break(r) \/ LoseTouch(r) \/ Refuse(r)
  BY DEF Begin, InitGlobalBuilds, InitTreasuryBuilds, InitStakingBuilds
<1>3. SetupInv'
  BY <1>1, SetupInvNext DEF AdminInv
<1>4. TxTypeOK'
  BY <1>2, RunKeepsTxType, ClusterKeepsTxType DEF AdminInv, Step
<1>5. \A q \in Runs \ {r} : stage'[q] = stage[q] /\ tx'[q] = tx[q]
  BY <1>2 DEF AdminInv, TxTypeOK, Start, Build, Send, Confirm, SeeRefusal, GiveUp, Break,
              LoseTouch, Refuse, Goes
<1>6. tx'[r].status = "landed" <=> tx[r].status = "landed"
  BY <1>2 DEF AdminInv, TxTypeOK, Start, Build, Send, Confirm, SeeRefusal, GiveUp, Break,
              LoseTouch, Refuse, Goes, IsOpen, NoTx
<1>7. \A q \in Runs : stage'[q] = "done" => tx'[q].status = "landed"
  <2>1. stage'[r] = "done" => tx'[r].status = "landed"
    BY <1>2 DEF AdminInv, TxTypeOK, Start, Build, Send, Confirm, SeeRefusal, GiveUp, Break,
                LoseTouch, Refuse, Goes, IsOpen
  <2> QED BY <1>5, <2>1 DEF AdminInv
<1>8. OneAtATime'
  <2>1. CASE Begin(r)
    BY <2>1, StartsAlone DEF AdminInv
  <2>2. CASE ~ Begin(r)
    <3>1. \/ Build(r) \/ Send(r) \/ Confirm(r) \/ SeeRefusal(r) \/ GiveUp(r)
          \/ Break(r) \/ LoseTouch(r) \/ Refuse(r)
      BY <2>2 DEF InitGlobalBuilds, InitTreasuryBuilds, InitStakingBuilds
    <3>2. stage[r] # "off" /\ ~ Quiet(r)
      BY <3>1 DEF AdminInv, TxTypeOK, Build, Send, Confirm, SeeRefusal, GiveUp, Break, LoseTouch,
                  Refuse, Goes, IsOpen, Quiet, NoTx
    <3> QED BY <1>5, <3>2, StillAlone DEF AdminInv
  <2> QED BY <2>1, <2>2
<1>9. DOMAIN sent' = Runs /\ GlobalAsBuilt'
  <2>1. DOMAIN sent = Runs /\ GlobalAsBuilt /\ TxTypeOK
    BY DEF AdminInv
  <2>2. ASSUME InitGlobalBuilds(r) PROVE sent'[r] = GlobalIx
    BY <2>1, <2>2 DEF InitGlobalBuilds, GlobalIx
  <2>3. ASSUME InitTreasuryBuilds(r) \/ InitStakingBuilds(r) PROVE r \notin Of("init-global.ts")
    BY <2>3 DEF InitTreasuryBuilds, InitStakingBuilds, Of
  <2>4. DOMAIN sent' = Runs /\ \A q \in Runs \ {r} : sent'[q] = sent[q]
    BY <2>1 DEF Begin, InitGlobalBuilds, InitTreasuryBuilds, InitStakingBuilds
  <2>5. \/ InitGlobalBuilds(r) \/ InitTreasuryBuilds(r) \/ InitStakingBuilds(r)
        \/ sent' = sent /\ ~ Build(r)
    BY <2>1 DEF TxTypeOK, Begin, Start, Build, Send, Confirm, SeeRefusal, GiveUp, Break, LoseTouch,
                Refuse, Goes
  <2>6. ASSUME r \in Of("init-global.ts"), stage'[r] = "ready" \/ tx'[r].status # "none"
        PROVE  sent'[r] = GlobalIx
    <3>1. CASE Build(r)
      BY <2>2, <2>3, <2>5, <2>6, <3>1
    <3>2. CASE ~ Build(r)
      <4>1. sent' = sent
        BY <2>5, <3>2 DEF InitGlobalBuilds, InitTreasuryBuilds, InitStakingBuilds
      <4>2. stage[r] = "ready" \/ tx[r].status # "none"
        BY <1>2, <2>1, <2>6, <3>2
        DEF TxTypeOK, Start, Send, Confirm, SeeRefusal, GiveUp, Break, LoseTouch, Refuse, Goes, IsOpen
      <4> QED BY <2>1, <2>6, <4>1, <4>2 DEF GlobalAsBuilt
    <3> QED BY <3>1, <3>2
  <2> QED BY <1>5, <2>1, <2>4, <2>6 DEF GlobalAsBuilt, Of
<1>10. LandedHasEffect' /\ PoolIsInUse'
  <2>1. \A q \in Runs : tx'[q].status = "landed" <=> tx[q].status = "landed"
    BY <1>5, <1>6
  <2> QED BY <1>1, <2>1 DEF AdminInv, LandedHasEffect, PoolIsInUse, setupVars, Treasuries,
                             Operates, Of
<1> QED BY <1>3, <1>4, <1>7, <1>8, <1>9, <1>10 DEF AdminInv

\* A block only closes what was open.
LEMMA BlockKeepsInv ==
  ASSUME AdminInv, NextBlock, UNCHANGED <<setupVars, sent>>
  PROVE  AdminInv'
<1>1. SetupInv' /\ TxTypeOK'
  BY SetupInvNext, ClusterKeepsTxType DEF AdminInv
<1>2. /\ stage' = stage
      /\ \A q \in Runs : tx'[q].status = tx[q].status
      /\ \A q \in Runs : IsOpen(q)' => IsOpen(q)
  BY DEF AdminInv, TxTypeOK, NextBlock, IsOpen
<1>3. OneAtATime'
  BY <1>2 DEF AdminInv, OneAtATime, Quiet
<1>4. LandedHasEffect' /\ PoolIsInUse'
  BY <1>2 DEF AdminInv, LandedHasEffect, PoolIsInUse, setupVars, Treasuries, Operates, Of
<1>5. /\ \A r \in Runs : stage'[r] = "done" => tx'[r].status = "landed"
      /\ DOMAIN sent' = Runs /\ GlobalAsBuilt'
  BY <1>2 DEF AdminInv, GlobalAsBuilt, Of
<1> QED BY <1>1, <1>3, <1>4, <1>5 DEF AdminInv

(***************************************************************************)
(* A transaction is taken.                                                 *)
(***************************************************************************)
\* What does not depend on the instruction.
LEMMA LandingKeepsRuns ==
  ASSUME AdminInv, NEW r \in Runs, Taken(r)
  PROVE  /\ TxTypeOK' /\ OneAtATime' /\ DOMAIN sent' = Runs /\ GlobalAsBuilt'
         /\ \A q \in Runs : stage'[q] = "done" => tx'[q].status = "landed"
         /\ tx'[r].status = "landed"
         /\ \A q \in Runs \ {r} : tx'[q] = tx[q]
         /\ \A q \in Runs \ {r} : stage[q] # "off" => Rank[Script[q]] <= Rank[Script[r]]
<1>1. TxTypeOK'
  BY ClusterKeepsTxType DEF AdminInv, Taken
<1>2. /\ stage' = stage /\ sent' = sent /\ tx'[r].status = "landed"
      /\ \A q \in Runs \ {r} : tx'[q] = tx[q]
  BY DEF AdminInv, TxTypeOK, Taken, Land
<1>3. stage[r] # "off" /\ ~ Quiet(r) /\ tx[r].status # "none"
  BY DEF AdminInv, TxTypeOK, Taken, Land, IsOpen, Quiet, NoTx
<1>4. OneAtATime'
  BY <1>2, <1>3, StillAlone DEF AdminInv
<1>5. \A q \in Runs \ {r} : stage[q] # "off" => Rank[Script[q]] <= Rank[Script[r]]
  BY <1>3 DEF AdminInv, OneAtATime
<1>6. GlobalAsBuilt'
  BY <1>2, <1>3 DEF AdminInv, GlobalAsBuilt, Of
<1> QED BY <1>1, <1>2, <1>4, <1>5, <1>6 DEF AdminInv

\* The program reads from init-global.ts what was written.
LEMMA GlobalArguments ==
  LET args == Sdk!ArgsOf(GlobalIx) IN
  args[1] = KeyOf(AdminKey) /\ args[2] = ShareOfScript /\ args[3] = IntervalOfScript
<1>1. /\ GlobalIx.name = "initialize_global"
      /\ GlobalIx.data = <<[type |-> "pubkey", value |-> KeyOf(AdminKey)],
                           [type |-> "u16", value |-> ShareOfScript],
                           [type |-> "u64", value |-> IntervalOfScript]>>
  BY DEF GlobalIx, Sdk!ixInitializeGlobal, Sdk!ix, Sdk!Arg
<1>2. Sdk!Arguments["initialize_global"] = <<"pubkey", "u16", "u64">>
  BY DEF Sdk!Arguments, Sdk!Contexts
<1> QED BY <1>1, <1>2 DEF Sdk!ArgsOf

LEMMA GlobalLandsKeepsInv ==
  ASSUME AdminInv, NEW r \in Runs, GlobalLands(r)
  PROVE  AdminInv'
<1>1. Taken(r) /\ r \in Of("init-global.ts")
  BY DEF GlobalLands
<1>2. sent[r] = GlobalIx
  <2>1. tx[r].status # "none"
    BY <1>1 DEF Taken, Land, IsOpen
  <2> QED BY <1>1, <2>1 DEF AdminInv, GlobalAsBuilt
<1>3. InitializeGlobal(AdminKey, AdminKey, ShareOfScript, IntervalOfScript)
  BY <1>2, GlobalArguments DEF GlobalLands, KeyOf
<1>4. SetupInv'
  BY <1>3, GlobalKeepsInv DEF AdminInv
<1>5. /\ ~ globalConfig.exists /\ globalConfig'.exists
      /\ stakingPool' = stakingPool /\ tokenAccounts' = tokenAccounts
  BY <1>3 DEF InitializeGlobal
<1>6. ~ stakingPool.exists /\ \A q \in Runs : tx[q].status # "landed"
  BY <1>5 DEF AdminInv, SetupInv, PoolHasItsVaults, LandedHasEffect
<1>7. PoolIsInUse'
  BY <1>5, <1>6 DEF PoolIsInUse
<1>8. LandedHasEffect'
  <2>1. \A q \in Runs \ {r} : tx'[q].status # "landed"
    BY <1>1, <1>6, LandingKeepsRuns
  <2> QED BY <1>1, <1>5, <2>1 DEF LandedHasEffect, Of
<1> QED BY <1>1, <1>4, <1>7, <1>8, LandingKeepsRuns DEF AdminInv

\* There is no pool yet: the run that made one would be of a later step.
LEMMA TreasuryLandsKeepsInv ==
  ASSUME AdminInv, NEW r \in Runs, TreasuryLands(r)
  PROVE  AdminInv'
<1>1. Taken(r) /\ r \in Of("init-treasury.ts") /\ InitializeTreasuryVault(AdminKey, FreshKey[r])
  BY DEF TreasuryLands
<1>2. SetupInv'
  BY <1>1, TreasuryKeepsInv DEF AdminInv
<1>3. ~ stakingPool.exists
  <2>1. ASSUME stakingPool.exists PROVE FALSE
    <3>1. PICK q \in Of("init-staking.ts") : tx[q].status = "landed"
      BY <2>1 DEF AdminInv, PoolIsInUse
    <3>2. q \in Runs \ {r} /\ stage[q] # "off"
      BY <1>1, <3>1 DEF Of, AdminInv, TxTypeOK, NoTx
    <3>3. Rank[Script[q]] <= Rank[Script[r]]
      BY <1>1, <3>2, LandingKeepsRuns
    <3> QED BY <1>1, <3>1, <3>3 DEF Of, Rank
  <2> QED BY <2>1
<1>4. /\ globalConfig'.exists /\ stakingPool' = stakingPool
      /\ FreshKey[r] \in Treasuries' /\ Treasuries \subseteq Treasuries'
  BY <1>1 DEF AdminInv, SetupInv, SetupTypeOK, InitializeTreasuryVault, IsAdmin, Fresh, Treasuries
<1>5. PoolIsInUse'
  BY <1>3, <1>4 DEF PoolIsInUse
<1>6. LandedHasEffect'
  <2>1. \A q \in Runs \ {r} : tx'[q].status = tx[q].status
    BY <1>1, LandingKeepsRuns
  <2> QED BY <1>1, <1>4, <2>1 DEF AdminInv, LandedHasEffect, Of
<1> QED BY <1>1, <1>2, <1>5, <1>6, LandingKeepsRuns DEF AdminInv

\* The pool names the treasury that global_config names at that moment.
LEMMA PoolLandsKeepsInv ==
  ASSUME AdminInv, NEW r \in Runs, PoolLands(r)
  PROVE  AdminInv'
<1>1. Taken(r) /\ r \in Of("init-staking.ts") /\ InitializeStakingPool(AdminKey, FreshKey[r])
  BY DEF PoolLands
<1>2. SetupInv'
  BY <1>1, PoolKeepsInv DEF AdminInv
<1>3. /\ ~ stakingPool.exists /\ globalConfig.exists /\ globalConfig' = globalConfig
      /\ stakingPool'.exists /\ stakingPool'.staking_vault = FreshKey[r]
      /\ stakingPool'.treasury_xnt_vault = globalConfig.treasury_xnt_vault
      /\ Treasuries \subseteq Treasuries'
  BY <1>1 DEF AdminInv, SetupInv, SetupTypeOK, InitializeStakingPool, IsAdmin, Fresh, Treasuries
<1>4. tx'[r].status = "landed" /\ \A q \in Runs \ {r} : tx'[q].status = tx[q].status
  BY <1>1, LandingKeepsRuns
<1>5. PoolIsInUse'
  BY <1>1, <1>3, <1>4 DEF PoolIsInUse, Operates, Of
<1>6. LandedHasEffect'
  BY <1>1, <1>3, <1>4 DEF AdminInv, LandedHasEffect, Of
<1> QED BY <1>1, <1>2, <1>5, <1>6, LandingKeepsRuns DEF AdminInv

LEMMA AdminInvNext == AdminInv /\ [AdminNext]_adminVars => AdminInv'
<1> SUFFICES ASSUME AdminInv, [AdminNext]_adminVars PROVE AdminInv'
  OBVIOUS
<1>1. ASSUME NEW r \in Runs,
             \/ Begin(r)
             \/ InitGlobalBuilds(r) \/ InitTreasuryBuilds(r) \/ InitStakingBuilds(r)
             \/ /\ \/ Send(r) \/ Confirm(r) \/ SeeRefusal(r) \/ GiveUp(r)
                   \/ Break(r) \/ LoseTouch(r) \/ Refuse(r)
                /\ UNCHANGED <<setupVars, sent>>
      PROVE  AdminInv'
  BY <1>1, ScriptKeepsInv
<1>2. ASSUME NEW r \in Runs, GlobalLands(r) \/ TreasuryLands(r) \/ PoolLands(r) PROVE AdminInv'
  BY <1>2, GlobalLandsKeepsInv, TreasuryLandsKeepsInv, PoolLandsKeepsInv
<1>3. CASE NextBlock /\ UNCHANGED <<setupVars, sent>>
  BY <1>3, BlockKeepsInv
<1>4. CASE UNCHANGED adminVars
  BY <1>4 DEF adminVars, setupVars, AdminInv, SetupInv, SetupTypeOK, ConfigIsUsable,
              PoolHasItsVaults, DepositsCanBePaid, Treasuries, StakingVaults, TxTypeOK, OneAtATime,
              Quiet, IsOpen, GlobalAsBuilt, LandedHasEffect, PoolIsInUse, Operates
<1> QED BY <1>1, <1>2, <1>3, <1>4 DEF AdminNext

LEMMA AdminInvAlways == AdminSpec => []AdminInv
  BY AdminInvInit, AdminInvNext, PTL DEF AdminSpec

\* For any number of runs that fail, hang or report what did not happen: if each
\* is started when nothing is open and in its order, the pool that comes of it
\* works, with the treasury that is in use.
THEOREM SetupByScriptsWorks == AdminSpec => []PatientSetupWorks
<1>1. AdminInv => PatientSetupWorks
  BY DEF AdminInv, SetupInv, PoolHasItsVaults, LandedHasEffect, PoolIsInUse, PatientSetupWorks, Of
<1> QED BY <1>1, AdminInvAlways, PTL

\* A set-up script that prints an address has made the account there, and the
\* staking vault it prints is the pool's for good.
THEOREM ReportsAreTrue == AdminSpec => []SuccessIsTrue
<1>1. AdminInv => SuccessIsTrue
  BY DEF AdminInv, LandedHasEffect, SuccessIsTrue, Of
<1> QED BY <1>1, AdminInvAlways, PTL

\* What unstake.ts takes for granted, and what an admin who makes a treasury
\* late takes away: with the scripts in their order the vaults written down
\* after the set-up are good for ever.
THEOREM VaultsStayKnown == AdminSpec => KnownVaultsWork
<1>1. ASSUME AdminInv, [AdminNext]_adminVars, Operates PROVE Operates'
  <2>1. AdminInv'
    BY <1>1, AdminInvNext
  <2>2. stakingPool' = stakingPool \/ stakingPool'.exists
    <3>1. ASSUME NEW r \in Runs, GlobalLands(r) \/ TreasuryLands(r) \/ PoolLands(r)
          PROVE  stakingPool' = stakingPool \/ stakingPool'.exists
      BY <3>1 DEF GlobalLands, TreasuryLands, PoolLands, InitializeGlobal,
                  InitializeTreasuryVault, InitializeStakingPool
    <3> QED
      BY <1>1, <3>1 DEF AdminNext, adminVars, setupVars, Begin, InitGlobalBuilds,
                        InitTreasuryBuilds, InitStakingBuilds
  <2>3. stakingPool'.exists
    BY <1>1, <2>2 DEF Operates
  <2> QED BY <2>1, <2>3 DEF AdminInv, PoolIsInUse
<1>2. AdminInv /\ [AdminNext]_adminVars => [Operates => Operates']_setupVars
  BY <1>1
<1> QED BY <1>2, AdminInvAlways, PTL DEF AdminSpec, KnownVaultsWork
=============================================================================
