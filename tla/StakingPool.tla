---------------------------- MODULE StakingPool ----------------------------
(***************************************************************************)
(* The staking pool of the mining arena and the two tokens it moves: XNT,  *)
(* which miners pay and stakers earn, and GAME, which miners earn and      *)
(* stakers lock.  An instruction of the program is one transaction: it     *)
(* takes effect as a whole or, when a check or a token transfer fails, not *)
(* at all.  An action is therefore one successful instruction, and its     *)
(* guard collects everything that could have made it fail.                 *)
(*                                                                         *)
(* Of an instruction this module holds what it does to the pool, to the    *)
(* positions and to token balances.  What it does to the halving is in     *)
(* Emission, what it does to a player's account in PlayerAccount; Arena    *)
(* puts the three together.                                                *)
(*                                                                         *)
(* A definition whose comment begins with "Mutant" is the program with a   *)
(* plausible mistake.  Nothing uses it; it shows that the property named   *)
(* with it would notice.                                                   *)
(***************************************************************************)
EXTENDS ArenaMath, FiniteSets, Functions

CONSTANTS
  Users,            \* the wallets
  StakingShareBps,  \* global_config.staking_share_bps
  Legacy,           \* Legacy[u]: GAME in u's position from before positions had ids
  InitXnt, InitGame,\* what each user holds at the start
  StakeAmounts,     \* amounts a user may stake
  LockChoices,      \* lock terms a user may choose
  BoostMults,       \* results of resolve_staking_multiplier
  Deposits,         \* what a rig costs; 0 with a free-rig ticket
  Rewards,          \* what a mining run may mint
  GiftAmounts,      \* plain token transfers into a vault of the program
  Times,            \* the instants the clock shows, in units of Day
  Day,              \* 86_400 seconds
  AccBound          \* where acc_reward_per_share stops growing

PositionIds == 0 .. U32Max
\* The account of a position is derived from its owner and its id; id 0 stands
\* for the derivation without an id that older positions have.
Slots == Users \X PositionIds

VARIABLES
  now,             \* the cluster's clock
  stakingPool,     \* total_effective_stake and acc_reward_per_share
  positions,       \* the position account at each slot
  nextPositionId,  \* user_account.next_position_id
  xnt, game,       \* the users' token accounts
  treasury,        \* treasury_xnt_vault
  stakingVault     \* staking_vault

vars == <<now, stakingPool, positions, nextPositionId, xnt, game, treasury, stakingVault>>

Position == [open : BOOLEAN, amount_staked : Nat, effective_stake : Nat,
             reward_debt : Nat, lock_until_ts : Nat]

NoPosition == [open |-> FALSE, amount_staked |-> 0, effective_stake |-> 0,
               reward_debt |-> 0, lock_until_ts |-> 0]

\* The positions at the start: those from before positions had ids.
InitialPositions == [s \in Slots |->
  IF s[2] = 0 /\ Legacy[s[1]] > 0
    THEN [open |-> TRUE, amount_staked |-> Legacy[s[1]],
          effective_stake |-> CalculateEffective(Legacy[s[1]], LockMultiplier[7], BPS),
          reward_debt |-> 0, lock_until_ts |-> 0]
    ELSE NoPosition]

ASSUME UsersAssumption == IsFiniteSet(Users)

ASSUME ConfigAssumption ==
  /\ StakingShareBps \in 1 .. BPS
  /\ StakeAmounts \subseteq 0 .. U64Max
  /\ LockChoices \subseteq LockTerms
  /\ BoostMults \subseteq BPS .. U16Max
  /\ Deposits \subseteq Nat /\ Rewards \subseteq Nat /\ GiftAmounts \subseteq Nat
  /\ Times \subseteq Nat /\ 0 \in Times
  /\ Day \in Nat \ {0}
  /\ AccBound \in 0 .. U128Max

ASSUME HoldingsAssumption ==
  /\ Legacy \in [Users -> 0 .. U64Max]
  /\ InitXnt \in [Users -> 0 .. U64Max]
  /\ InitGame \in [Users -> 0 .. U64Max]
  /\ SumFunction(InitXnt) <= U64Max
  /\ SumFunction(InitGame)
       + SumFunction([s \in Slots |-> InitialPositions[s].amount_staked]) <= U64Max

\* The largest product calculate_effective can form fits u128, so its two
\* checked multiplications cannot fail.
ASSUME EffectiveAssumption ==
  \A d \in LockTerms :
    U64Max * (LockMultiplier[d] * U16Max) <= U128Max

(***************************************************************************)
(* State functions.                                                        *)
(***************************************************************************)
Amounts == [s \in Slots |-> positions[s].amount_staked]
Effectives == [s \in Slots |-> positions[s].effective_stake]

\* The supply of GAME, which the token program bounds when it mints.
GameSupply == SumFunction(game) + stakingVault

Pending(s) == PendingRewards(positions[s].effective_stake, positions[s].reward_debt,
                             stakingPool.acc_reward_per_share)

\* Mutant: settling forgets the debt.
UnsettledDebt(s) == positions[s].reward_debt

\* The debt of a position that has just been settled.
SettledDebt(s) ==
  Accumulated(positions[s].effective_stake, stakingPool.acc_reward_per_share)

Init ==
  /\ now = 0
  /\ positions = InitialPositions
  /\ stakingPool = [total_effective_stake |-> SumFunction(Effectives),
                    acc_reward_per_share |-> 0]
  /\ nextPositionId = [u \in Users |-> 0]
  /\ xnt = InitXnt
  /\ game = InitGame
  /\ treasury = 0
  /\ stakingVault = SumFunction(Amounts)

(***************************************************************************)
(* mine_with_rig: the deposit goes to the treasury, a share of it to the   *)
(* stakers' accumulator when there is a stake to share it over, and the    *)
(* reward is minted.  A free rig skips all of the first half.              *)
(***************************************************************************)
\* Mutant: the deposit is shared over the tokens staked, not over the weights.
DistributionByAmount(deposit) ==
  IF SumFunction(Amounts) > 0
    THEN PerShare(ToStakers(deposit, StakingShareBps), SumFunction(Amounts)) ELSE 0

\* What a deposit adds to acc_reward_per_share.
Distribution(deposit) ==
  IF ToStakers(deposit, StakingShareBps) > 0 /\ stakingPool.total_effective_stake > 0
    THEN PerShare(ToStakers(deposit, StakingShareBps), stakingPool.total_effective_stake)
    ELSE 0

MineWithRig(u, deposit, reward) ==
  /\ xnt[u] >= deposit
  /\ treasury + deposit <= U64Max
  /\ stakingPool.acc_reward_per_share + Distribution(deposit) <= AccBound
  /\ GameSupply + reward <= U64Max
  /\ xnt' = [xnt EXCEPT ![u] = @ - deposit]
  /\ treasury' = treasury + deposit
  /\ stakingPool' = [stakingPool EXCEPT !.acc_reward_per_share = @ + Distribution(deposit)]
  /\ game' = [game EXCEPT ![u] = @ + reward]
  /\ UNCHANGED <<now, positions, nextPositionId, stakingVault>>

(***************************************************************************)
(* stake: opens the position account of the user's next id.                *)
(***************************************************************************)
\* Mutant: 0, which older accounts have, is taken for an id.
NextSlotFromZero(u) == <<u, nextPositionId[u]>>

NextSlot(u) == <<u, MaxOf(nextPositionId[u], 1)>>

\* Mutant: the new position starts without a debt.
StakeWithoutDebt(u, amount, lockDays, boostMult) ==
  LET effective == CalculateEffective(amount, LockMultiplier[lockDays], boostMult)
  IN
  /\ ~ positions[NextSlot(u)].open /\ game[u] >= amount /\ stakingVault + amount <= U64Max
  /\ game' = [game EXCEPT ![u] = @ - amount]
  /\ stakingVault' = stakingVault + amount
  /\ positions' = [positions EXCEPT ![NextSlot(u)] =
       [open |-> TRUE, amount_staked |-> amount, effective_stake |-> effective,
        reward_debt |-> 0, lock_until_ts |-> now + lockDays * Day]]
  /\ stakingPool' = [stakingPool EXCEPT
       !.total_effective_stake = SatAdd(@, effective, U128Max)]
  /\ nextPositionId' = [nextPositionId EXCEPT ![u] = SatAdd(MaxOf(@, 1), 1, U32Max)]
  /\ UNCHANGED <<now, xnt, treasury>>

Stake(u, amount, lockDays, boostMult) ==
  LET effective == CalculateEffective(amount, LockMultiplier[lockDays], boostMult)
      acc == stakingPool.acc_reward_per_share
  IN
  /\ ~ positions[NextSlot(u)].open             \* init: the account must not exist
  /\ game[u] >= amount
  /\ stakingVault + amount <= U64Max
  /\ effective * acc <= U128Max
  /\ game' = [game EXCEPT ![u] = @ - amount]
  /\ stakingVault' = stakingVault + amount
  /\ positions' = [positions EXCEPT ![NextSlot(u)] =
       [open |-> TRUE, amount_staked |-> amount, effective_stake |-> effective,
        reward_debt |-> Accumulated(effective, acc),
        lock_until_ts |-> now + lockDays * Day]]
  /\ stakingPool' = [stakingPool EXCEPT
       !.total_effective_stake = SatAdd(@, effective, U128Max)]
  /\ nextPositionId' = [nextPositionId EXCEPT ![u] = SatAdd(MaxOf(@, 1), 1, U32Max)]
  /\ UNCHANGED <<now, xnt, treasury>>

(***************************************************************************)
(* claim and unstake both settle: they pay what is pending out of the      *)
(* treasury and set the debt to what has accumulated.  unstake then gives  *)
(* the principal back and closes the account.                              *)
(***************************************************************************)
CanSettle(u, id) ==
  LET s == <<u, id>> IN
  /\ positions[s].open
  /\ positions[s].effective_stake * stakingPool.acc_reward_per_share <= U128Max
  /\ Pending(s) <= treasury
  /\ xnt[u] + Pending(s) <= U64Max

\* Mutant: the reward is minted, not taken from the treasury.
PayRewardsUnbacked(u, id) ==
  /\ xnt' = [xnt EXCEPT ![u] = @ + Pending(<<u, id>>)]
  /\ UNCHANGED treasury

PayRewards(u, id) ==
  /\ treasury' = treasury - Pending(<<u, id>>)
  /\ xnt' = [xnt EXCEPT ![u] = @ + Pending(<<u, id>>)]

Claim(u, id) ==
  /\ CanSettle(u, id)
  /\ PayRewards(u, id)
  /\ positions' = [positions EXCEPT ![<<u, id>>].reward_debt = SettledDebt(<<u, id>>)]
  /\ UNCHANGED <<now, stakingPool, nextPositionId, game, stakingVault>>

\* Mutant: the lock is not looked at.
CanUnstakeEarly(u, id) ==
  LET s == <<u, id>> IN
  /\ CanSettle(u, id)
  /\ positions[s].amount_staked <= stakingVault
  /\ game[u] + positions[s].amount_staked <= U64Max

CanUnstake(u, id) ==
  LET s == <<u, id>> IN
  /\ CanSettle(u, id)
  /\ positions[s].lock_until_ts <= now
  /\ positions[s].amount_staked <= stakingVault
  /\ game[u] + positions[s].amount_staked <= U64Max

\* Mutant: the account is not closed after the principal has been paid.
UnstakeWithoutClose(u, id) ==
  LET s == <<u, id>> IN
  /\ CanUnstake(u, id)
  /\ PayRewards(u, id)
  /\ stakingVault' = stakingVault - positions[s].amount_staked
  /\ game' = [game EXCEPT ![u] = @ + positions[s].amount_staked]
  /\ stakingPool' = [stakingPool EXCEPT
       !.total_effective_stake = SatSub(@, positions[s].effective_stake)]
  /\ positions' = [positions EXCEPT ![s].reward_debt = SettledDebt(s)]
  /\ UNCHANGED <<now, nextPositionId>>

\* Mutant: the account is marked as closed but keeps its numbers, and its id is
\* the next to be used.
UnstakeReusingId(u, id) ==
  LET s == <<u, id>> IN
  /\ CanUnstake(u, id)
  /\ PayRewards(u, id)
  /\ stakingVault' = stakingVault - positions[s].amount_staked
  /\ game' = [game EXCEPT ![u] = @ + positions[s].amount_staked]
  /\ stakingPool' = [stakingPool EXCEPT
       !.total_effective_stake = SatSub(@, positions[s].effective_stake)]
  /\ positions' = [positions EXCEPT ![s].open = FALSE]
  /\ nextPositionId' = [nextPositionId EXCEPT ![u] = id]
  /\ UNCHANGED now

Unstake(u, id) ==
  LET s == <<u, id>> IN
  /\ CanUnstake(u, id)
  /\ PayRewards(u, id)
  /\ stakingVault' = stakingVault - positions[s].amount_staked
  /\ game' = [game EXCEPT ![u] = @ + positions[s].amount_staked]
  /\ stakingPool' = [stakingPool EXCEPT
       !.total_effective_stake = SatSub(@, positions[s].effective_stake)]
  /\ positions' = [positions EXCEPT ![s] = NoPosition]
  /\ UNCHANGED <<now, nextPositionId>>

(***************************************************************************)
(* What happens outside the program: anyone may send tokens to a vault     *)
(* with a plain transfer, and time passes.                                 *)
(***************************************************************************)
DonateXnt(u, amount) ==
  /\ xnt[u] >= amount
  /\ treasury + amount <= U64Max
  /\ xnt' = [xnt EXCEPT ![u] = @ - amount]
  /\ treasury' = treasury + amount
  /\ UNCHANGED <<now, stakingPool, positions, nextPositionId, game, stakingVault>>

DonateGame(u, amount) ==
  /\ game[u] >= amount
  /\ stakingVault + amount <= U64Max
  /\ game' = [game EXCEPT ![u] = @ - amount]
  /\ stakingVault' = stakingVault + amount
  /\ UNCHANGED <<now, stakingPool, positions, nextPositionId, xnt, treasury>>

Tick(t) ==
  /\ t > now
  /\ now' = t
  /\ UNCHANGED <<stakingPool, positions, nextPositionId, xnt, game, treasury, stakingVault>>

Next ==
  \/ \E u \in Users :
       \/ \E deposit \in Deposits, reward \in Rewards : MineWithRig(u, deposit, reward)
       \/ \E amount \in StakeAmounts, lockDays \in LockChoices, boostMult \in BoostMults :
            Stake(u, amount, lockDays, boostMult)
       \/ \E id \in PositionIds : Claim(u, id)
       \/ \E id \in PositionIds : Unstake(u, id)
       \/ \E amount \in GiftAmounts : DonateXnt(u, amount)
       \/ \E amount \in GiftAmounts : DonateGame(u, amount)
  \/ \E t \in Times : Tick(t)

Spec == Init /\ [][Next]_vars
-----------------------------------------------------------------------------
(***************************************************************************)
(* Properties.                                                             *)
(***************************************************************************)

\* Every variable has its type; a slot with no account holds nothing.
TypeOK ==
  /\ now \in Times
  /\ stakingPool \in [total_effective_stake : 0 .. U128Max,
                      acc_reward_per_share : 0 .. AccBound]
  /\ positions \in [Slots -> Position]
  /\ \A s \in Slots : ~ positions[s].open => positions[s] = NoPosition
  /\ nextPositionId \in [Users -> PositionIds]
  /\ xnt \in [Users -> 0 .. U64Max]
  /\ game \in [Users -> 0 .. U64Max]
  /\ treasury \in 0 .. U64Max
  /\ stakingVault \in 0 .. U64Max

\* The pool's total, which stake and unstake update with clamping arithmetic
\* and every distribution divides by, is the sum of the weights of the open
\* positions: it never clamps and never drifts.
TotalIsSumOfEffective ==
  stakingPool.total_effective_stake = SumFunction(Effectives)

\* The staking vault holds the principal of all open positions together.
VaultCoversPrincipal == SumFunction(Amounts) <= stakingVault

\* No staker is locked in beyond the term: once the lock of a position is
\* over, unstake succeeds.  StakingAudit says when this is so.
UnlockedCanLeave ==
  \A u \in Users, id \in PositionIds :
    positions[<<u, id>>].open /\ positions[<<u, id>>].lock_until_ts <= now
      => CanUnstake(u, id)

\* The positions as Custody sees them.
Deposited == [s \in Slots |-> [held |-> positions[s].open,
                               amount |-> positions[s].amount_staked,
                               until |-> positions[s].lock_until_ts]]

\* What the pool does with GAME is custody: Stake puts a deposit in, Unstake
\* takes it back, mining only adds to wallets, and gifts only to the vault.
\* Claims, distributions and boosts never touch a principal.
CustodyOfGame == INSTANCE Custody WITH
  Receipts <- PositionIds,
  wallet <- game,
  deposit <- Deposited,
  vault <- stakingVault

\* The pool implements Custody: every step of the program is a step of it or
\* leaves wallets, deposits and vault alone.
ImplementsCustody == CustodyOfGame!Spec

\* The id the program gives a user's next position is always a free account,
\* until the ids of that user are exhausted: stake is never refused because
\* the account exists.
NextIdIsFree ==
  \A u \in Users :
    nextPositionId[u] < U32Max => ~ positions[NextSlot(u)].open

\* The address of a closed position is never given to a new one: an id that
\* was handed out stays handed out, and its account, once closed, closed.  So
\* a claim or unstake prepared for the old position cannot hit another one.
\* (The last id of all, where the counter stops, is the exception.)
ClosedStaysClosed ==
  [][\A u \in Users, id \in PositionIds :
       id < NextSlot(u)[2] =>
         /\ id < NextSlot(u)'[2]
         /\ ~ positions[<<u, id>>].open => ~ positions'[<<u, id>>].open]_vars
=============================================================================
