---------------------------- MODULE StakingAudit ----------------------------
(***************************************************************************)
(* The staking pool with a bookkeeper: history variables that record what  *)
(* was paid in, what of it was credited to the stakers, what each position *)
(* has been paid, and how many positions were opened.  They never          *)
(* constrain the pool.  With them one can say whose money the treasury     *)
(* pays out, which no account of the program records.                      *)
(***************************************************************************)
EXTENDS StakingPool

VARIABLES
  received,  \* XNT that came into the treasury
  accrued,   \* the part of it credited to acc_reward_per_share
  paid,      \* XNT settled out of the treasury
  opened,    \* positions opened after the pool was made
  since,     \* since[s]: accrued when the position at s was opened
  earned     \* earned[s]: paid to the position at s so far

history == <<received, accrued, paid, opened, since, earned>>
auditVars == <<vars, history>>

AuditInit ==
  /\ Init
  /\ received = 0 /\ accrued = 0 /\ paid = 0 /\ opened = 0
  /\ since = [s \in Slots |-> 0]
  /\ earned = [s \in Slots |-> 0]

\* What mine_with_rig credits to the stakers.
Credited(deposit) ==
  IF stakingPool.total_effective_stake > 0
    THEN ToStakers(deposit, StakingShareBps) ELSE 0

AuditMine(u, deposit, reward) ==
  /\ MineWithRig(u, deposit, reward)
  /\ received' = received + deposit
  /\ accrued' = accrued + Credited(deposit)
  /\ UNCHANGED <<paid, opened, since, earned>>

AuditStake(u, amount, lockDays, boostMult) ==
  /\ Stake(u, amount, lockDays, boostMult)
  /\ opened' = opened + 1
  /\ since' = [since EXCEPT ![NextSlot(u)] = accrued]
  /\ earned' = [earned EXCEPT ![NextSlot(u)] = 0]
  /\ UNCHANGED <<received, accrued, paid>>

AuditClaim(u, id) ==
  /\ Claim(u, id)
  /\ paid' = paid + Pending(<<u, id>>)
  /\ earned' = [earned EXCEPT ![<<u, id>>] = @ + Pending(<<u, id>>)]
  /\ UNCHANGED <<received, accrued, opened, since>>

AuditUnstake(u, id) ==
  /\ Unstake(u, id)
  /\ paid' = paid + Pending(<<u, id>>)
  /\ earned' = [earned EXCEPT ![<<u, id>>] = 0]
  /\ since' = [since EXCEPT ![<<u, id>>] = 0]
  /\ UNCHANGED <<received, accrued, opened>>

AuditDonateXnt(u, amount) ==
  /\ DonateXnt(u, amount)
  /\ received' = received + amount
  /\ UNCHANGED <<accrued, paid, opened, since, earned>>

AuditNext ==
  \/ \E u \in Users :
       \/ \E deposit \in Deposits, reward \in Rewards : AuditMine(u, deposit, reward)
       \/ \E amount \in StakeAmounts, lockDays \in LockChoices, boostMult \in BoostMults :
            AuditStake(u, amount, lockDays, boostMult)
       \/ \E id \in PositionIds : AuditClaim(u, id)
       \/ \E id \in PositionIds : AuditUnstake(u, id)
       \/ \E amount \in GiftAmounts : AuditDonateXnt(u, amount)
       \/ \E amount \in GiftAmounts : DonateGame(u, amount) /\ UNCHANGED history
  \/ \E t \in Times : Tick(t) /\ UNCHANGED history

AuditSpec == AuditInit /\ [][AuditNext]_auditVars
-----------------------------------------------------------------------------
Debts == [s \in Slots |-> positions[s].reward_debt]
Pendings == [s \in Slots |-> Pending(s)]

\* The part of what came in that no staker has a claim to.
Reserve == received - accrued

\* The books balance: what the treasury holds is what came in less what was
\* settled.
TreasuryIsBalance == treasury = received - paid

\* Stakers are never paid, or owed, more than was credited to them, except one
\* base unit for each position ever opened, which rounding down the debt at
\* opening may give away.
OwedWithinDust == paid + SumFunction(Pendings) <= accrued + opened

\* Claiming more often, or splitting a stake over more positions, gains nothing
\* beyond that dust: a position has earned at most what was credited to all
\* stakers since it was opened.  It is paid nothing for mining before.
EarnsOnlyWhileStaked ==
  \A s \in Slots : positions[s].open => earned[s] + Pending(s) <= accrued - since[s]

\* The treasury can settle all positions at once, and so any of them in any
\* order, as long as fewer positions were opened than the reserve has units.
SolventWithReserve ==
  opened <= Reserve => SumFunction(Pendings) <= treasury

\* No product of a weight and the accumulator outgrows u128.
NoOverflow ==
  \A s \in Slots :
    positions[s].effective_stake * stakingPool.acc_reward_per_share <= U128Max

\* So there are two things only that can hold a principal back once its lock is
\* over: a reserve smaller than the number of positions opened, or a product
\* that overflows.
ReserveMeansLeave == opened <= Reserve /\ NoOverflow => UnlockedCanLeave
=============================================================================
