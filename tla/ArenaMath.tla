----------------------------- MODULE ArenaMath -----------------------------
(***************************************************************************)
(* The integer arithmetic of the staking pool, as the program computes it: *)
(* fixed-point shares, basis points, and the clamping and failing          *)
(* operations of Rust's u32, u64 and u128.  A failing operation is not a   *)
(* value here: the module that uses it carries the bound as a guard.       *)
(*                                                                         *)
(* The scale (BPS, PRECISION) and the widths are parameters.  The program  *)
(* has BPS = 10000, PRECISION = 10^12 and the real widths; TLC gets small  *)
(* numbers that keep the same ratios.                                      *)
(***************************************************************************)
EXTENDS Integers, Widths

CONSTANTS BPS,          \* 10_000 basis points
          PRECISION,    \* fixed-point unit of acc_reward_per_share
          U128Max       \* the largest u128

ASSUME ScaleAssumption == BPS \in Nat \ {0} /\ PRECISION \in Nat \ {0}

ASSUME WidthAssumption ==
  /\ U16Max \in Nat /\ U32Max \in Nat \ {0} /\ U64Max \in Nat /\ U128Max \in Nat
  /\ BPS <= U16Max

MinOf(a, b) == IF a <= b THEN a ELSE b
MaxOf(a, b) == IF a >= b THEN a ELSE b

\* a.saturating_add(b) of an unsigned type whose largest value is max.
SatAdd(a, b, max) == MinOf(a + b, max)

\* a.saturating_sub(b) of an unsigned type.
SatSub(a, b) == MaxOf(a - b, 0)

\* The lock terms the program accepts, in days, and their weights: 1.05, 1.1
\* and 1.2.  Any other term is InvalidLock.
LockTerms == {7, 14, 30}

LockMultiplier == [d \in LockTerms |->
  CASE d = 7 -> (21 * BPS) \div 20
    [] d = 14 -> (11 * BPS) \div 10
    [] d = 30 -> (6 * BPS) \div 5]

\* The weight of a stake: amount * lock weight * boost weight, rounded down
\* twice as the program divides twice.
CalculateEffective(amount, lockMult, boostMult) ==
  ((amount * lockMult * boostMult) \div BPS) \div BPS

\* What a share of weight effective has accumulated since the pool was made.
Accumulated(effective, acc) == (effective * acc) \div PRECISION

\* pending_rewards: what the position is owed since its debt was last set,
\* clamped to u64.
PendingRewards(effective, debt, acc) ==
  MinOf(SatSub(Accumulated(effective, acc), debt), U64Max)

\* The part of a deposit that goes to the stakers.
ToStakers(deposit, share) == (deposit * share) \div BPS

\* What that part adds to acc_reward_per_share.
PerShare(toStakers, total) == (toStakers * PRECISION) \div total
=============================================================================
