--------------------------- MODULE Staking_proofs ---------------------------
(***************************************************************************)
(* Proofs about the staking pool, for any users, amounts, widths and       *)
(* scale: first the pool itself, then, with the bookkeeper of              *)
(* StakingAudit, who is owed what and what it takes for the treasury to be *)
(* able to pay.                                                            *)
(***************************************************************************)
EXTENDS StakingAudit, DataLemmas

\* Division of naturals: the quotient, and what is lost in it.
LEMMA DivFacts ==
  ASSUME NEW x \in Nat, NEW b \in Nat \ {0}
  PROVE  /\ x \div b \in Nat
         /\ (x \div b) * b <= x
         /\ x < (x \div b) * b + b
OBVIOUS

\* The lock weights are naturals, and the longest term weighs most.
LEMMA LockMultiplierFacts ==
  ASSUME NEW d \in LockTerms
  PROVE  /\ LockMultiplier[d] \in Nat
         /\ LockMultiplier[d] <= LockMultiplier[30]
BY ScaleAssumption DEF LockMultiplier, LockTerms

LEMMA SlotsFinite == IsFiniteSet(Slots)
<1>1. IsFiniteSet(0 .. U32Max)
  BY WidthAssumption, FS_Interval
<1> QED BY <1>1, UsersAssumption, FS_Product DEF Slots, PositionIds

\* The heaviest weight a unit of stake can have, in squared basis points.
MaxWeight == LockMultiplier[30] * U16Max

LEMMA MaxWeightNat == MaxWeight \in Nat /\ U64Max * MaxWeight <= U128Max
<1>1. LockMultiplier[30] \in Nat
  BY LockMultiplierFacts DEF LockTerms
<1>2. MaxWeight \in Nat
  BY <1>1, WidthAssumption DEF MaxWeight
<1>3. U64Max * (LockMultiplier[30] * U16Max) <= U128Max
  BY EffectiveAssumption DEF LockTerms
<1> QED BY <1>2, <1>3 DEF MaxWeight

\* The weight of a stake is bounded by the heaviest weight.
LEMMA EffectiveFacts ==
  ASSUME NEW amount \in Nat, NEW d \in LockTerms, NEW m \in 0 .. U16Max
  PROVE  /\ CalculateEffective(amount, LockMultiplier[d], m) \in Nat
         /\ CalculateEffective(amount, LockMultiplier[d], m) * (BPS * BPS) <= amount * MaxWeight
<1> DEFINE L == LockMultiplier[d]
           x == amount * L * m
           q == x \div BPS
           e == q \div BPS
<1>1. L \in Nat /\ LockMultiplier[30] \in Nat /\ L <= LockMultiplier[30]
  BY LockMultiplierFacts DEF LockTerms
<1>2. BPS \in Nat \ {0} /\ U16Max \in Nat /\ m \in Nat /\ m <= U16Max
  BY ScaleAssumption, WidthAssumption
<1>3. CalculateEffective(amount, LockMultiplier[d], m) = e
  BY DEF CalculateEffective
<1> HIDE DEF L
<1>4. amount * L \in Nat
  BY <1>1
<1>5. x \in Nat
  BY <1>2, <1>4
<1> HIDE DEF x
<1>6. q \in Nat /\ q * BPS <= x
  BY <1>2, <1>5, DivFacts
<1> HIDE DEF q
<1>7. e \in Nat /\ e * BPS <= q
  BY <1>2, <1>6, DivFacts
<1> HIDE DEF e
<1>8. (e * BPS) * BPS <= q * BPS
  BY <1>2, <1>6, <1>7
<1>9. e * (BPS * BPS) = (e * BPS) * BPS
  BY <1>2, <1>7
<1>10. e * (BPS * BPS) <= x
  <2>1. (e * BPS) * BPS \in Nat /\ q * BPS \in Nat
    BY <1>2, <1>6, <1>7
  <2> QED BY <1>5, <1>6, <1>8, <1>9, <2>1
<1>11. x <= amount * MaxWeight
  <2>1. L * m <= LockMultiplier[30] * U16Max
    BY <1>1, <1>2
  <2>2. L * m \in Nat /\ MaxWeight \in Nat
    BY <1>1, <1>2, MaxWeightNat
  <2>3. amount * (L * m) <= amount * MaxWeight
    BY <2>1, <2>2 DEF MaxWeight
  <2>4. x = amount * (L * m)
    BY <1>1, <1>2 DEF x
  <2> QED BY <2>3, <2>4
<1>12. amount * MaxWeight \in Nat
  BY MaxWeightNat
<1> QED BY <1>2, <1>3, <1>5, <1>7, <1>9, <1>10, <1>11, <1>12

\* When the principal fits the vault, the total of the weights fits u128: the
\* clamping additions and subtractions of the program never clamp.
LEMMA TotalFits ==
  ASSUME NEW A \in [Slots -> Nat], NEW E \in [Slots -> Nat],
         \A s \in Slots : E[s] * (BPS * BPS) <= A[s] * MaxWeight,
         SumFunction(A) <= U64Max
  PROVE  SumFunction(E) \in 0 .. U128Max
<1> DEFINE B == BPS * BPS
           slack == [s \in Slots |-> MaxWeight * A[s] - B * E[s]]
<1>1. B \in Nat /\ B >= 1 /\ MaxWeight \in Nat
  BY ScaleAssumption, MaxWeightNat
<1>2. \A s \in Slots : E[s] * B <= A[s] * MaxWeight
  OBVIOUS
<1> HIDE DEF B
<1>3. ASSUME NEW s \in Slots PROVE MaxWeight * A[s] - B * E[s] \in Nat
  <2>1. A[s] \in Nat /\ E[s] \in Nat /\ E[s] * B <= A[s] * MaxWeight
    BY <1>2
  <2>2. E[s] * B = B * E[s] /\ A[s] * MaxWeight = MaxWeight * A[s]
    BY <1>1, <2>1
  <2>3. B * E[s] \in Int /\ MaxWeight * A[s] \in Int
    BY <1>1, <2>1
  <2> QED BY <2>1, <2>2, <2>3
<1>4. slack \in [Slots -> Nat] /\ \A s \in Slots : slack[s] = MaxWeight * A[s] - B * E[s]
  BY <1>3
<1> HIDE DEF slack
<1>5. SumFunction(slack) = MaxWeight * SumFunction(A) - B * SumFunction(E)
  <2>1. Combines(slack, MaxWeight, A, B, E, Slots)
    BY <1>4 DEF Combines
  <2> QED BY <1>1, <1>4, <2>1, SlotsFinite, SumLinear
<1>6. SumFunction(slack) \in Nat /\ SumFunction(A) \in Nat /\ SumFunction(E) \in Nat
  BY <1>4, SlotsFinite, SumNat
<1> DEFINE a == SumFunction(A)
           e == SumFunction(E)
<1>7. a \in Nat /\ e \in Nat /\ a <= U64Max /\ MaxWeight * a - B * e >= 0
  BY <1>5, <1>6
<1> HIDE DEF a, e
<1>8. MaxWeight * a <= MaxWeight * U64Max /\ MaxWeight * U64Max = U64Max * MaxWeight
  BY <1>1, <1>7, WidthAssumption
<1>9. e <= B * e
  BY <1>1, <1>7
<1>10. B * e \in Int /\ MaxWeight * a \in Int /\ U64Max * MaxWeight \in Int
  BY <1>1, <1>7, WidthAssumption
<1>11. e <= U128Max
  BY <1>7, <1>8, <1>9, <1>10, MaxWeightNat, WidthAssumption
<1> QED BY <1>7, <1>11 DEF e
-----------------------------------------------------------------------------
AmountsOf(P) == [s \in Slots |-> P[s].amount_staked]
EffectivesOf(P) == [s \in Slots |-> P[s].effective_stake]

\* What rewriting one position does to the two sums the pool depends on.
LEMMA SlotUpdate ==
  ASSUME NEW P \in [Slots -> Position], NEW Q \in [Slots -> Position], NEW s \in Slots,
         SameBut(P, Q, s, Slots)
  PROVE  /\ SumFunction(AmountsOf(P)) \in Nat /\ SumFunction(EffectivesOf(P)) \in Nat
         /\ SumFunction(AmountsOf(Q)) \in Nat /\ SumFunction(EffectivesOf(Q)) \in Nat
         /\ SumFunction(AmountsOf(Q))
              = SumFunction(AmountsOf(P)) - P[s].amount_staked + Q[s].amount_staked
         /\ SumFunction(EffectivesOf(Q))
              = SumFunction(EffectivesOf(P)) - P[s].effective_stake + Q[s].effective_stake
         /\ P[s].amount_staked <= SumFunction(AmountsOf(P))
         /\ P[s].effective_stake <= SumFunction(EffectivesOf(P))
<1>1. /\ AmountsOf(P) \in [Slots -> Nat] /\ AmountsOf(Q) \in [Slots -> Nat]
      /\ AmountsOf(P)[s] = P[s].amount_staked /\ AmountsOf(Q)[s] = Q[s].amount_staked
      /\ SameBut(AmountsOf(P), AmountsOf(Q), s, Slots)
  BY DEF AmountsOf, Position, SameBut
<1>2. /\ EffectivesOf(P) \in [Slots -> Nat] /\ EffectivesOf(Q) \in [Slots -> Nat]
      /\ EffectivesOf(P)[s] = P[s].effective_stake /\ EffectivesOf(Q)[s] = Q[s].effective_stake
      /\ SameBut(EffectivesOf(P), EffectivesOf(Q), s, Slots)
  BY DEF EffectivesOf, Position, SameBut
<1>3. /\ SumFunction(AmountsOf(P)) \in Nat /\ SumFunction(AmountsOf(Q)) \in Nat
      /\ SumFunction(AmountsOf(Q))
           = SumFunction(AmountsOf(P)) - AmountsOf(P)[s] + AmountsOf(Q)[s]
      /\ AmountsOf(P)[s] <= SumFunction(AmountsOf(P))
  BY <1>1, SlotsFinite, SumNat, SumUpdate, SumMember
<1>4. /\ SumFunction(EffectivesOf(P)) \in Nat /\ SumFunction(EffectivesOf(Q)) \in Nat
      /\ SumFunction(EffectivesOf(Q))
           = SumFunction(EffectivesOf(P)) - EffectivesOf(P)[s] + EffectivesOf(Q)[s]
      /\ EffectivesOf(P)[s] <= SumFunction(EffectivesOf(P))
  BY <1>2, SlotsFinite, SumNat, SumUpdate, SumMember
<1> QED BY <1>1, <1>2, <1>3, <1>4

\* The heaviest weight bounds every position's weight.
WeightsBounded ==
  \A s \in Slots :
    positions[s].effective_stake * (BPS * BPS) <= positions[s].amount_staked * MaxWeight

\* The inductive invariant: the type, the two sums, and what relates them.
PoolInv ==
  /\ TypeOK
  /\ WeightsBounded
  /\ TotalIsSumOfEffective
  /\ VaultCoversPrincipal

LEMMA AmountsAndEffectives ==
  /\ Amounts = AmountsOf(positions) /\ Amounts' = AmountsOf(positions')
  /\ Effectives = EffectivesOf(positions) /\ Effectives' = EffectivesOf(positions')
BY DEF Amounts, Effectives, AmountsOf, EffectivesOf

\* A closed slot, and a slot of a well-typed pool.
LEMMA NoPositionType == NoPosition \in Position
BY DEF NoPosition, Position

\* The widths and the bounds are naturals.
LEMMA ConstantFacts ==
  /\ BPS \in Nat \ {0} /\ PRECISION \in Nat \ {0} /\ BPS \in 0 .. U16Max
  /\ U16Max \in Nat /\ U32Max \in Nat /\ U64Max \in Nat /\ U128Max \in Nat
  /\ AccBound \in Nat /\ AccBound <= U128Max
  /\ StakingShareBps \in Nat /\ StakingShareBps <= BPS
  /\ 7 \in LockTerms /\ LockChoices \subseteq LockTerms /\ LockTerms \subseteq Nat
  /\ BoostMults \subseteq 0 .. U16Max /\ StakeAmounts \subseteq 0 .. U64Max
BY ScaleAssumption, WidthAssumption, ConfigAssumption DEF LockTerms

LEMMA InitialPositionsFacts ==
  /\ InitialPositions \in [Slots -> Position]
  /\ \A s \in Slots : ~ InitialPositions[s].open => InitialPositions[s] = NoPosition
  /\ \A s \in Slots : InitialPositions[s].effective_stake * (BPS * BPS)
                        <= InitialPositions[s].amount_staked * MaxWeight
<1> SUFFICES ASSUME NEW s \in Slots
             PROVE  /\ InitialPositions[s] \in Position
                    /\ ~ InitialPositions[s].open => InitialPositions[s] = NoPosition
                    /\ InitialPositions[s].effective_stake * (BPS * BPS)
                         <= InitialPositions[s].amount_staked * MaxWeight
  BY DEF InitialPositions
<1>1. s[1] \in Users /\ Legacy[s[1]] \in Nat
  BY HoldingsAssumption DEF Slots
<1>2. CASE s[2] = 0 /\ Legacy[s[1]] > 0
  <2> DEFINE a == Legacy[s[1]]
             e == CalculateEffective(a, LockMultiplier[7], BPS)
  <2>1. a \in Nat
    BY <1>1
  <2>2. InitialPositions[s] = [open |-> TRUE, amount_staked |-> a, effective_stake |-> e,
                               reward_debt |-> 0, lock_until_ts |-> 0]
    BY <1>2 DEF InitialPositions
  <2> HIDE DEF a
  <2>3. e \in Nat /\ e * (BPS * BPS) <= a * MaxWeight
    BY <2>1, ConstantFacts, EffectiveFacts
  <2> HIDE DEF e
  <2> QED BY <2>1, <2>2, <2>3 DEF Position
<1>3. CASE ~ (s[2] = 0 /\ Legacy[s[1]] > 0)
  <2>1. InitialPositions[s] = NoPosition
    BY <1>3 DEF InitialPositions
  <2>2. BPS * BPS \in Nat /\ MaxWeight \in Nat
    BY ConstantFacts, MaxWeightNat
  <2>3. 0 * (BPS * BPS) <= 0 * MaxWeight
    BY <2>2
  <2> QED BY <2>1, <2>3, NoPositionType DEF NoPosition
<1> QED BY <1>2, <1>3

\* The sum of the weights of well-typed positions whose principal fits the
\* vault fits u128.
LEMMA PositionsTotalFits ==
  ASSUME NEW P \in [Slots -> Position], SumFunction(AmountsOf(P)) <= U64Max,
         \A s \in Slots : P[s].effective_stake * (BPS * BPS) <= P[s].amount_staked * MaxWeight
  PROVE  SumFunction(EffectivesOf(P)) \in 0 .. U128Max
<1>1. AmountsOf(P) \in [Slots -> Nat] /\ EffectivesOf(P) \in [Slots -> Nat]
  BY DEF AmountsOf, EffectivesOf, Position
<1>2. \A s \in Slots : EffectivesOf(P)[s] * (BPS * BPS) <= AmountsOf(P)[s] * MaxWeight
  BY DEF AmountsOf, EffectivesOf
<1> QED BY <1>1, <1>2, TotalFits

LEMMA PoolInit == Init => PoolInv
<1> SUFFICES ASSUME Init PROVE PoolInv
  OBVIOUS
<1>1. positions = InitialPositions
  BY DEF Init
<1>2. positions \in [Slots -> Position] /\ WeightsBounded
  BY <1>1, InitialPositionsFacts DEF WeightsBounded
<1>3. SumFunction(Amounts) \in 0 .. U64Max
  <2>1. SumFunction(InitGame) \in Nat
    <3>1. InitGame \in [Users -> Nat]
      BY HoldingsAssumption
    <3> QED BY <3>1, UsersAssumption, SumNat
  <2>2. Amounts = [s \in Slots |-> InitialPositions[s].amount_staked]
    BY <1>1 DEF Amounts
  <2>3. Amounts \in [Slots -> Nat]
    BY <1>2 DEF Amounts, Position
  <2>4. SumFunction(Amounts) \in Nat
    BY <2>3, SlotsFinite, SumNat
  <2>5. SumFunction(InitGame) + SumFunction(Amounts) <= U64Max
    BY <2>2, HoldingsAssumption
  <2> QED BY <2>1, <2>4, <2>5, ConstantFacts
<1>4. SumFunction(Effectives) \in 0 .. U128Max
  <2>1. SumFunction(AmountsOf(positions)) <= U64Max
    BY <1>3, AmountsAndEffectives
  <2> QED BY <1>2, <2>1, AmountsAndEffectives, PositionsTotalFits DEF WeightsBounded
<1>5. TypeOK
  BY <1>1, <1>2, <1>3, <1>4, InitialPositionsFacts, ConstantFacts, ConfigAssumption,
     HoldingsAssumption DEF Init, TypeOK, PositionIds
<1>6. TotalIsSumOfEffective /\ VaultCoversPrincipal
  BY <1>3 DEF Init, TotalIsSumOfEffective, VaultCoversPrincipal
<1> QED BY <1>2, <1>5, <1>6 DEF PoolInv
-----------------------------------------------------------------------------
\* The arithmetic of the pool stays in the naturals.
LEMMA AccumulatedNat ==
  ASSUME NEW e \in Nat, NEW acc \in Nat
  PROVE  Accumulated(e, acc) \in Nat
<1>1. e * acc \in Nat
  OBVIOUS
<1> QED BY <1>1, ConstantFacts, DivFacts DEF Accumulated

LEMMA PendingNat ==
  ASSUME TypeOK, NEW s \in Slots
  PROVE  Pending(s) \in 0 .. U64Max
<1> DEFINE p == positions[s]
<1>1. p \in Position /\ stakingPool.acc_reward_per_share \in Nat
  BY ConstantFacts DEF TypeOK
<1>2. Accumulated(p.effective_stake, stakingPool.acc_reward_per_share) \in Nat
  BY <1>1, AccumulatedNat DEF Position
<1>3. p.reward_debt \in Nat
  BY <1>1 DEF Position
<1> QED BY <1>2, <1>3, ConstantFacts DEF Pending, PendingRewards, MinOf, SatSub, MaxOf

LEMMA DistributionNat ==
  ASSUME TypeOK, NEW deposit \in Nat
  PROVE  Distribution(deposit) \in Nat
<1> DEFINE toStakers == ToStakers(deposit, StakingShareBps)
           total == stakingPool.total_effective_stake
<1>1. total \in Nat
  BY ConstantFacts DEF TypeOK
<1>2. deposit * StakingShareBps \in Nat
  BY ConstantFacts
<1>3. toStakers \in Nat
  BY <1>2, ConstantFacts, DivFacts DEF ToStakers
<1> HIDE DEF toStakers, total
<1>4. ASSUME total > 0 PROVE PerShare(toStakers, total) \in Nat
  <2>1. toStakers * PRECISION \in Nat
    BY <1>3, ConstantFacts
  <2>2. total \in Nat \ {0}
    BY <1>1, <1>4
  <2> QED BY <2>1, <2>2, DivFacts DEF PerShare
<1> QED BY <1>4 DEF Distribution, toStakers, total

LEMMA SettledDebtNat ==
  ASSUME TypeOK, NEW s \in Slots
  PROVE  SettledDebt(s) \in Nat
<1>1. positions[s] \in Position /\ stakingPool.acc_reward_per_share \in Nat
  BY ConstantFacts DEF TypeOK
<1>2. positions[s].effective_stake \in Nat
  BY <1>1 DEF Position
<1> QED BY <1>1, <1>2, AccumulatedNat DEF SettledDebt

\* Nobody holds more GAME than there is.
LEMMA WalletWithinSupply ==
  ASSUME TypeOK, NEW u \in Users
  PROVE  game[u] + stakingVault <= GameSupply /\ GameSupply \in Nat
<1>1. game \in [Users -> Nat] /\ stakingVault \in Nat
  BY DEF TypeOK
<1>2. SumFunction(game) \in Nat /\ game[u] <= SumFunction(game)
  BY <1>1, UsersAssumption, SumNat, SumMember
<1>3. game[u] \in Nat
  BY <1>1
<1> QED BY <1>1, <1>2, <1>3 DEF GameSupply

\* A step that leaves the weights and principals alone keeps the two sums.
LEMMA SumsUnchanged ==
  ASSUME PoolInv, TypeOK', Amounts' = Amounts, Effectives' = Effectives,
         stakingPool'.total_effective_stake = stakingPool.total_effective_stake,
         stakingVault' >= stakingVault
  PROVE  PoolInv'
<1>1. SumFunction(Amounts) \in Nat
  <2>1. Amounts \in [Slots -> Nat]
    BY DEF PoolInv, TypeOK, Amounts, Position
  <2> QED BY <2>1, SlotsFinite, SumNat
<1>2. stakingVault \in Nat /\ stakingVault' \in Nat
  BY DEF PoolInv, TypeOK
<1>3. \A s \in Slots : /\ positions'[s].amount_staked = positions[s].amount_staked
                       /\ positions'[s].effective_stake = positions[s].effective_stake
  <2> SUFFICES ASSUME NEW s \in Slots
               PROVE  /\ positions'[s].amount_staked = positions[s].amount_staked
                      /\ positions'[s].effective_stake = positions[s].effective_stake
    OBVIOUS
  <2>1. Amounts'[s] = positions'[s].amount_staked /\ Amounts[s] = positions[s].amount_staked
    BY DEF Amounts
  <2>2. /\ Effectives'[s] = positions'[s].effective_stake
        /\ Effectives[s] = positions[s].effective_stake
    BY DEF Effectives
  <2> QED BY <2>1, <2>2
<1>4. WeightsBounded'
  BY <1>3 DEF PoolInv, WeightsBounded
<1>5. TotalIsSumOfEffective'
  BY DEF PoolInv, TotalIsSumOfEffective
<1>6. VaultCoversPrincipal'
  BY <1>1, <1>2 DEF PoolInv, VaultCoversPrincipal
<1> QED BY <1>4, <1>5, <1>6 DEF PoolInv

LEMMA MineKeepsInv ==
  ASSUME PoolInv, NEW u \in Users, NEW deposit \in Deposits, NEW reward \in Rewards,
         MineWithRig(u, deposit, reward)
  PROVE  PoolInv'
<1> USE DEF PoolInv
<1>1. deposit \in Nat /\ reward \in Nat
  BY ConfigAssumption
<1>2. Distribution(deposit) \in Nat
  BY <1>1, DistributionNat
<1>3. xnt' \in [Users -> 0 .. U64Max] /\ treasury' \in 0 .. U64Max
  BY <1>1, ConstantFacts DEF TypeOK, MineWithRig
<1>4. game' \in [Users -> 0 .. U64Max]
  <2>1. game[u] + stakingVault <= GameSupply /\ GameSupply \in Nat
    BY WalletWithinSupply
  <2>2. GameSupply + reward <= U64Max
    BY DEF MineWithRig
  <2>3. game[u] \in 0 .. U64Max /\ stakingVault \in Nat
    BY DEF TypeOK
  <2>4. game[u] + reward \in 0 .. U64Max
    BY <1>1, <2>1, <2>2, <2>3, ConstantFacts
  <2> QED BY <2>4 DEF TypeOK, MineWithRig
<1>5. stakingPool' \in [total_effective_stake : 0 .. U128Max, acc_reward_per_share : 0 .. AccBound]
  BY <1>2, ConstantFacts DEF TypeOK, MineWithRig
<1>6. TypeOK'
  BY <1>3, <1>4, <1>5 DEF TypeOK, MineWithRig
<1>7. /\ Amounts' = Amounts /\ Effectives' = Effectives
      /\ stakingPool'.total_effective_stake = stakingPool.total_effective_stake
      /\ stakingVault' >= stakingVault
  BY DEF MineWithRig, Amounts, Effectives, TypeOK
<1> QED BY <1>6, <1>7, SumsUnchanged

LEMMA ClaimKeepsInv ==
  ASSUME PoolInv, NEW u \in Users, NEW id \in PositionIds, Claim(u, id)
  PROVE  PoolInv'
<1> USE DEF PoolInv
<1> DEFINE s == <<u, id>>
<1>1. s \in Slots
  BY DEF Slots
<1>2. Pending(s) \in 0 .. U64Max
  BY <1>1, PendingNat
<1>3. xnt' \in [Users -> 0 .. U64Max] /\ treasury' \in 0 .. U64Max
  BY <1>2, ConstantFacts DEF TypeOK, Claim, CanSettle, PayRewards
<1>4. SettledDebt(s) \in Nat
  BY <1>1, SettledDebtNat
<1>5. positions[s].open /\ positions' = [positions EXCEPT ![s].reward_debt = SettledDebt(s)]
  BY DEF Claim, CanSettle
<1> HIDE DEF s
<1>6. /\ positions' \in [Slots -> Position]
      /\ \A t \in Slots : ~ positions'[t].open => positions'[t] = NoPosition
  BY <1>1, <1>4, <1>5 DEF TypeOK, Position
<1>7. TypeOK'
  BY <1>3, <1>6 DEF TypeOK, Claim
<1>8. Amounts' = Amounts /\ Effectives' = Effectives
  BY <1>1, <1>5 DEF Amounts, Effectives, TypeOK, Position
<1>9. /\ stakingPool'.total_effective_stake = stakingPool.total_effective_stake
      /\ stakingVault' >= stakingVault
  BY DEF Claim, TypeOK
<1> QED BY <1>7, <1>8, <1>9, SumsUnchanged

LEMMA StakeKeepsInv ==
  ASSUME PoolInv, NEW u \in Users, NEW amount \in StakeAmounts, NEW lockDays \in LockChoices,
         NEW boostMult \in BoostMults, Stake(u, amount, lockDays, boostMult)
  PROVE  PoolInv'
<1> USE DEF PoolInv
<1> DEFINE s == NextSlot(u)
           e == CalculateEffective(amount, LockMultiplier[lockDays], boostMult)
           acc == stakingPool.acc_reward_per_share
           new == [open |-> TRUE, amount_staked |-> amount, effective_stake |-> e,
                   reward_debt |-> Accumulated(e, acc),
                   lock_until_ts |-> now + lockDays * Day]
<1>1. /\ ~ positions[s].open /\ game[u] >= amount /\ stakingVault + amount <= U64Max
      /\ game' = [game EXCEPT ![u] = @ - amount]
      /\ stakingVault' = stakingVault + amount
      /\ positions' = [positions EXCEPT ![s] = new]
      /\ stakingPool' = [stakingPool EXCEPT !.total_effective_stake = SatAdd(@, e, U128Max)]
      /\ nextPositionId' = [nextPositionId EXCEPT ![u] = SatAdd(MaxOf(@, 1), 1, U32Max)]
      /\ UNCHANGED <<now, xnt, treasury>>
  BY DEF Stake
<1>2. /\ amount \in 0 .. U64Max /\ amount \in Nat /\ lockDays \in LockTerms /\ lockDays \in Nat
      /\ boostMult \in 0 .. U16Max
  BY ConstantFacts
<1>3. nextPositionId[u] \in 0 .. U32Max /\ U32Max \in Nat \ {0}
  BY WidthAssumption DEF TypeOK, PositionIds
<1>4. s \in Slots
  BY <1>3 DEF NextSlot, Slots, PositionIds, MaxOf
<1>5. e \in Nat /\ e * (BPS * BPS) <= amount * MaxWeight
  BY <1>2, EffectiveFacts
<1>6. acc \in Nat /\ now \in Nat /\ now + lockDays * Day \in Nat
  BY <1>2, ConstantFacts, ConfigAssumption DEF TypeOK
<1> HIDE DEF s, e, acc
<1>7. new \in Position
  BY <1>2, <1>5, <1>6, AccumulatedNat DEF Position
<1>8. new.amount_staked = amount /\ new.effective_stake = e /\ new.open
  OBVIOUS
<1> HIDE DEF new
<1>9. positions[s] = NoPosition
  BY <1>1, <1>4 DEF TypeOK
<1>10. /\ positions' \in [Slots -> Position] /\ positions'[s] = new
       /\ \A t \in Slots \ {s} : positions'[t] = positions[t]
  BY <1>1, <1>4, <1>7 DEF TypeOK
<1>11. \A t \in Slots : ~ positions'[t].open => positions'[t] = NoPosition
  BY <1>8, <1>10 DEF TypeOK
<1>12. WeightsBounded'
  BY <1>5, <1>8, <1>10 DEF WeightsBounded
<1>13. /\ SumFunction(Amounts) \in Nat
       /\ SumFunction(Amounts') = SumFunction(Amounts) + amount
       /\ SumFunction(Effectives) \in Nat
       /\ SumFunction(Effectives') = SumFunction(Effectives) + e
  <2>1. SameBut(positions, positions', s, Slots)
    BY <1>10 DEF SameBut
  <2>2. positions[s].amount_staked = 0 /\ positions[s].effective_stake = 0
    BY <1>9 DEF NoPosition
  <2>3. positions \in [Slots -> Position]
    BY DEF TypeOK
  <2>4. /\ SumFunction(AmountsOf(positions)) \in Nat
        /\ SumFunction(EffectivesOf(positions)) \in Nat
        /\ SumFunction(AmountsOf(positions')) = SumFunction(AmountsOf(positions))
             - positions[s].amount_staked + positions'[s].amount_staked
        /\ SumFunction(EffectivesOf(positions')) = SumFunction(EffectivesOf(positions))
             - positions[s].effective_stake + positions'[s].effective_stake
    BY <1>4, <1>10, <2>1, <2>3, SlotUpdate
  <2> QED BY <1>2, <1>5, <1>8, <1>10, <2>2, <2>4, AmountsAndEffectives
<1>14. stakingVault' \in 0 .. U64Max /\ SumFunction(Amounts') <= stakingVault'
  BY <1>1, <1>2, <1>13, ConstantFacts DEF TypeOK, VaultCoversPrincipal
<1>15. SumFunction(Effectives') \in 0 .. U128Max
  <2>1. SumFunction(AmountsOf(positions')) <= U64Max
    BY <1>2, <1>13, <1>14, ConstantFacts, AmountsAndEffectives
  <2> QED BY <1>10, <1>12, <2>1, AmountsAndEffectives, PositionsTotalFits DEF WeightsBounded
<1>16. stakingPool'.total_effective_stake = SumFunction(Effectives')
  BY <1>1, <1>5, <1>13, <1>15, ConstantFacts DEF TypeOK, TotalIsSumOfEffective, SatAdd, MinOf
<1>17. stakingPool' \in [total_effective_stake : 0 .. U128Max,
                         acc_reward_per_share : 0 .. AccBound]
  <2>1. stakingPool' = [stakingPool EXCEPT !.total_effective_stake = SumFunction(Effectives')]
    BY <1>1, <1>16 DEF TypeOK
  <2> QED BY <1>15, <2>1 DEF TypeOK
<1>18. game' \in [Users -> 0 .. U64Max]
  BY <1>1, <1>2, ConstantFacts DEF TypeOK
<1>19. nextPositionId' \in [Users -> PositionIds]
  BY <1>1, <1>3 DEF TypeOK, PositionIds, SatAdd, MinOf, MaxOf
<1>20. TypeOK'
  BY <1>1, <1>10, <1>11, <1>14, <1>17, <1>18, <1>19 DEF TypeOK
<1> QED BY <1>12, <1>14, <1>16, <1>20 DEF TotalIsSumOfEffective, VaultCoversPrincipal

LEMMA UnstakeKeepsInv ==
  ASSUME PoolInv, NEW u \in Users, NEW id \in PositionIds, Unstake(u, id)
  PROVE  PoolInv'
<1> USE DEF PoolInv
<1> DEFINE s == <<u, id>>
           a == positions[s].amount_staked
           e == positions[s].effective_stake
<1>1. s \in Slots
  BY DEF Slots
<1>2. Pending(s) \in 0 .. U64Max
  BY <1>1, PendingNat
<1>3. xnt' \in [Users -> 0 .. U64Max] /\ treasury' \in 0 .. U64Max
  BY <1>2, ConstantFacts DEF TypeOK, Unstake, CanUnstake, CanSettle, PayRewards
<1>4. /\ a <= stakingVault /\ game[u] + a <= U64Max
      /\ stakingVault' = stakingVault - a
      /\ game' = [game EXCEPT ![u] = @ + a]
      /\ stakingPool' = [stakingPool EXCEPT !.total_effective_stake = SatSub(@, e)]
      /\ positions' = [positions EXCEPT ![s] = NoPosition]
      /\ UNCHANGED <<now, nextPositionId>>
  BY DEF Unstake, CanUnstake
<1>5. a \in Nat /\ e \in Nat
  BY <1>1 DEF TypeOK, Position
<1> HIDE DEF s
<1>6. /\ positions' \in [Slots -> Position] /\ positions'[s] = NoPosition
      /\ \A t \in Slots \ {s} : positions'[t] = positions[t]
  BY <1>1, <1>4, NoPositionType DEF TypeOK
<1>7. \A t \in Slots : ~ positions'[t].open => positions'[t] = NoPosition
  BY <1>6 DEF TypeOK
<1>8. NoPosition.amount_staked = 0 /\ NoPosition.effective_stake = 0
  BY DEF NoPosition
<1>9. WeightsBounded'
  <2>1. 0 * (BPS * BPS) <= 0 * MaxWeight
    BY MaxWeightNat, ConstantFacts
  <2> QED BY <1>6, <1>8, <2>1 DEF WeightsBounded
<1>10. /\ SumFunction(Amounts') \in Nat /\ SumFunction(Effectives') \in Nat
       /\ SumFunction(Amounts') = SumFunction(Amounts) - a
       /\ SumFunction(Effectives') = SumFunction(Effectives) - e
       /\ SumFunction(Amounts) \in Nat /\ SumFunction(Effectives) \in Nat
  <2>1. SameBut(positions, positions', s, Slots)
    BY <1>6 DEF SameBut
  <2>2. positions \in [Slots -> Position]
    BY DEF TypeOK
  <2>3. /\ SumFunction(AmountsOf(positions)) \in Nat
        /\ SumFunction(EffectivesOf(positions)) \in Nat
        /\ SumFunction(AmountsOf(positions')) \in Nat
        /\ SumFunction(EffectivesOf(positions')) \in Nat
        /\ SumFunction(AmountsOf(positions')) = SumFunction(AmountsOf(positions))
             - positions[s].amount_staked + positions'[s].amount_staked
        /\ SumFunction(EffectivesOf(positions')) = SumFunction(EffectivesOf(positions))
             - positions[s].effective_stake + positions'[s].effective_stake
    BY <1>1, <1>6, <2>1, <2>2, SlotUpdate
  <2> QED BY <1>5, <1>6, <1>8, <2>3, AmountsAndEffectives
<1> HIDE DEF a, e
<1>11. stakingVault' \in 0 .. U64Max /\ SumFunction(Amounts') <= stakingVault'
  BY <1>4, <1>5, <1>10, ConstantFacts DEF TypeOK, VaultCoversPrincipal
<1>12. stakingPool'.total_effective_stake = SumFunction(Effectives')
  BY <1>4, <1>5, <1>10, ConstantFacts DEF TypeOK, TotalIsSumOfEffective, SatSub, MaxOf
<1>13. stakingPool' \in [total_effective_stake : 0 .. U128Max,
                         acc_reward_per_share : 0 .. AccBound]
  <2>1. stakingPool' = [stakingPool EXCEPT !.total_effective_stake = SumFunction(Effectives')]
    BY <1>4, <1>12 DEF TypeOK
  <2>2. SumFunction(Effectives') \in 0 .. U128Max
    BY <1>5, <1>10, ConstantFacts DEF TypeOK, TotalIsSumOfEffective
  <2> QED BY <2>1, <2>2 DEF TypeOK
<1>14. game' \in [Users -> 0 .. U64Max]
  BY <1>4, <1>5, ConstantFacts DEF TypeOK
<1>15. TypeOK'
  BY <1>3, <1>4, <1>6, <1>7, <1>11, <1>13, <1>14 DEF TypeOK
<1> QED BY <1>9, <1>11, <1>12, <1>15 DEF TotalIsSumOfEffective, VaultCoversPrincipal

LEMMA TransfersKeepInv ==
  ASSUME PoolInv,
         \/ \E u \in Users, amount \in GiftAmounts : DonateXnt(u, amount) \/ DonateGame(u, amount)
         \/ \E t \in Times : Tick(t)
  PROVE  PoolInv'
<1> USE DEF PoolInv
<1>1. ASSUME NEW u \in Users, NEW amount \in GiftAmounts, DonateXnt(u, amount)
      PROVE  PoolInv'
  <2>1. TypeOK'
    BY <1>1, ConfigAssumption, ConstantFacts DEF TypeOK, DonateXnt
  <2>2. /\ Amounts' = Amounts /\ Effectives' = Effectives
        /\ stakingPool'.total_effective_stake = stakingPool.total_effective_stake
        /\ stakingVault' >= stakingVault
    BY <1>1 DEF DonateXnt, Amounts, Effectives, TypeOK
  <2> QED BY <2>1, <2>2, SumsUnchanged
<1>2. ASSUME NEW u \in Users, NEW amount \in GiftAmounts, DonateGame(u, amount)
      PROVE  PoolInv'
  <2>1. amount \in Nat
    BY ConfigAssumption
  <2>2. TypeOK'
    BY <1>2, <2>1, ConstantFacts DEF TypeOK, DonateGame
  <2>3. /\ Amounts' = Amounts /\ Effectives' = Effectives
        /\ stakingPool'.total_effective_stake = stakingPool.total_effective_stake
        /\ stakingVault' >= stakingVault
    BY <1>2, <2>1 DEF DonateGame, Amounts, Effectives, TypeOK
  <2> QED BY <2>2, <2>3, SumsUnchanged
<1>3. ASSUME NEW t \in Times, Tick(t)
      PROVE  PoolInv'
  <2>1. TypeOK'
    BY <1>3 DEF TypeOK, Tick
  <2>2. /\ Amounts' = Amounts /\ Effectives' = Effectives
        /\ stakingPool'.total_effective_stake = stakingPool.total_effective_stake
        /\ stakingVault' >= stakingVault
    BY <1>3 DEF Tick, Amounts, Effectives, TypeOK
  <2> QED BY <2>1, <2>2, SumsUnchanged
<1> QED BY <1>1, <1>2, <1>3

LEMMA NextKeepsInv == PoolInv /\ [Next]_vars => PoolInv'
<1> SUFFICES ASSUME PoolInv, [Next]_vars PROVE PoolInv'
  OBVIOUS
<1>1. ASSUME NEW u \in Users, NEW deposit \in Deposits, NEW reward \in Rewards,
             MineWithRig(u, deposit, reward)
      PROVE  PoolInv'
  BY <1>1, MineKeepsInv
<1>2. ASSUME NEW u \in Users, NEW amount \in StakeAmounts, NEW lockDays \in LockChoices,
             NEW boostMult \in BoostMults, Stake(u, amount, lockDays, boostMult)
      PROVE  PoolInv'
  BY <1>2, StakeKeepsInv
<1>3. ASSUME NEW u \in Users, NEW id \in PositionIds, Claim(u, id)
      PROVE  PoolInv'
  BY <1>3, ClaimKeepsInv
<1>4. ASSUME NEW u \in Users, NEW id \in PositionIds, Unstake(u, id)
      PROVE  PoolInv'
  BY <1>4, UnstakeKeepsInv
<1>5. ASSUME UNCHANGED vars
      PROVE  PoolInv'
  <2>1. PoolInv /\ TypeOK
    BY DEF PoolInv
  <2>2. TypeOK'
    BY <1>5, <2>1 DEF vars, TypeOK
  <2>3. /\ Amounts' = Amounts /\ Effectives' = Effectives
        /\ stakingPool'.total_effective_stake = stakingPool.total_effective_stake
        /\ stakingVault' >= stakingVault
    BY <1>5, <2>1 DEF vars, Amounts, Effectives, TypeOK
  <2> QED BY <2>2, <2>3, SumsUnchanged
<1> QED BY <1>1, <1>2, <1>3, <1>4, <1>5, TransfersKeepInv DEF Next

LEMMA PoolInvariant == Spec => []PoolInv
BY PoolInit, NextKeepsInv, PTL DEF Spec

\* Every variable keeps its type; in particular no balance goes below zero or
\* above its width, whatever sequence of instructions is run.
THEOREM TypeCorrect == Spec => []TypeOK
<1>1. PoolInv => TypeOK
  BY DEF PoolInv
<1> QED BY <1>1, PoolInvariant, PTL

\* total_effective_stake is always the sum of the open positions' weights: the
\* saturating arithmetic of stake and unstake never saturates.
THEOREM TotalIsSum == Spec => []TotalIsSumOfEffective
<1>1. PoolInv => TotalIsSumOfEffective
  BY DEF PoolInv
<1> QED BY <1>1, PoolInvariant, PTL

\* The staking vault always covers the principal of all open positions.
THEOREM VaultCovers == Spec => []VaultCoversPrincipal
<1>1. PoolInv => VaultCoversPrincipal
  BY DEF PoolInv
<1> QED BY <1>1, PoolInvariant, PTL
-----------------------------------------------------------------------------
\* No position exists at an id the user has not reached, until the ids run out.
IdInv ==
  \A u \in Users, id \in PositionIds :
    nextPositionId[u] < U32Max /\ id >= NextSlot(u)[2] => ~ positions[<<u, id>>].open

LEMMA IdInit == Init => IdInv
<1> SUFFICES ASSUME Init, NEW u \in Users, NEW id \in PositionIds, id >= NextSlot(u)[2]
             PROVE  ~ positions[<<u, id>>].open
  BY DEF IdInv
<1>1. nextPositionId[u] = 0
  BY DEF Init
<1>2. id >= 1 /\ id # 0
  BY <1>1 DEF NextSlot, MaxOf, PositionIds
<1>3. positions[<<u, id>>] = NoPosition
  BY <1>2 DEF Init, InitialPositions, Slots
<1> QED BY <1>3 DEF NoPosition

LEMMA IdStep == TypeOK /\ IdInv /\ [Next]_vars => IdInv'
<1> SUFFICES ASSUME TypeOK, IdInv, [Next]_vars PROVE IdInv'
  OBVIOUS
<1>1. ASSUME UNCHANGED nextPositionId,
             \A s \in Slots : positions'[s].open => positions[s].open
      PROVE  IdInv'
  BY <1>1 DEF IdInv, NextSlot, Slots
<1>2. ASSUME NEW u \in Users, NEW amount \in StakeAmounts, NEW lockDays \in LockChoices,
             NEW boostMult \in BoostMults, Stake(u, amount, lockDays, boostMult)
      PROVE  IdInv'
  <2> SUFFICES ASSUME NEW v \in Users, NEW id \in PositionIds,
                      nextPositionId'[v] < U32Max, id >= NextSlot(v)[2]'
               PROVE  ~ positions'[<<v, id>>].open
    BY DEF IdInv
  <2>1. nextPositionId[v] \in 0 .. U32Max /\ U32Max \in Nat \ {0} /\ id \in Nat
    BY WidthAssumption DEF TypeOK, PositionIds
  <2>2. nextPositionId' = [nextPositionId EXCEPT ![u] = SatAdd(MaxOf(@, 1), 1, U32Max)]
    BY <1>2 DEF Stake
  <2>3. NextSlot(v)[2] = MaxOf(nextPositionId[v], 1) /\ NextSlot(v)[2]' = MaxOf(nextPositionId'[v], 1)
    BY DEF NextSlot
  <2>4. CASE v = u
    <3>1. nextPositionId[v] < U32Max /\ id > NextSlot(v)[2]
      BY <2>1, <2>2, <2>3, <2>4 DEF SatAdd, MinOf, MaxOf, TypeOK
    <3>2. ~ positions[<<v, id>>].open
      BY <2>1, <2>3, <3>1 DEF IdInv, MaxOf
    <3>3. <<v, id>> # NextSlot(u) /\ <<v, id>> \in Slots
      BY <2>1, <2>3, <2>4, <3>1 DEF NextSlot, Slots, MaxOf
    <3> QED BY <1>2, <3>2, <3>3 DEF Stake, TypeOK
  <2>5. CASE v # u
    <3>1. nextPositionId'[v] = nextPositionId[v]
      BY <2>2, <2>5 DEF TypeOK
    <3>2. ~ positions[<<v, id>>].open
      BY <2>3, <3>1 DEF IdInv
    <3>3. <<v, id>> # NextSlot(u) /\ <<v, id>> \in Slots
      BY <2>5 DEF NextSlot, Slots
    <3> QED BY <1>2, <3>2, <3>3 DEF Stake, TypeOK
  <2> QED BY <2>4, <2>5
<1>3. ASSUME NEW u \in Users, NEW id \in PositionIds, Claim(u, id) \/ Unstake(u, id)
      PROVE  IdInv'
  <2>1. <<u, id>> \in Slots
    BY DEF Slots
  <2>2. \A s \in Slots : positions'[s].open => positions[s].open
    BY <1>3, <2>1 DEF Claim, Unstake, CanUnstake, CanSettle, TypeOK, Position, NoPosition
  <2> QED BY <1>1, <1>3, <2>2 DEF Claim, Unstake
<1>4. ASSUME UNCHANGED <<positions, nextPositionId>>
      PROVE  IdInv'
  BY <1>4 DEF IdInv, NextSlot
<1> QED BY <1>2, <1>3, <1>4 DEF Next, vars, MineWithRig, DonateXnt, DonateGame, Tick

\* stake always finds the account of the next id free, until a user has opened
\* as many positions as u32 counts.
THEOREM NextIdFree == Spec => []NextIdIsFree
<1>1. TypeOK /\ IdInv => NextIdIsFree
  <2> SUFFICES ASSUME TypeOK, IdInv, NEW u \in Users, nextPositionId[u] < U32Max
               PROVE  ~ positions[NextSlot(u)].open
    BY DEF NextIdIsFree
  <2>1. nextPositionId[u] \in 0 .. U32Max /\ U32Max \in Nat \ {0}
    BY WidthAssumption DEF TypeOK, PositionIds
  <2>2. /\ MaxOf(nextPositionId[u], 1) \in PositionIds
        /\ NextSlot(u) = <<u, MaxOf(nextPositionId[u], 1)>>
        /\ MaxOf(nextPositionId[u], 1) >= NextSlot(u)[2]
    BY <2>1 DEF PositionIds, NextSlot, MaxOf
  <2> QED BY <2>2 DEF IdInv
<1> QED BY <1>1, IdInit, IdStep, TypeCorrect, PTL DEF Spec

\* The counter of ids never goes back.
LEMMA NextSlotGrows ==
  ASSUME TypeOK, [Next]_vars, NEW u \in Users, NEW id \in PositionIds,
         id < NextSlot(u)[2]
  PROVE  id < NextSlot(u)'[2]
<1>1. /\ nextPositionId \in [Users -> PositionIds]
      /\ nextPositionId[u] \in 0 .. U32Max
      /\ id \in 0 .. U32Max /\ id < MaxOf(nextPositionId[u], 1)
  BY DEF TypeOK, PositionIds, NextSlot
<1>2. ASSUME NEW v \in Users, NEW amount \in StakeAmounts, NEW lockDays \in LockChoices,
             NEW boostMult \in BoostMults, Stake(v, amount, lockDays, boostMult)
      PROVE  nextPositionId'[u] >= nextPositionId[u]
  <2>1. CASE v = u
    <3>1. nextPositionId'[u] = SatAdd(MaxOf(nextPositionId[u], 1), 1, U32Max)
      BY <1>1, <1>2, <2>1 DEF Stake
    <3> QED BY <1>1, <3>1, WidthAssumption DEF SatAdd, MaxOf, MinOf
  <2>2. CASE v # u
    <3>1. nextPositionId'[u] = nextPositionId[u]
      BY <1>1, <1>2, <2>2 DEF Stake
    <3> QED BY <1>1, <3>1
  <2> QED BY <2>1, <2>2
<1>3. CASE UNCHANGED nextPositionId
  BY <1>1, <1>3 DEF NextSlot
<1>4. ASSUME nextPositionId'[u] >= nextPositionId[u], nextPositionId'[u] \in Int
      PROVE  id < NextSlot(u)'[2]
  BY <1>1, <1>4 DEF NextSlot, MaxOf
<1>5. ASSUME NEW v \in Users, NEW amount \in StakeAmounts, NEW lockDays \in LockChoices,
             NEW boostMult \in BoostMults, Stake(v, amount, lockDays, boostMult)
      PROVE  nextPositionId'[u] \in Int
  BY <1>1, <1>5, WidthAssumption DEF Stake, SatAdd, MaxOf, MinOf, PositionIds
<1> QED BY <1>2, <1>3, <1>4, <1>5
     DEF Next, vars, MineWithRig, Claim, Unstake, DonateXnt, DonateGame, Tick

LEMMA ClosedStays ==
  ASSUME TypeOK, [Next]_vars, NEW u \in Users, NEW id \in PositionIds,
         id < NextSlot(u)[2], ~ positions[<<u, id>>].open
  PROVE  ~ positions'[<<u, id>>].open
<1>1. <<u, id>> \in Slots
  BY DEF Slots
<1>2. ASSUME NEW v \in Users, NEW amount \in StakeAmounts, NEW lockDays \in LockChoices,
             NEW boostMult \in BoostMults, Stake(v, amount, lockDays, boostMult)
      PROVE  ~ positions'[<<u, id>>].open
  <2>1. id # NextSlot(u)[2]
    BY DEF PositionIds
  <2>2. <<u, id>> # NextSlot(v)
    BY <2>1 DEF NextSlot
  <2> QED BY <1>1, <1>2, <2>2 DEF Stake, TypeOK
<1>3. ASSUME NEW v \in Users, NEW k \in PositionIds, Claim(v, k) \/ Unstake(v, k)
      PROVE  ~ positions'[<<u, id>>].open
  <2>1. <<v, k>> \in Slots
    BY DEF Slots
  <2> QED BY <1>1, <1>3, <2>1
       DEF Claim, Unstake, CanUnstake, CanSettle, TypeOK, Position, NoPosition
<1>4. ASSUME UNCHANGED positions
      PROVE  ~ positions'[<<u, id>>].open
  BY <1>4
<1> QED BY <1>2, <1>3, <1>4 DEF Next, vars, MineWithRig, DonateXnt, DonateGame, Tick

\* The account of a closed position is never opened again.
THEOREM ClosedForever == Spec => ClosedStaysClosed
<1>1. TypeOK /\ [Next]_vars
        => [\A u \in Users, id \in PositionIds :
              id < NextSlot(u)[2] =>
                /\ id < NextSlot(u)'[2]
                /\ ~ positions[<<u, id>>].open => ~ positions'[<<u, id>>].open]_vars
  BY ClosedStays, NextSlotGrows
<1> QED BY <1>1, TypeCorrect, PTL DEF Spec, ClosedStaysClosed
-----------------------------------------------------------------------------
\* Custody brings its own copy of the sum.
LEMMA SameSum ==
  ASSUME NEW f
  PROVE  CustodyOfGame!SumFunction(f) = SumFunction(f)
BY DEF SumFunction, SumFunctionOnSet, FoldFunctionOnSet, MapThenFoldSet,
       CustodyOfGame!SumFunction, CustodyOfGame!SumFunctionOnSet,
       CustodyOfGame!FoldFunctionOnSet, CustodyOfGame!MapThenFoldSet

LEMMA CustodyInit == PoolInv /\ Init => CustodyOfGame!Init
<1> SUFFICES ASSUME PoolInv, Init PROVE CustodyOfGame!Init
  OBVIOUS
<1> USE DEF PoolInv
<1>1. now \in Nat /\ game \in [Users -> Nat] /\ stakingVault \in Nat
  BY ConfigAssumption DEF TypeOK
<1>2. Deposited \in [Users \X PositionIds -> CustodyOfGame!Deposit]
  BY DEF TypeOK, Deposited, Position, Slots, CustodyOfGame!Deposit
<1>3. [k \in Users \X PositionIds |-> Deposited[k].amount] = Amounts
  BY DEF Amounts, Slots, Deposited
<1>4. SumFunction(Amounts) <= stakingVault
  BY DEF VaultCoversPrincipal
<1>5. CustodyOfGame!Held = SumFunction(Amounts)
  BY <1>3, SameSum DEF CustodyOfGame!Held
<1> QED BY <1>1, <1>2, <1>4, <1>5 DEF CustodyOfGame!Init

LEMMA StakeIsPut ==
  ASSUME PoolInv, PoolInv', NEW u \in Users, NEW amount \in StakeAmounts,
         NEW lockDays \in LockChoices, NEW boostMult \in BoostMults,
         Stake(u, amount, lockDays, boostMult)
  PROVE  CustodyOfGame!Next
<1> USE DEF PoolInv
<1>1. PICK r \in PositionIds : NextSlot(u) = <<u, r>>
  BY WidthAssumption DEF TypeOK, NextSlot, PositionIds, MaxOf
<1> DEFINE s == <<u, r>>
           new == [held |-> TRUE, amount |-> amount, until |-> now + lockDays * Day]
<1>2. s \in Slots
  BY DEF Slots
<1>3. /\ positions'[s].open = TRUE /\ positions'[s].amount_staked = amount
      /\ positions'[s].lock_until_ts = now + lockDays * Day
      /\ ~ positions[s].open /\ amount <= game[u]
      /\ game' = [game EXCEPT ![u] = @ - amount]
      /\ stakingVault' = stakingVault + amount
      /\ now' = now
      /\ \A t \in Slots \ {s} : positions'[t] = positions[t]
  BY <1>1, <1>2 DEF Stake, TypeOK
<1>4. amount \in Nat /\ now \in Nat /\ lockDays * Day \in Nat /\ lockDays * Day > 0
  BY ConstantFacts, ConfigAssumption DEF TypeOK, LockTerms
<1> HIDE DEF s
<1>5. /\ Deposited'[s] = new /\ ~ Deposited[s].held
      /\ Deposited' = [Deposited EXCEPT ![s] = new]
  BY <1>2, <1>3 DEF Deposited
<1>6. new \in CustodyOfGame!Deposit /\ new.held /\ new.until > now /\ new.amount = amount
  BY <1>4 DEF CustodyOfGame!Deposit
<1> HIDE DEF new
<1>7. CustodyOfGame!Put(u, r)
  BY <1>3, <1>5, <1>6 DEF CustodyOfGame!Put, s
<1> QED BY <1>7 DEF CustodyOfGame!Next

LEMMA UnstakeIsTakeBack ==
  ASSUME PoolInv, NEW u \in Users, NEW id \in PositionIds, Unstake(u, id)
  PROVE  CustodyOfGame!Next
<1> DEFINE s == <<u, id>>
<1>1. s \in Slots
  BY DEF Slots
<1>2. /\ positions[s].open /\ positions[s].lock_until_ts <= now
      /\ game' = [game EXCEPT ![u] = @ + positions[s].amount_staked]
      /\ stakingVault' = stakingVault - positions[s].amount_staked
      /\ positions' = [positions EXCEPT ![s] = NoPosition]
      /\ now' = now
  BY DEF Unstake, CanUnstake, CanSettle
<1>3. /\ Deposited' = [Deposited EXCEPT ![s] = CustodyOfGame!NoDeposit]
      /\ Deposited[s] = [held |-> positions[s].open,
                         amount |-> positions[s].amount_staked,
                         until |-> positions[s].lock_until_ts]
  BY <1>1, <1>2 DEF Deposited, NoPosition, CustodyOfGame!NoDeposit, PoolInv, TypeOK
<1>4. CustodyOfGame!TakeBack(u, id)
  BY <1>2, <1>3 DEF CustodyOfGame!TakeBack
<1> QED BY <1>4 DEF CustodyOfGame!Next

\* Steps that leave every receipt alone.
LEMMA OthersInCustody ==
  ASSUME PoolInv, PoolInv'
  PROVE  /\ \A u \in Users, deposit \in Deposits, reward \in Rewards :
              MineWithRig(u, deposit, reward) => CustodyOfGame!Next
         /\ \A u \in Users, id \in PositionIds :
              Claim(u, id) => UNCHANGED CustodyOfGame!vars
         /\ \A u \in Users, amount \in GiftAmounts :
              DonateXnt(u, amount) => UNCHANGED CustodyOfGame!vars
         /\ \A u \in Users, amount \in GiftAmounts :
              DonateGame(u, amount) => CustodyOfGame!Next
         /\ \A t \in Times : Tick(t) => CustodyOfGame!Next
         /\ UNCHANGED vars => UNCHANGED CustodyOfGame!vars
<1> USE DEF PoolInv
<1>1. ASSUME NEW u \in Users, NEW deposit \in Deposits, NEW reward \in Rewards,
             MineWithRig(u, deposit, reward)
      PROVE  CustodyOfGame!Next
  <2>1. reward \in Nat /\ game[u] \in Nat
    BY ConfigAssumption DEF TypeOK
  <2>2. game'[u] = game[u] + reward /\ game' = [game EXCEPT ![u] = game'[u]]
    BY <1>1, <2>1 DEF MineWithRig, TypeOK
  <2>3. UNCHANGED <<now, positions, stakingVault>>
    BY <1>1 DEF MineWithRig
  <2>4. CustodyOfGame!Earn(u)
    BY <2>1, <2>2, <2>3 DEF Deposited, CustodyOfGame!Earn
  <2> QED BY <2>4 DEF CustodyOfGame!Next
<1>2. ASSUME NEW u \in Users, NEW id \in PositionIds, Claim(u, id)
      PROVE  UNCHANGED CustodyOfGame!vars
  <2>1. <<u, id>> \in Slots
    BY DEF Slots
  <2>2. Deposited' = Deposited
    BY <1>2, <2>1 DEF Claim, CanSettle, Deposited, TypeOK, Position
  <2> QED BY <1>2, <2>2 DEF Claim, CustodyOfGame!vars
<1>3. ASSUME NEW u \in Users, NEW amount \in GiftAmounts, DonateXnt(u, amount)
      PROVE  UNCHANGED CustodyOfGame!vars
  BY <1>3 DEF DonateXnt, Deposited, CustodyOfGame!vars
<1>4. ASSUME NEW u \in Users, NEW amount \in GiftAmounts, DonateGame(u, amount)
      PROVE  CustodyOfGame!Next
  <2>1. amount \in Nat /\ game[u] \in Nat /\ stakingVault \in Nat
    BY ConfigAssumption DEF TypeOK
  <2>2. stakingVault' - stakingVault = amount /\ amount <= game[u]
    BY <1>4, <2>1 DEF DonateGame
  <2>3. game' = [game EXCEPT ![u] = @ - (stakingVault' - stakingVault)]
    BY <1>4, <2>2 DEF DonateGame
  <2>4. CustodyOfGame!Give(u)
    BY <1>4, <2>1, <2>2, <2>3 DEF DonateGame, Deposited, CustodyOfGame!Give
  <2> QED BY <2>4 DEF CustodyOfGame!Next
<1>5. ASSUME NEW t \in Times, Tick(t)
      PROVE  CustodyOfGame!Next
  <2>1. now' - now \in Nat
    BY <1>5, ConfigAssumption DEF Tick, TypeOK
  <2> QED BY <1>5, <2>1 DEF Tick, Deposited, CustodyOfGame!Wait, CustodyOfGame!Next
<1>6. UNCHANGED vars => UNCHANGED CustodyOfGame!vars
  BY DEF vars, Deposited, CustodyOfGame!vars
<1> QED BY <1>1, <1>2, <1>3, <1>4, <1>5, <1>6

\* The pool is a custodian: for every sequence of instructions and transfers,
\* principals go in by stake and come out by unstake, whole, to their owner and
\* not before the lock is over, and nothing else moves them.
THEOREM PoolIsCustodian == Spec => ImplementsCustody
<1>1. PoolInv /\ PoolInv' /\ [Next]_vars => [CustodyOfGame!Next]_(CustodyOfGame!vars)
  BY StakeIsPut, UnstakeIsTakeBack, OthersInCustody DEF Next
<1> QED BY <1>1, CustodyInit, PoolInvariant, PTL DEF Spec, ImplementsCustody, CustodyOfGame!Spec
-----------------------------------------------------------------------------
(***************************************************************************)
(* The audited pool.                                                       *)
(***************************************************************************)
\* The bookkeeper only watches: an audited step is a step of the pool.
LEMMA AuditIsPool ==
  /\ AuditInit => Init
  /\ [AuditNext]_auditVars => [Next]_vars
BY DEF AuditInit, AuditNext, auditVars, Next, AuditMine, AuditStake, AuditClaim, AuditUnstake,
       AuditDonateXnt
-----------------------------------------------------------------------------
(***************************************************************************)
(* The token supplies.                                                     *)
(***************************************************************************)
XntSupply == SumFunction(xnt) + treasury

\* No more XNT or GAME is about than u64 counts.
SupplyInv == XntSupply <= U64Max /\ GameSupply <= U64Max

\* What one changed wallet does to the sum of the wallets.
LEMMA WalletUpdate ==
  ASSUME NEW w \in [Users -> Nat], NEW u \in Users, NEW n \in Nat
  PROVE  /\ SumFunction(w) \in Nat
         /\ SumFunction([w EXCEPT ![u] = n]) = SumFunction(w) - w[u] + n
<1> DEFINE v == [w EXCEPT ![u] = n]
<1>1. v \in [Users -> Nat] /\ SameBut(w, v, u, Users) /\ v[u] = n
  BY DEF SameBut
<1> HIDE DEF v
<1>2. SumFunction(v) = SumFunction(w) - w[u] + v[u] /\ SumFunction(w) \in Nat
  BY <1>1, UsersAssumption, SumUpdate, SumNat
<1> QED BY <1>1, <1>2 DEF v

LEMMA SupplyInit == Init => SupplyInv
<1> SUFFICES ASSUME Init PROVE SupplyInv
  OBVIOUS
<1>1. xnt = InitXnt /\ treasury = 0 /\ game = InitGame
  BY DEF Init
<1>2. SumFunction(InitXnt) \in Nat /\ SumFunction(InitXnt) <= U64Max
  <2>1. InitXnt \in [Users -> Nat]
    BY HoldingsAssumption
  <2> QED BY <2>1, UsersAssumption, SumNat, HoldingsAssumption
<1>3. stakingVault = SumFunction([s \in Slots |-> InitialPositions[s].amount_staked])
  BY DEF Init, Amounts
<1>4. GameSupply <= U64Max
  BY <1>1, <1>3, HoldingsAssumption DEF GameSupply
<1> QED BY <1>1, <1>2, <1>4 DEF SupplyInv, XntSupply

LEMMA SupplyStep == PoolInv /\ SupplyInv /\ [Next]_vars => SupplyInv' /\ XntSupply' = XntSupply
<1> DEFINE XntKept == SupplyInv' /\ XntSupply' = XntSupply
<1> SUFFICES ASSUME PoolInv, SupplyInv, [Next]_vars PROVE XntKept
  OBVIOUS
<1>1. /\ xnt \in [Users -> Nat] /\ game \in [Users -> Nat]
      /\ treasury \in Nat /\ stakingVault \in Nat /\ TypeOK
  BY DEF PoolInv, TypeOK
<1>2. SumFunction(xnt) \in Nat /\ SumFunction(game) \in Nat
  BY <1>1, UsersAssumption, SumNat
<1>3. ASSUME NEW u \in Users, NEW n \in Nat, xnt' = [xnt EXCEPT ![u] = n]
      PROVE  SumFunction(xnt') = SumFunction(xnt) - xnt[u] + n
  BY <1>1, <1>3, WalletUpdate
<1>4. ASSUME NEW u \in Users, NEW n \in Nat, game' = [game EXCEPT ![u] = n]
      PROVE  SumFunction(game') = SumFunction(game) - game[u] + n
  BY <1>1, <1>4, WalletUpdate
<1>5. ASSUME NEW u \in Users, NEW deposit \in Deposits, NEW reward \in Rewards,
             MineWithRig(u, deposit, reward)
      PROVE  XntKept
  <2>1. deposit \in Nat /\ reward \in Nat /\ xnt[u] \in Nat /\ game[u] \in Nat
    BY <1>1, ConfigAssumption
  <2>2. xnt[u] - deposit \in Nat /\ game[u] + reward \in Nat
    BY <1>5, <2>1 DEF MineWithRig
  <2>3. SumFunction(xnt') = SumFunction(xnt) - xnt[u] + (xnt[u] - deposit)
    BY <1>3, <1>5, <2>2 DEF MineWithRig
  <2>4. SumFunction(game') = SumFunction(game) - game[u] + (game[u] + reward)
    BY <1>4, <1>5, <2>2 DEF MineWithRig
  <2>5. /\ treasury' = treasury + deposit /\ stakingVault' = stakingVault
        /\ SumFunction(game) + stakingVault + reward <= U64Max
    BY <1>5 DEF MineWithRig, GameSupply
  <2> QED BY <1>1, <1>2, <2>1, <2>3, <2>4, <2>5, ConstantFacts DEF SupplyInv, XntSupply, GameSupply
<1>6. ASSUME NEW u \in Users, NEW amount \in StakeAmounts, NEW lockDays \in LockChoices,
             NEW boostMult \in BoostMults, Stake(u, amount, lockDays, boostMult)
      PROVE  XntKept
  <2>1. amount \in Nat /\ game[u] \in Nat
    BY <1>1, ConstantFacts
  <2>2. game[u] - amount \in Nat
    BY <1>6, <2>1 DEF Stake
  <2>3. SumFunction(game') = SumFunction(game) - game[u] + (game[u] - amount)
    BY <1>4, <1>6, <2>2 DEF Stake
  <2>4. xnt' = xnt /\ treasury' = treasury /\ stakingVault' = stakingVault + amount
    BY <1>6 DEF Stake
  <2> QED BY <1>1, <1>2, <2>1, <2>3, <2>4, ConstantFacts DEF SupplyInv, XntSupply, GameSupply
<1>7. ASSUME NEW u \in Users, NEW id \in PositionIds, PayRewards(u, id), CanSettle(u, id)
      PROVE  XntSupply' = XntSupply
  <2> DEFINE p == Pending(<<u, id>>)
  <2>1. <<u, id>> \in Slots
    BY DEF Slots
  <2>2. p \in Nat /\ p <= treasury /\ xnt[u] \in Nat
    BY <1>1, <1>7, <2>1, PendingNat, ConstantFacts DEF CanSettle
  <2>3. xnt' = [xnt EXCEPT ![u] = xnt[u] + p] /\ treasury' = treasury - p
    BY <1>7 DEF PayRewards
  <2> HIDE DEF p
  <2>4. SumFunction(xnt') = SumFunction(xnt) - xnt[u] + (xnt[u] + p)
    <3>1. xnt[u] + p \in Nat
      BY <2>2
    <3> QED BY <1>3, <2>3, <3>1
  <2> QED BY <1>1, <1>2, <2>2, <2>3, <2>4 DEF XntSupply
<1>8. ASSUME NEW u \in Users, NEW id \in PositionIds, Claim(u, id)
      PROVE  XntKept
  BY <1>7, <1>8 DEF Claim, SupplyInv, GameSupply
<1>9. ASSUME NEW u \in Users, NEW id \in PositionIds, Unstake(u, id)
      PROVE  XntKept
  <2> DEFINE a == positions[<<u, id>>].amount_staked
  <2>1. a \in Nat /\ game[u] \in Nat
    BY <1>1 DEF TypeOK, Position, Slots
  <2>2. game' = [game EXCEPT ![u] = game[u] + a] /\ stakingVault' = stakingVault - a
    BY <1>9 DEF Unstake
  <2>3. XntSupply' = XntSupply
    BY <1>7, <1>9 DEF Unstake, CanUnstake
  <2> HIDE DEF a
  <2>4. SumFunction(game') = SumFunction(game) - game[u] + (game[u] + a)
    <3>1. game[u] + a \in Nat
      BY <2>1
    <3> QED BY <1>4, <2>2, <3>1
  <2>5. GameSupply' = GameSupply
    BY <1>1, <1>2, <2>1, <2>2, <2>4 DEF GameSupply
  <2> QED BY <2>3, <2>5 DEF SupplyInv
<1>10. ASSUME NEW u \in Users, NEW amount \in GiftAmounts, DonateXnt(u, amount)
      PROVE  XntKept
  <2>1. amount \in Nat /\ xnt[u] \in Nat
    BY <1>1, ConfigAssumption
  <2>2. xnt[u] - amount \in Nat
    BY <1>10, <2>1 DEF DonateXnt
  <2>3. SumFunction(xnt') = SumFunction(xnt) - xnt[u] + (xnt[u] - amount)
    BY <1>3, <1>10, <2>2 DEF DonateXnt
  <2>4. treasury' = treasury + amount /\ game' = game /\ stakingVault' = stakingVault
    BY <1>10 DEF DonateXnt
  <2> QED BY <1>1, <1>2, <2>1, <2>3, <2>4, ConstantFacts DEF SupplyInv, XntSupply, GameSupply
<1>11. ASSUME NEW u \in Users, NEW amount \in GiftAmounts, DonateGame(u, amount)
      PROVE  XntKept
  <2>1. amount \in Nat /\ game[u] \in Nat
    BY <1>1, ConfigAssumption
  <2>2. game[u] - amount \in Nat
    BY <1>11, <2>1 DEF DonateGame
  <2>3. SumFunction(game') = SumFunction(game) - game[u] + (game[u] - amount)
    BY <1>4, <1>11, <2>2 DEF DonateGame
  <2>4. treasury' = treasury /\ xnt' = xnt /\ stakingVault' = stakingVault + amount
    BY <1>11 DEF DonateGame
  <2> QED BY <1>1, <1>2, <2>1, <2>3, <2>4, ConstantFacts DEF SupplyInv, XntSupply, GameSupply
<1>12. ASSUME UNCHANGED <<xnt, game, treasury, stakingVault>>
      PROVE  XntKept
  BY <1>12 DEF SupplyInv, XntSupply, GameSupply
<1> QED BY <1>5, <1>6, <1>8, <1>9, <1>10, <1>11, <1>12 DEF Next, vars, Tick
-----------------------------------------------------------------------------
(***************************************************************************)
(* The books.  Weights times the accumulator are in units of 1/PRECISION   *)
(* of a token, so the invariant is stated multiplied by PRECISION.         *)
(***************************************************************************)
Total == stakingPool.total_effective_stake
Acc == stakingPool.acc_reward_per_share
Weight(s) == positions[s].effective_stake
Debt(s) == positions[s].reward_debt

HistoryTypes ==
  /\ received \in Nat /\ accrued \in Nat /\ paid \in Nat /\ opened \in Nat
  /\ since \in [Slots -> Nat] /\ earned \in [Slots -> Nat]

\* A debt never runs ahead of what its position has accumulated.
DebtsBehind == \A s \in Slots : PRECISION * Debt(s) <= Weight(s) * Acc

\* What was paid and what all weights have accumulated beyond their debts is
\* covered by what was credited, and one unit for every position opened.
BooksCovered ==
  PRECISION * paid + Acc * Total <= PRECISION * (accrued + opened + SumFunction(Debts))

\* The same for one position, from the time it was opened.
PositionCovered ==
  \A s \in Slots : positions[s].open =>
    Weight(s) * Acc < PRECISION * (Debt(s) - earned[s] + accrued - since[s] + 1)

BooksInv ==
  /\ HistoryTypes
  /\ TreasuryIsBalance
  /\ DebtsBehind
  /\ BooksCovered
  /\ PositionCovered

AuditInv == PoolInv /\ SupplyInv /\ BooksInv

\* The type of a position and of the accumulator, in short.
LEMMA StateFacts ==
  ASSUME PoolInv
  PROVE  /\ Acc \in Nat /\ Total \in Nat /\ treasury \in Nat
         /\ \A s \in Slots : Weight(s) \in Nat /\ Debt(s) \in Nat /\ Pending(s) \in Nat
         /\ Debts \in [Slots -> Nat] /\ Effectives \in [Slots -> Nat]
         /\ SumFunction(Debts) \in Nat /\ SumFunction(Effectives) \in Nat
         /\ Total = SumFunction(Effectives)
         /\ \A s \in Slots : Weight(s) <= Total
<1>1. TypeOK
  BY DEF PoolInv
<1>2. Acc \in Nat /\ Total \in Nat /\ treasury \in Nat
  BY <1>1, ConstantFacts DEF TypeOK, Acc, Total
<1>3. ASSUME NEW s \in Slots
      PROVE  Weight(s) \in Nat /\ Debt(s) \in Nat /\ Pending(s) \in Nat
  <2>1. positions[s] \in Position
    BY <1>1 DEF TypeOK
  <2>2. Pending(s) \in Nat
    BY <1>1, PendingNat, ConstantFacts
  <2> QED BY <2>1, <2>2 DEF Position, Weight, Debt
<1>4. Debts \in [Slots -> Nat] /\ Effectives \in [Slots -> Nat]
  BY <1>1 DEF TypeOK, Position, Debts, Effectives
<1>5. SumFunction(Debts) \in Nat /\ SumFunction(Effectives) \in Nat
  BY <1>4, SlotsFinite, SumNat
<1>6. Total = SumFunction(Effectives)
  BY DEF PoolInv, TotalIsSumOfEffective, Total
<1>7. ASSUME NEW s \in Slots PROVE Weight(s) <= Total
  <2>1. Effectives[s] <= SumFunction(Effectives)
    BY <1>4, SlotsFinite, SumMember
  <2> QED BY <1>6, <2>1 DEF Effectives, Weight
<1> QED BY <1>2, <1>3, <1>4, <1>5, <1>6, <1>7

\* Rounding down: the accumulated whole units, and less than one unit lost.
LEMMA AccumulatedFacts ==
  ASSUME NEW e \in Nat, NEW acc \in Nat
  PROVE  /\ Accumulated(e, acc) \in Nat
         /\ PRECISION * Accumulated(e, acc) <= e * acc
         /\ e * acc < PRECISION * (Accumulated(e, acc) + 1)
<1> DEFINE q == Accumulated(e, acc)
           x == e * acc
<1>1. x \in Nat /\ PRECISION \in Nat \ {0}
  BY ConstantFacts
<1>2. q = x \div PRECISION
  BY DEF Accumulated
<1> HIDE DEF x, q
<1>3. q \in Nat /\ q * PRECISION <= x /\ x < q * PRECISION + PRECISION
  BY <1>1, <1>2, DivFacts
<1>4. PRECISION * q = q * PRECISION /\ PRECISION * (q + 1) = q * PRECISION + PRECISION
  BY <1>1, <1>3
<1> QED BY <1>3, <1>4 DEF q, x

\* A distribution gives the weights together no more than was credited.
LEMMA DistributionFacts ==
  ASSUME PoolInv, NEW deposit \in Deposits
  PROVE  /\ Distribution(deposit) \in Nat /\ Credited(deposit) \in Nat
         /\ Total * Distribution(deposit) <= PRECISION * Credited(deposit)
<1> DEFINE t == ToStakers(deposit, StakingShareBps)
           d == Distribution(deposit)
<1>1. Total \in Nat
  BY StateFacts
<1>2. deposit \in Nat /\ d \in Nat
  BY ConfigAssumption, DistributionNat DEF PoolInv
<1>3. t \in Nat
  <2>1. deposit * StakingShareBps \in Nat
    BY <1>2, ConstantFacts
  <2> QED BY <2>1, ConstantFacts, DivFacts DEF ToStakers
<1>4. PRECISION \in Nat
  BY ConstantFacts
<1>5. CASE Total = 0
  <2>1. d = 0 /\ Credited(deposit) = 0
    BY <1>5 DEF Distribution, Credited, Total
  <2> QED BY <1>4, <1>5, <2>1
<1>6. CASE Total > 0
  <2>1. Credited(deposit) = t
    BY <1>6 DEF Credited, Total
  <2>2. d = IF t > 0 THEN PerShare(t, Total) ELSE 0
    BY <1>6 DEF Distribution, Total
  <2> HIDE DEF d, t
  <2>3. CASE t > 0
    <3> DEFINE x == t * PRECISION
    <3>1. x \in Nat /\ Total \in Nat \ {0}
      BY <1>1, <1>3, <1>4, <1>6
    <3>2. d = x \div Total
      BY <2>2, <2>3 DEF PerShare
    <3> HIDE DEF x
    <3>3. d * Total <= x
      BY <3>1, <3>2, DivFacts
    <3>4. d * Total = Total * d /\ x = PRECISION * t
      BY <1>1, <1>2, <1>3, <1>4 DEF x
    <3> QED BY <1>2, <1>3, <2>1, <3>3, <3>4 DEF d
  <2>4. CASE ~ (t > 0)
    <3>1. d = 0 /\ t = 0
      BY <1>3, <2>2, <2>4
    <3> QED BY <1>1, <1>4, <2>1, <3>1 DEF d
  <2> QED BY <2>3, <2>4
<1> QED BY <1>1, <1>5, <1>6

LEMMA BooksInit == AuditInit => BooksInv
<1> SUFFICES ASSUME AuditInit PROVE BooksInv
  OBVIOUS
<1>1. PoolInv
  BY AuditIsPool, PoolInit
<1>2. Acc = 0 /\ treasury = 0 /\ PRECISION \in Nat \ {0}
  BY ConstantFacts DEF AuditInit, Init, Acc
<1>3. \A s \in Slots : Weight(s) \in Nat /\ Debt(s) = 0
  <2>1. \A s \in Slots : Debt(s) = 0
    BY DEF AuditInit, Init, InitialPositions, NoPosition, Debt
  <2> QED BY <1>1, <2>1, StateFacts
<1>4. \A s \in Slots : Weight(s) * Acc = 0
  BY <1>2, <1>3
<1>5. SumFunction(Debts) \in Nat /\ Total \in Nat
  BY <1>1, StateFacts
<1>6. HistoryTypes /\ TreasuryIsBalance
  BY <1>2 DEF AuditInit, HistoryTypes, TreasuryIsBalance
<1>7. DebtsBehind
  BY <1>2, <1>3, <1>4 DEF DebtsBehind
<1>8. BooksCovered
  <2>1. paid = 0 /\ accrued = 0 /\ opened = 0
    BY DEF AuditInit
  <2>2. Acc * Total = 0 /\ PRECISION * SumFunction(Debts) \in Nat
    BY <1>2, <1>5
  <2>3. 0 + 0 + SumFunction(Debts) = SumFunction(Debts) /\ PRECISION * 0 = 0
    BY <1>2, <1>5
  <2> QED BY <2>1, <2>2, <2>3 DEF BooksCovered
<1>9. PositionCovered
  <2> SUFFICES ASSUME NEW s \in Slots
               PROVE  Weight(s) * Acc < PRECISION * (Debt(s) - earned[s] + accrued - since[s] + 1)
    BY DEF PositionCovered
  <2>1. earned[s] = 0 /\ since[s] = 0 /\ accrued = 0
    BY DEF AuditInit
  <2>2. Debt(s) - earned[s] + accrued - since[s] + 1 = 1
    BY <1>3, <2>1
  <2> QED BY <1>2, <1>4, <2>2
<1> QED BY <1>6, <1>7, <1>8, <1>9 DEF BooksInv

LEMMA MineArithmetic ==
  ASSUME NEW P \in Nat, NEW A \in Nat, NEW d \in Nat, NEW T \in Nat, NEW c \in Nat,
         T * d <= P * c, NEW W \in Nat, W <= T, NEW X \in Int
  PROVE  /\ W * A <= W * (A + d)
         /\ W * A < P * X => W * (A + d) < P * (X + c)
         /\ (A + d) * T <= A * T + P * c
<1>1. W * (A + d) = W * A + W * d /\ P * (X + c) = P * X + P * c
      /\ (A + d) * T = A * T + T * d
  OBVIOUS
<1>2. W * d <= T * d /\ 0 <= W * d
  OBVIOUS
<1>3. W * A \in Int /\ W * d \in Int /\ T * d \in Int /\ P * c \in Int /\ P * X \in Int /\ A * T \in Int
  OBVIOUS
<1> QED BY <1>1, <1>2, <1>3

LEMMA MineBooks ==
  ASSUME AuditInv, NEW u \in Users, NEW deposit \in Deposits, NEW reward \in Rewards,
         AuditMine(u, deposit, reward)
  PROVE  BooksInv'
<1> USE DEF AuditInv, BooksInv
<1> DEFINE d == Distribution(deposit)
           c == Credited(deposit)
<1>1. d \in Nat /\ c \in Nat /\ Total * d <= PRECISION * c /\ deposit \in Nat
  BY DistributionFacts, ConfigAssumption
<1>2. /\ Acc' = Acc + d /\ Total' = Total /\ UNCHANGED positions
      /\ treasury' = treasury + deposit /\ received' = received + deposit
      /\ accrued' = accrued + c /\ UNCHANGED <<paid, opened, since, earned>>
  BY DEF AuditMine, MineWithRig, Acc, Total, PoolInv, TypeOK
<1> HIDE DEF d, c
<1>3. \A s \in Slots : Weight(s)' = Weight(s) /\ Debt(s)' = Debt(s)
  BY <1>2 DEF Weight, Debt
<1>4. Debts' = Debts
  BY <1>2 DEF Debts
<1>5. /\ Acc \in Nat /\ Total \in Nat /\ treasury \in Nat /\ PRECISION \in Nat
      /\ SumFunction(Debts) \in Nat
      /\ \A s \in Slots : Weight(s) \in Nat /\ Debt(s) \in Nat /\ Weight(s) <= Total
  BY StateFacts, ConstantFacts
<1>6. HistoryTypes'
  BY <1>1, <1>2 DEF HistoryTypes
<1>7. TreasuryIsBalance'
  BY <1>1, <1>2, <1>5 DEF HistoryTypes, TreasuryIsBalance
<1>8. DebtsBehind'
  <2> SUFFICES ASSUME NEW s \in Slots PROVE PRECISION * Debt(s) <= Weight(s) * (Acc + d)
    BY <1>2, <1>3 DEF DebtsBehind
  <2>1. PRECISION * Debt(s) <= Weight(s) * Acc
    BY DEF DebtsBehind
  <2>2. Weight(s) * Acc <= Weight(s) * (Acc + d)
    BY <1>1, <1>5, MineArithmetic
  <2>3. Weight(s) * Acc \in Int /\ Weight(s) * (Acc + d) \in Int /\ PRECISION * Debt(s) \in Int
    BY <1>1, <1>5
  <2> QED BY <2>1, <2>2, <2>3
<1>9. BooksCovered'
  <2> DEFINE R == accrued + opened + SumFunction(Debts)
  <2>1. R \in Nat /\ accrued' + opened' + SumFunction(Debts') = R + c
    BY <1>1, <1>2, <1>4, <1>5 DEF HistoryTypes
  <2>2. PRECISION * paid + Acc * Total <= PRECISION * R
    BY DEF BooksCovered
  <2> HIDE DEF R
  <2>3. (Acc + d) * Total <= Acc * Total + PRECISION * c
    BY <1>1, <1>5, MineArithmetic
  <2>4. PRECISION * (R + c) = PRECISION * R + PRECISION * c
    BY <1>1, <1>5, <2>1
  <2>5. /\ PRECISION * paid \in Int /\ Acc * Total \in Int /\ (Acc + d) * Total \in Int
        /\ PRECISION * c \in Int /\ PRECISION * R \in Int
    BY <1>1, <1>5, <2>1 DEF HistoryTypes
  <2>6. PRECISION * paid + (Acc + d) * Total <= PRECISION * (R + c)
    BY <2>2, <2>3, <2>4, <2>5
  <2> QED BY <1>2, <2>1, <2>6 DEF BooksCovered
<1>10. PositionCovered'
  <2> SUFFICES ASSUME NEW s \in Slots, positions[s].open
               PROVE  Weight(s) * (Acc + d)
                        < PRECISION * (Debt(s) - earned[s] + (accrued + c) - since[s] + 1)
    BY <1>2, <1>3 DEF PositionCovered
  <2> DEFINE X == Debt(s) - earned[s] + accrued - since[s] + 1
  <2>1. X \in Int /\ Debt(s) - earned[s] + (accrued + c) - since[s] + 1 = X + c
    BY <1>1, <1>5 DEF HistoryTypes
  <2>2. Weight(s) * Acc < PRECISION * X
    BY DEF PositionCovered
  <2> HIDE DEF X
  <2>3. Weight(s) * (Acc + d) < PRECISION * (X + c)
    BY <1>1, <1>5, <2>1, <2>2, MineArithmetic
  <2> QED BY <2>1, <2>3
<1> QED BY <1>6, <1>7, <1>8, <1>9, <1>10

\* What a settlement pays never exceeds what the debt is raised by.
LEMMA SettleFacts ==
  ASSUME PoolInv, DebtsBehind, NEW s \in Slots
  PROVE  /\ SettledDebt(s) \in Nat /\ Pending(s) \in Nat
         /\ Debt(s) + Pending(s) <= SettledDebt(s)
         /\ PRECISION * SettledDebt(s) <= Weight(s) * Acc
         /\ Weight(s) * Acc < PRECISION * (SettledDebt(s) + 1)
<1> DEFINE D == SettledDebt(s)
<1>1. Weight(s) \in Nat /\ Debt(s) \in Nat /\ Pending(s) \in Nat /\ Acc \in Nat
  BY StateFacts
<1>2. D = Accumulated(Weight(s), Acc)
  BY DEF SettledDebt, Weight, Acc
<1> HIDE DEF D
<1>3. D \in Nat /\ PRECISION * D <= Weight(s) * Acc /\ Weight(s) * Acc < PRECISION * (D + 1)
  BY <1>1, <1>2, AccumulatedFacts
<1>4. Debt(s) <= D
  <2>1. PRECISION * Debt(s) <= Weight(s) * Acc
    BY DEF DebtsBehind
  <2>2. /\ PRECISION * Debt(s) \in Int /\ Weight(s) * Acc \in Int /\ PRECISION * (D + 1) \in Int
        /\ PRECISION \in Nat \ {0}
    BY <1>1, <1>3, ConstantFacts
  <2>3. PRECISION * Debt(s) < PRECISION * (D + 1)
    BY <1>3, <2>1, <2>2
  <2>4. Debt(s) < D + 1
    BY <1>1, <1>3, <2>2, <2>3
  <2> QED BY <1>1, <1>3, <2>4
<1>5. Pending(s) = MinOf(SatSub(D, Debt(s)), U64Max)
  BY <1>2 DEF Pending, PendingRewards, Weight, Debt, Acc
<1>6. Pending(s) <= D - Debt(s)
  BY <1>1, <1>3, <1>4, <1>5, ConstantFacts DEF MinOf, SatSub, MaxOf
<1> QED BY <1>1, <1>3, <1>6 DEF D

\* What rewriting one position does to the sum of the debts.
LEMMA DebtUpdate ==
  ASSUME PoolInv, PoolInv', NEW s \in Slots,
         \A t \in Slots \ {s} : positions'[t] = positions[t]
  PROVE  SumFunction(Debts') = SumFunction(Debts) - Debt(s) + Debt(s)'
<1>1. Debts \in [Slots -> Nat] /\ Debts' \in [Slots -> Nat]
  BY DEF PoolInv, TypeOK, Position, Debts
<1>2. SameBut(Debts, Debts', s, Slots) /\ Debts[s] = Debt(s) /\ Debts'[s] = Debt(s)'
  BY DEF SameBut, Debts, Debt
<1> QED BY <1>1, <1>2, SlotsFinite, SumUpdate

LEMMA ScaleUp ==
  ASSUME NEW P \in Nat, NEW X \in Int, NEW Y \in Int, X <= Y
  PROVE  P * X <= P * Y /\ P * X \in Int /\ P * Y \in Int
OBVIOUS

LEMMA CancelScale ==
  ASSUME NEW P \in Nat \ {0}, NEW x \in Int, NEW y \in Int, P * x <= P * y
  PROVE  x <= y
OBVIOUS

LEMMA StakeBooks ==
  ASSUME AuditInv, PoolInv', NEW u \in Users, NEW amount \in StakeAmounts,
         NEW lockDays \in LockChoices, NEW boostMult \in BoostMults,
         AuditStake(u, amount, lockDays, boostMult)
  PROVE  BooksInv'
<1> USE DEF AuditInv, BooksInv
<1>0. PICK k \in PositionIds : NextSlot(u) = <<u, k>>
  BY WidthAssumption DEF PoolInv, TypeOK, NextSlot, PositionIds, MaxOf
<1> DEFINE s == <<u, k>>
           e == CalculateEffective(amount, LockMultiplier[lockDays], boostMult)
<1>1. s \in Slots
  BY DEF Slots
<1>d. PICK D : D = Accumulated(e, Acc)
  OBVIOUS
<1>2. /\ ~ positions[s].open
      /\ positions'[s].effective_stake = e /\ positions'[s].reward_debt = D
      /\ \A t \in Slots \ {s} : positions'[t] = positions[t]
      /\ stakingPool'.acc_reward_per_share = stakingPool.acc_reward_per_share
      /\ treasury' = treasury
  BY <1>0, <1>1, <1>d DEF AuditStake, Stake, PoolInv, TypeOK, Acc
<1>3. /\ opened' = opened + 1 /\ since' = [since EXCEPT ![s] = accrued]
      /\ earned' = [earned EXCEPT ![s] = 0] /\ UNCHANGED <<received, accrued, paid>>
  BY <1>0 DEF AuditStake
<1>4. /\ Acc' = Acc /\ Weight(s)' = e /\ Debt(s)' = D
      /\ \A t \in Slots \ {s} : Weight(t)' = Weight(t) /\ Debt(t)' = Debt(t)
                                /\ positions'[t].open = positions[t].open
  BY <1>2 DEF Acc, Weight, Debt
<1>5. Debt(s) = 0 /\ Weight(s) = 0
  <2>1. positions[s] = NoPosition
    BY <1>1, <1>2 DEF PoolInv, TypeOK
  <2> QED BY <2>1 DEF NoPosition, Debt, Weight
<1>6. e \in Nat
  <2>1. Weight(s)' \in Nat
    BY <1>1 DEF PoolInv, TypeOK, Position, Weight
  <2> QED BY <1>4, <2>1
<1>7. /\ Acc \in Nat /\ Total \in Nat /\ treasury \in Nat /\ PRECISION \in Nat \ {0}
      /\ SumFunction(Debts) \in Nat
      /\ \A t \in Slots : Weight(t) \in Nat /\ Debt(t) \in Nat
  BY StateFacts, ConstantFacts
<1> HIDE DEF e
<1>8. D \in Nat /\ PRECISION * D <= e * Acc /\ e * Acc < PRECISION * (D + 1)
  BY <1>6, <1>7, <1>d, AccumulatedFacts
<1> HIDE DEF s
<1>9. Total' = Total + e
  <2>1. SameBut(positions, positions', s, Slots)
    BY <1>2 DEF SameBut
  <2>2. positions \in [Slots -> Position] /\ positions' \in [Slots -> Position]
    BY DEF PoolInv, TypeOK
  <2>3. /\ SumFunction(EffectivesOf(positions)) \in Nat
        /\ SumFunction(EffectivesOf(positions')) = SumFunction(EffectivesOf(positions))
             - positions[s].effective_stake + positions'[s].effective_stake
    BY <1>1, <2>1, <2>2, SlotUpdate
  <2>4. Total = SumFunction(Effectives) /\ Total' = SumFunction(Effectives')
    BY DEF PoolInv, TotalIsSumOfEffective, Total
  <2> QED BY <1>2, <1>5, <1>6, <2>3, <2>4, AmountsAndEffectives DEF Weight
<1>10. HistoryTypes'
  <2>1. HistoryTypes
    OBVIOUS
  <2>2. since' \in [Slots -> Nat]
    BY <1>3, <2>1 DEF HistoryTypes
  <2>3. earned' \in [Slots -> Nat]
    BY <1>3, <2>1 DEF HistoryTypes
  <2>4. received' \in Nat /\ accrued' \in Nat /\ paid' \in Nat /\ opened' \in Nat
    BY <1>3, <2>1 DEF HistoryTypes
  <2> QED BY <2>2, <2>3, <2>4 DEF HistoryTypes
<1>11. TreasuryIsBalance'
  BY <1>2, <1>3 DEF TreasuryIsBalance
<1>12. DebtsBehind'
  BY <1>4, <1>8 DEF DebtsBehind
<1>13. BooksCovered'
  <2> DEFINE R == accrued + opened + SumFunction(Debts)
  <2>1. SumFunction(Debts') = SumFunction(Debts) + D
    BY <1>1, <1>2, <1>4, <1>5, <1>7, <1>8, DebtUpdate
  <2>2. R \in Nat /\ accrued' + opened' + SumFunction(Debts') = R + (D + 1)
    BY <1>3, <1>7, <1>8, <2>1 DEF HistoryTypes
  <2>3. PRECISION * paid + Acc * Total <= PRECISION * R
    BY DEF BooksCovered
  <2> HIDE DEF R
  <2>4. /\ PRECISION * (R + (D + 1)) = PRECISION * R + PRECISION * (D + 1)
        /\ Acc * (Total + e) = Acc * Total + e * Acc
    BY <1>6, <1>7, <1>8, <2>2
  <2>5. /\ PRECISION * paid \in Int /\ Acc * Total \in Int /\ e * Acc \in Int
        /\ PRECISION * R \in Int /\ PRECISION * (D + 1) \in Int
    BY <1>6, <1>7, <1>8, <2>2 DEF HistoryTypes
  <2>6. PRECISION * paid + Acc * (Total + e) <= PRECISION * (R + (D + 1))
    BY <1>8, <2>3, <2>4, <2>5
  <2> QED BY <1>3, <1>4, <1>9, <2>2, <2>6 DEF BooksCovered
<1>14. PositionCovered'
  <2> SUFFICES ASSUME NEW t \in Slots, positions'[t].open
               PROVE  Weight(t)' * Acc'
                        < PRECISION * (Debt(t)' - earned'[t] + accrued' - since'[t] + 1)
    BY DEF PositionCovered
  <2>1. CASE t = s
    <3>1. earned'[t] = 0 /\ since'[t] = accrued /\ accrued' = accrued /\ accrued \in Nat
      BY <1>1, <1>3, <2>1 DEF HistoryTypes
    <3>2. D - 0 + accrued - accrued + 1 = D + 1
      BY <1>8, <3>1
    <3> QED BY <1>4, <1>8, <2>1, <3>1, <3>2
  <2>2. CASE t # s
    <3>1. earned'[t] = earned[t] /\ since'[t] = since[t] /\ accrued' = accrued
      BY <1>3, <2>2 DEF HistoryTypes
    <3>2. Weight(t) * Acc < PRECISION * (Debt(t) - earned[t] + accrued - since[t] + 1)
      BY <1>4, <2>2 DEF PositionCovered
    <3> QED BY <1>4, <2>2, <3>1, <3>2
  <2> QED BY <2>1, <2>2
<1> QED BY <1>10, <1>11, <1>12, <1>13, <1>14

\* What a settlement does to the books: what is paid is not more than what the
\* debt grows by.
LEMMA ClaimArithmetic ==
  ASSUME NEW P \in Nat, NEW paid0 \in Nat, NEW A \in Nat, NEW T \in Nat, NEW R \in Int,
         NEW p \in Nat, NEW R1 \in Int, R + p <= R1,
         P * paid0 + A * T <= P * R
  PROVE  P * (paid0 + p) + A * T <= P * R1
<1>1. P * (paid0 + p) = P * paid0 + P * p /\ P * (R + p) = P * R + P * p
  OBVIOUS
<1>2. P * (R + p) <= P * R1
  OBVIOUS
<1>3. /\ P * paid0 \in Int /\ P * p \in Int /\ P * R \in Int /\ A * T \in Int
      /\ P * (R + p) \in Int /\ P * R1 \in Int
  OBVIOUS
<1> QED BY <1>1, <1>2, <1>3

LEMMA ClaimBooks ==
  ASSUME AuditInv, PoolInv', NEW u \in Users, NEW id \in PositionIds, AuditClaim(u, id)
  PROVE  BooksInv'
<1> USE DEF AuditInv, BooksInv
<1> DEFINE s == <<u, id>>
<1>1. s \in Slots
  BY DEF Slots
<1>2. PICK D, p : D = SettledDebt(s) /\ p = Pending(s)
  OBVIOUS
<1>3. /\ positions'[s].effective_stake = positions[s].effective_stake
      /\ positions'[s].open = positions[s].open /\ positions'[s].reward_debt = D
      /\ \A t \in Slots \ {s} : positions'[t] = positions[t]
      /\ stakingPool' = stakingPool
      /\ treasury' = treasury - p /\ p <= treasury
  BY <1>1, <1>2 DEF AuditClaim, Claim, PayRewards, CanSettle, PoolInv, TypeOK, Position
<1>4. /\ paid' = paid + p /\ earned' = [earned EXCEPT ![s] = @ + p]
      /\ UNCHANGED <<received, accrued, opened, since>>
  BY <1>2 DEF AuditClaim
<1>5. /\ Acc' = Acc /\ Total' = Total /\ Weight(s)' = Weight(s) /\ Debt(s)' = D
      /\ \A t \in Slots \ {s} : Weight(t)' = Weight(t) /\ Debt(t)' = Debt(t)
                                /\ positions'[t].open = positions[t].open
  BY <1>3 DEF Acc, Total, Weight, Debt
<1>6. /\ Acc \in Nat /\ Total \in Nat /\ treasury \in Nat /\ PRECISION \in Nat
      /\ SumFunction(Debts) \in Nat
      /\ \A t \in Slots : Weight(t) \in Nat /\ Debt(t) \in Nat
  BY StateFacts, ConstantFacts
<1>7. /\ D \in Nat /\ p \in Nat /\ Debt(s) + p <= D /\ PRECISION * D <= Weight(s) * Acc
  BY <1>1, <1>2, SettleFacts
<1> HIDE DEF s
<1>8. HistoryTypes'
  <2>1. HistoryTypes
    OBVIOUS
  <2>2. earned' \in [Slots -> Nat]
    BY <1>1, <1>4, <1>7, <2>1 DEF HistoryTypes
  <2>3. /\ received' \in Nat /\ accrued' \in Nat /\ paid' \in Nat /\ opened' \in Nat
        /\ since' \in [Slots -> Nat]
    BY <1>4, <1>7, <2>1 DEF HistoryTypes
  <2> QED BY <2>2, <2>3 DEF HistoryTypes
<1>9. TreasuryIsBalance'
  BY <1>3, <1>4, <1>6, <1>7 DEF TreasuryIsBalance, HistoryTypes
<1>10. DebtsBehind'
  BY <1>5, <1>7 DEF DebtsBehind
<1>11. BooksCovered'
  <2> DEFINE R == accrued + opened + SumFunction(Debts)
  <2>1. SumFunction(Debts') = SumFunction(Debts) - Debt(s) + D
    BY <1>1, <1>3, <1>5, DebtUpdate
  <2>2. PICK R1 : R1 = accrued' + opened' + SumFunction(Debts')
    OBVIOUS
  <2>3. R \in Nat /\ R1 \in Int /\ R + p <= R1
    BY <1>1, <1>4, <1>6, <1>7, <2>1, <2>2 DEF HistoryTypes
  <2>4. PRECISION * paid + Acc * Total <= PRECISION * R /\ paid \in Nat
    BY DEF BooksCovered, HistoryTypes
  <2> HIDE DEF R
  <2>5. PRECISION * (paid + p) + Acc * Total <= PRECISION * R1
    BY <1>6, <1>7, <2>3, <2>4, ClaimArithmetic
  <2> QED BY <1>4, <1>5, <2>2, <2>5 DEF BooksCovered
<1>12. PositionCovered'
  <2> SUFFICES ASSUME NEW t \in Slots, positions'[t].open
               PROVE  Weight(t)' * Acc'
                        < PRECISION * (Debt(t)' - earned'[t] + accrued' - since'[t] + 1)
    BY DEF PositionCovered
  <2>1. Weight(t) * Acc < PRECISION * (Debt(t) - earned[t] + accrued - since[t] + 1)
    BY <1>3, <1>5 DEF PositionCovered
  <2>2. CASE t = s
    <3> DEFINE X == Debt(s) - earned[s] + accrued - since[s] + 1
               Y == D - (earned[s] + p) + accrued - since[s] + 1
    <3>1. X \in Int /\ Y \in Int /\ X <= Y
      BY <1>1, <1>6, <1>7 DEF HistoryTypes
    <3>2. Weight(s) * Acc < PRECISION * X /\ Weight(s) * Acc \in Int
      BY <1>1, <1>6, <2>1, <2>2
    <3>3. Debt(t)' - earned'[t] + accrued' - since'[t] + 1 = Y
      BY <1>1, <1>4, <1>5, <2>2 DEF HistoryTypes
    <3> HIDE DEF X, Y
    <3>4. Weight(s) * Acc < PRECISION * Y
      BY <1>6, <3>1, <3>2, ScaleUp
    <3> QED BY <1>5, <2>2, <3>3, <3>4
  <2>3. CASE t # s
    <3>1. earned'[t] = earned[t] /\ since'[t] = since[t] /\ accrued' = accrued
      BY <1>4, <2>3 DEF HistoryTypes
    <3> QED BY <1>5, <2>1, <2>3, <3>1
  <2> QED BY <2>2, <2>3
<1> QED BY <1>8, <1>9, <1>10, <1>11, <1>12

\* Closing a position takes its weight off the total and its debt off the sum.
LEMMA UnstakeArithmetic ==
  ASSUME NEW P \in Nat, NEW paid0 \in Nat, NEW A \in Nat, NEW T \in Nat, NEW W \in Nat,
         NEW R \in Int, NEW p \in Nat, NEW d \in Nat, NEW D \in Nat,
         d + p <= D, P * D <= W * A, P * paid0 + A * T <= P * R
  PROVE  P * (paid0 + p) + A * (T - W) <= P * (R - d)
<1>1. /\ P * (paid0 + p) = P * paid0 + P * p /\ P * (R - d) = P * R - P * d
      /\ A * (T - W) = A * T - W * A /\ P * (d + p) = P * d + P * p
  OBVIOUS
<1>2. P * (d + p) <= P * D
  OBVIOUS
<1>3. /\ P * paid0 \in Int /\ P * p \in Int /\ P * R \in Int /\ A * T \in Int
      /\ P * d \in Int /\ P * D \in Int /\ W * A \in Int /\ P * (d + p) \in Int
  OBVIOUS
<1> QED BY <1>1, <1>2, <1>3

LEMMA UnstakeBooks ==
  ASSUME AuditInv, PoolInv', NEW u \in Users, NEW id \in PositionIds, AuditUnstake(u, id)
  PROVE  BooksInv'
<1> USE DEF AuditInv, BooksInv
<1> DEFINE s == <<u, id>>
<1>1. s \in Slots
  BY DEF Slots
<1>2. PICK D, p : D = SettledDebt(s) /\ p = Pending(s)
  OBVIOUS
<1>3. /\ positions'[s] = NoPosition
      /\ \A t \in Slots \ {s} : positions'[t] = positions[t]
      /\ stakingPool'.acc_reward_per_share = stakingPool.acc_reward_per_share
      /\ treasury' = treasury - p /\ p <= treasury
  BY <1>1, <1>2 DEF AuditUnstake, Unstake, PayRewards, CanUnstake, CanSettle, PoolInv, TypeOK
<1>4. /\ paid' = paid + p /\ earned' = [earned EXCEPT ![s] = 0]
      /\ since' = [since EXCEPT ![s] = 0]
      /\ UNCHANGED <<received, accrued, opened>>
  BY <1>2 DEF AuditUnstake
<1>5. /\ Acc' = Acc /\ Weight(s)' = 0 /\ Debt(s)' = 0 /\ ~ positions'[s].open
      /\ \A t \in Slots \ {s} : Weight(t)' = Weight(t) /\ Debt(t)' = Debt(t)
                                /\ positions'[t].open = positions[t].open
  BY <1>3 DEF Acc, Weight, Debt, NoPosition
<1>6. /\ Acc \in Nat /\ Total \in Nat /\ treasury \in Nat /\ PRECISION \in Nat
      /\ SumFunction(Debts) \in Nat
      /\ \A t \in Slots : Weight(t) \in Nat /\ Debt(t) \in Nat
  BY StateFacts, ConstantFacts
<1>7. /\ D \in Nat /\ p \in Nat /\ Debt(s) + p <= D /\ PRECISION * D <= Weight(s) * Acc
  BY <1>1, <1>2, SettleFacts
<1> HIDE DEF s
<1>8. Total' = Total - Weight(s)
  <2>1. SameBut(positions, positions', s, Slots)
    BY <1>3 DEF SameBut
  <2>2. positions \in [Slots -> Position] /\ positions' \in [Slots -> Position]
    BY DEF PoolInv, TypeOK
  <2>3. /\ SumFunction(EffectivesOf(positions)) \in Nat
        /\ SumFunction(EffectivesOf(positions')) = SumFunction(EffectivesOf(positions))
             - positions[s].effective_stake + positions'[s].effective_stake
    BY <1>1, <2>1, <2>2, SlotUpdate
  <2>4. Total = SumFunction(Effectives) /\ Total' = SumFunction(Effectives')
    BY DEF PoolInv, TotalIsSumOfEffective, Total
  <2> QED BY <1>1, <1>5, <1>6, <2>3, <2>4, AmountsAndEffectives DEF Weight
<1>9. HistoryTypes'
  <2>1. HistoryTypes
    OBVIOUS
  <2>2. earned' \in [Slots -> Nat]
    BY <1>4, <2>1 DEF HistoryTypes
  <2>3. since' \in [Slots -> Nat]
    BY <1>4, <2>1 DEF HistoryTypes
  <2>4. received' \in Nat /\ accrued' \in Nat /\ paid' \in Nat /\ opened' \in Nat
    BY <1>4, <1>7, <2>1 DEF HistoryTypes
  <2> QED BY <2>2, <2>3, <2>4 DEF HistoryTypes
<1>10. TreasuryIsBalance'
  BY <1>3, <1>4, <1>6, <1>7 DEF TreasuryIsBalance, HistoryTypes
<1>11. DebtsBehind'
  <2> SUFFICES ASSUME NEW t \in Slots PROVE PRECISION * Debt(t)' <= Weight(t)' * Acc'
    BY DEF DebtsBehind
  <2>1. CASE t = s
    <3>1. PRECISION * 0 = 0 /\ 0 * Acc = 0
      BY <1>6
    <3> QED BY <1>5, <2>1, <3>1
  <2>2. CASE t # s
    BY <1>5, <2>2 DEF DebtsBehind
  <2> QED BY <2>1, <2>2
<1>12. BooksCovered'
  <2> DEFINE R == accrued + opened + SumFunction(Debts)
  <2>1. SumFunction(Debts') = SumFunction(Debts) - Debt(s) + 0
    BY <1>1, <1>3, <1>5, DebtUpdate
  <2>2. PICK R1 : R1 = accrued' + opened' + SumFunction(Debts')
    OBVIOUS
  <2>3. R \in Nat /\ R1 = R - Debt(s)
    BY <1>1, <1>4, <1>6, <2>1, <2>2 DEF HistoryTypes
  <2>4. PRECISION * paid + Acc * Total <= PRECISION * R /\ paid \in Nat
    BY DEF BooksCovered, HistoryTypes
  <2> HIDE DEF R
  <2>5. PRECISION * (paid + p) + Acc * (Total - Weight(s)) <= PRECISION * (R - Debt(s))
    BY <1>1, <1>6, <1>7, <2>3, <2>4, UnstakeArithmetic
  <2> QED BY <1>4, <1>5, <1>8, <2>2, <2>3, <2>5 DEF BooksCovered
<1>13. PositionCovered'
  <2> SUFFICES ASSUME NEW t \in Slots, positions'[t].open
               PROVE  Weight(t)' * Acc'
                        < PRECISION * (Debt(t)' - earned'[t] + accrued' - since'[t] + 1)
    BY DEF PositionCovered
  <2>1. t # s
    BY <1>5
  <2>2. Weight(t) * Acc < PRECISION * (Debt(t) - earned[t] + accrued - since[t] + 1)
    BY <1>5, <2>1 DEF PositionCovered
  <2>3. earned'[t] = earned[t] /\ since'[t] = since[t] /\ accrued' = accrued
    BY <1>4, <2>1 DEF HistoryTypes
  <2> QED BY <1>5, <2>1, <2>2, <2>3
<1> QED BY <1>9, <1>10, <1>11, <1>12, <1>13

\* Gifts and time do not change what anyone is owed.
LEMMA TransferBooks ==
  ASSUME AuditInv, NEW n \in Nat, treasury' = treasury + n, received' = received + n,
         UNCHANGED <<positions, stakingPool, accrued, paid, opened, since, earned>>
  PROVE  BooksInv'
<1> USE DEF AuditInv, BooksInv
<1>1. Debts' = Debts
  BY DEF Debts
<1>2. HistoryTypes'
  BY DEF HistoryTypes
<1>3. TreasuryIsBalance'
  BY StateFacts DEF TreasuryIsBalance, HistoryTypes
<1>4. DebtsBehind' /\ PositionCovered'
  BY DEF DebtsBehind, PositionCovered, Debt, Weight, Acc
<1>5. BooksCovered'
  BY <1>1 DEF BooksCovered, Acc, Total
<1> QED BY <1>2, <1>3, <1>4, <1>5

LEMMA AuditStep == AuditInv /\ [AuditNext]_auditVars => AuditInv'
<1> SUFFICES ASSUME AuditInv, [AuditNext]_auditVars PROVE AuditInv'
  OBVIOUS
<1>1. PoolInv' /\ SupplyInv'
  BY AuditIsPool, NextKeepsInv, SupplyStep DEF AuditInv
<1>2. treasury \in Nat /\ received \in Nat /\ treasury + 0 = treasury /\ received + 0 = received
  BY StateFacts DEF AuditInv, BooksInv, HistoryTypes
<1>3. ASSUME NEW u \in Users, NEW amount \in GiftAmounts, AuditDonateXnt(u, amount)
      PROVE  BooksInv'
  BY <1>3, TransferBooks, ConfigAssumption DEF AuditDonateXnt, DonateXnt
<1>4. ASSUME NEW u \in Users, NEW amount \in GiftAmounts, DonateGame(u, amount), UNCHANGED history
      PROVE  BooksInv'
  BY <1>2, <1>4, TransferBooks DEF DonateGame, history
<1>5. ASSUME NEW t \in Times, Tick(t), UNCHANGED history
      PROVE  BooksInv'
  BY <1>2, <1>5, TransferBooks DEF Tick, history
<1>6. ASSUME UNCHANGED auditVars
      PROVE  BooksInv'
  BY <1>2, <1>6, TransferBooks DEF auditVars, vars, history
<1>7. BooksInv'
  BY <1>1, <1>3, <1>4, <1>5, <1>6, MineBooks, StakeBooks, ClaimBooks, UnstakeBooks DEF AuditNext
<1> QED BY <1>1, <1>7 DEF AuditInv

LEMMA AuditInvariant == AuditSpec => []AuditInv
<1>1. AuditInit => AuditInv
  BY AuditIsPool, PoolInit, SupplyInit, BooksInit DEF AuditInv
<1> QED BY <1>1, AuditStep, PTL DEF AuditSpec
-----------------------------------------------------------------------------
(***************************************************************************)
(* The theorems.                                                           *)
(***************************************************************************)

\* The books balance, for every pool: what the treasury holds is what came in
\* less what settle_rewards paid.
THEOREM Balanced == AuditSpec => []TreasuryIsBalance
<1>1. AuditInv => TreasuryIsBalance
  BY DEF AuditInv, BooksInv
<1> QED BY <1>1, AuditInvariant, PTL

LEMMA BooksImplyDust == AuditInv => OwedWithinDust
<1> SUFFICES ASSUME AuditInv PROVE OwedWithinDust
  OBVIOUS
<1> USE DEF AuditInv, BooksInv
<1> DEFINE owed == [s \in Slots |-> Acc * Effectives[s] - PRECISION * Debts[s]]
           slack == [s \in Slots |-> 1 * owed[s] - PRECISION * Pendings[s]]
<1>1. /\ Acc \in Nat /\ Total \in Nat /\ PRECISION \in Nat \ {0}
      /\ Debts \in [Slots -> Nat] /\ Effectives \in [Slots -> Nat]
      /\ SumFunction(Debts) \in Nat /\ SumFunction(Effectives) = Total
  BY StateFacts, ConstantFacts
<1>2. Pendings \in [Slots -> Nat]
  BY StateFacts DEF Pendings
<1>3. ASSUME NEW s \in Slots
      PROVE  /\ Acc * Effectives[s] - PRECISION * Debts[s] \in Nat
             /\ Acc * Effectives[s] - PRECISION * Debts[s] - PRECISION * Pendings[s] \in Nat
  <2> DEFINE w == Effectives[s]
             b == Debts[s]
             p == Pendings[s]
  <2>1. w \in Nat /\ b \in Nat /\ p \in Nat
    BY <1>1, <1>2
  <2>2. w = Weight(s) /\ b = Debt(s) /\ p = Pending(s)
    BY DEF Effectives, Debts, Pendings, Weight, Debt
  <2>3. PICK D \in Nat : b + p <= D /\ PRECISION * D <= w * Acc
    BY <2>2, SettleFacts
  <2> HIDE DEF w, b, p
  <2>4. PRECISION * (b + p) <= PRECISION * D
    BY <1>1, <2>1, <2>3, ScaleUp
  <2>5. PRECISION * (b + p) = PRECISION * b + PRECISION * p /\ w * Acc = Acc * w
    BY <1>1, <2>1
  <2>6. /\ PRECISION * b \in Nat /\ PRECISION * p \in Nat /\ Acc * w \in Nat
        /\ PRECISION * D \in Nat
    BY <1>1, <2>1, <2>3
  <2>7. Acc * w - PRECISION * b \in Nat /\ Acc * w - PRECISION * b - PRECISION * p \in Nat
    BY <2>3, <2>4, <2>5, <2>6
  <2> QED BY <2>7 DEF w, b, p
<1>4. owed \in [Slots -> Nat]
  BY <1>3
<1>5. Combines(owed, Acc, Effectives, PRECISION, Debts, Slots)
  BY DEF Combines
<1>6. \A s \in Slots : 1 * owed[s] - PRECISION * Pendings[s] \in Nat
  BY <1>1, <1>2, <1>3
<1>7. Combines(slack, 1, owed, PRECISION, Pendings, Slots)
  BY DEF Combines
<1> HIDE DEF owed
<1>8. slack \in [Slots -> Nat]
  BY <1>6
<1> HIDE DEF slack
<1>9. SumFunction(owed) = Acc * Total - PRECISION * SumFunction(Debts)
  BY <1>1, <1>4, <1>5, SlotsFinite, SumLinear
<1>10. SumFunction(slack) = 1 * SumFunction(owed) - PRECISION * SumFunction(Pendings)
  BY <1>1, <1>2, <1>4, <1>7, <1>8, SlotsFinite, SumLinear
<1>11. SumFunction(slack) \in Nat /\ SumFunction(owed) \in Nat /\ SumFunction(Pendings) \in Nat
  BY <1>2, <1>4, <1>8, SlotsFinite, SumNat
<1> DEFINE q == SumFunction(Pendings)
           b == SumFunction(Debts)
           r == accrued + opened
<1>12. /\ q \in Nat /\ b \in Nat /\ r \in Nat /\ paid \in Nat
       /\ accrued + opened + SumFunction(Debts) = r + b
  BY <1>1, <1>11 DEF HistoryTypes
<1>13. PRECISION * q + PRECISION * b <= Acc * Total
  <2>1. PRECISION * q \in Int /\ PRECISION * b \in Int /\ Acc * Total \in Int
    BY <1>1, <1>12
  <2> HIDE DEF r
  <2> QED BY <1>9, <1>10, <1>11, <2>1
<1>14. PRECISION * paid + Acc * Total <= PRECISION * (r + b)
  BY <1>12 DEF BooksCovered
<1> HIDE DEF q, b, r
<1>15. PRECISION * (paid + q) <= PRECISION * r
  <2>1. /\ PRECISION * (paid + q) = PRECISION * paid + PRECISION * q
        /\ PRECISION * (r + b) = PRECISION * r + PRECISION * b
    BY <1>1, <1>12
  <2>2. /\ PRECISION * paid \in Int /\ PRECISION * q \in Int /\ PRECISION * r \in Int
        /\ PRECISION * b \in Int /\ Acc * Total \in Int
    BY <1>1, <1>12
  <2> QED BY <1>13, <1>14, <2>1, <2>2
<1>16. paid + q <= r
  BY <1>1, <1>12, <1>15, CancelScale
<1> QED BY <1>16 DEF OwedWithinDust, q, r

\* Stakers never have a claim beyond what mine_with_rig credited to them and
\* one base unit for each position opened.
THEOREM DustBound == AuditSpec => []OwedWithinDust
BY AuditInvariant, BooksImplyDust, PTL

\* No position earns from mining before it was opened, or more than everything
\* mining has credited since, however often claim is called.
THEOREM OnlyWhileStaked == AuditSpec => []EarnsOnlyWhileStaked
<1>1. AuditInv => EarnsOnlyWhileStaked
  <2> SUFFICES ASSUME AuditInv, NEW s \in Slots, positions[s].open
               PROVE  earned[s] + Pending(s) <= accrued - since[s]
    BY DEF EarnsOnlyWhileStaked
  <2> DEFINE X == Debt(s) - earned[s] + accrued - since[s] + 1
  <2>1. PoolInv /\ DebtsBehind /\ HistoryTypes /\ Weight(s) * Acc < PRECISION * X
    BY DEF AuditInv, BooksInv, PositionCovered
  <2>2. /\ Weight(s) \in Nat /\ Debt(s) \in Nat /\ Pending(s) \in Nat /\ Acc \in Nat
        /\ PRECISION \in Nat \ {0}
    BY <2>1, StateFacts, ConstantFacts
  <2>3. PICK D \in Nat : Debt(s) + Pending(s) <= D /\ PRECISION * D <= Weight(s) * Acc
    BY <2>1, SettleFacts
  <2>4. X \in Int /\ accrued \in Nat /\ earned[s] \in Nat /\ since[s] \in Nat
    BY <2>1, <2>2 DEF HistoryTypes
  <2>5. X <= D => FALSE
    <3> HIDE DEF X
    <3> SUFFICES ASSUME X <= D PROVE FALSE
      OBVIOUS
    <3>1. PRECISION * X <= PRECISION * D /\ PRECISION * X \in Int /\ PRECISION * D \in Int
      BY <2>2, <2>3, <2>4, ScaleUp
    <3>2. Weight(s) * Acc \in Int
      BY <2>2
    <3> QED BY <2>1, <2>3, <3>1, <3>2
  <2> QED BY <2>2, <2>3, <2>4, <2>5
<1> QED BY <1>1, AuditInvariant, PTL

LEMMA BooksImplySolvent == AuditInv => SolventWithReserve
<1> SUFFICES ASSUME AuditInv, opened <= Reserve PROVE SumFunction(Pendings) <= treasury
  BY DEF SolventWithReserve
<1>1. OwedWithinDust
  BY BooksImplyDust
<1>2. SumFunction(Pendings) \in Nat
  <2>1. Pendings \in [Slots -> Nat]
    BY StateFacts DEF Pendings, AuditInv
  <2> QED BY <2>1, SlotsFinite, SumNat
<1> QED BY <1>1, <1>2 DEF OwedWithinDust, Reserve, AuditInv, BooksInv, HistoryTypes, TreasuryIsBalance

\* The treasury can pay everybody at once while the reserve has a unit for
\* each position that was opened.
THEOREM Solvent == AuditSpec => []SolventWithReserve
BY AuditInvariant, BooksImplySolvent, PTL

\* Under the same reserve, and while no product overflows, unstake gives every
\* principal back as soon as its lock is over.
THEOREM CanLeave == AuditSpec => []ReserveMeansLeave
<1>1. AuditInv => ReserveMeansLeave
  <2> SUFFICES ASSUME AuditInv, opened <= Reserve, NoOverflow,
                      NEW u \in Users, NEW id \in PositionIds,
                      positions[<<u, id>>].open, positions[<<u, id>>].lock_until_ts <= now
               PROVE  CanUnstake(u, id)
    BY DEF ReserveMeansLeave, UnlockedCanLeave
  <2> DEFINE s == <<u, id>>
  <2>1. s \in Slots
    BY DEF Slots
  <2>2. /\ PoolInv /\ SupplyInv /\ TypeOK /\ SumFunction(Amounts) <= stakingVault
        /\ SumFunction(Pendings) <= treasury
    BY BooksImplySolvent DEF AuditInv, PoolInv, VaultCoversPrincipal, SolventWithReserve
  <2>3. /\ xnt \in [Users -> Nat] /\ game \in [Users -> Nat]
        /\ treasury \in Nat /\ stakingVault \in Nat
    BY <2>2 DEF TypeOK
  <2>4. Pending(s) \in Nat /\ Pending(s) <= SumFunction(Pendings) /\ SumFunction(Pendings) \in Nat
    <3>1. Pendings \in [Slots -> Nat]
      BY <2>2, StateFacts DEF Pendings
    <3>2. Pendings[s] <= SumFunction(Pendings) /\ SumFunction(Pendings) \in Nat
      BY <2>1, <3>1, SlotsFinite, SumMember, SumNat
    <3>3. Pendings[s] = Pending(s)
      BY <2>1 DEF Pendings
    <3> QED BY <2>1, <3>1, <3>2, <3>3
  <2>5. /\ positions[s].amount_staked \in Nat
        /\ positions[s].amount_staked <= SumFunction(Amounts) /\ SumFunction(Amounts) \in Nat
    <3>1. Amounts \in [Slots -> Nat]
      BY <2>2 DEF Amounts, TypeOK, Position
    <3>2. Amounts[s] <= SumFunction(Amounts) /\ SumFunction(Amounts) \in Nat
      BY <2>1, <3>1, SlotsFinite, SumMember, SumNat
    <3>3. Amounts[s] = positions[s].amount_staked
      BY <2>1 DEF Amounts
    <3> QED BY <2>1, <3>1, <3>2, <3>3
  <2>6. /\ xnt[u] <= SumFunction(xnt) /\ SumFunction(xnt) \in Nat /\ xnt[u] \in Nat
        /\ game[u] <= SumFunction(game) /\ SumFunction(game) \in Nat /\ game[u] \in Nat
    BY <2>3, UsersAssumption, SumMember, SumNat
  <2>7. positions[s].effective_stake * stakingPool.acc_reward_per_share <= U128Max
    BY <2>1 DEF NoOverflow
  <2> HIDE DEF s
  <2>8. Pending(s) <= treasury /\ xnt[u] + Pending(s) <= U64Max
    BY <2>2, <2>3, <2>4, <2>6, ConstantFacts DEF SupplyInv, XntSupply
  <2>9. /\ positions[s].amount_staked <= stakingVault
        /\ game[u] + positions[s].amount_staked <= U64Max
    BY <2>2, <2>3, <2>5, <2>6, ConstantFacts DEF SupplyInv, GameSupply
  <2> QED BY <2>7, <2>8, <2>9 DEF CanUnstake, CanSettle, s
<1> QED BY <1>1, AuditInvariant, PTL
-----------------------------------------------------------------------------
(***************************************************************************)
(* The books without a bookkeeper, for whoever only sees the pool: what    *)
(* all weights have accumulated beyond their debts is covered by what the  *)
(* treasury holds and a unit for each of n positions that were opened.     *)
(***************************************************************************)
TreasuryCovers(n) == Acc * Total <= PRECISION * (treasury + n + SumFunction(Debts))

LEMMA CoverInit == Init => DebtsBehind /\ TreasuryCovers(0)
<1> SUFFICES ASSUME Init PROVE DebtsBehind /\ TreasuryCovers(0)
  OBVIOUS
<1>1. PoolInv
  BY PoolInit
<1>2. Acc = 0 /\ treasury = 0 /\ PRECISION \in Nat \ {0} /\ \A s \in Slots : Debt(s) = 0
  BY ConstantFacts DEF Init, Acc, InitialPositions, NoPosition, Debt
<1>3. /\ SumFunction(Debts) \in Nat /\ Total \in Nat
      /\ \A s \in Slots : Weight(s) \in Nat
  BY <1>1, StateFacts
<1>4. DebtsBehind
  BY <1>2, <1>3 DEF DebtsBehind
<1>5. TreasuryCovers(0)
  <2>1. Acc * Total = 0 /\ treasury + 0 + SumFunction(Debts) = SumFunction(Debts)
    BY <1>2, <1>3
  <2>2. 0 <= PRECISION * SumFunction(Debts)
    BY <1>2, <1>3
  <2> QED BY <2>1, <2>2 DEF TreasuryCovers
<1> QED BY <1>4, <1>5

LEMMA CreditedWithinDeposit ==
  ASSUME PoolInv, NEW deposit \in Deposits
  PROVE  Credited(deposit) <= deposit
<1>1. deposit \in Nat /\ StakingShareBps \in Nat /\ StakingShareBps <= BPS /\ BPS \in Nat \ {0}
  BY ConfigAssumption, ConstantFacts
<1> DEFINE x == deposit * StakingShareBps
           t == x \div BPS
<1>2. x \in Nat /\ x <= deposit * BPS
  BY <1>1
<1> HIDE DEF x
<1>3. t \in Nat /\ t * BPS <= x
  BY <1>1, <1>2, DivFacts
<1> HIDE DEF t
<1>4. BPS * t <= BPS * deposit
  BY <1>1, <1>2, <1>3
<1>5. t <= deposit
  BY <1>1, <1>3, <1>4, CancelScale
<1> QED BY <1>1, <1>5 DEF Credited, ToStakers, t, x

LEMMA MineCovers ==
  ASSUME PoolInv, DebtsBehind, NEW n \in Nat, TreasuryCovers(n), NEW u \in Users,
         NEW deposit \in Deposits, NEW reward \in Rewards, MineWithRig(u, deposit, reward)
  PROVE  DebtsBehind' /\ TreasuryCovers(n)' /\ Acc <= Acc'
<1> DEFINE d == Distribution(deposit)
           c == Credited(deposit)
<1>1. d \in Nat /\ c \in Nat /\ Total * d <= PRECISION * c /\ deposit \in Nat /\ c <= deposit
  BY DistributionFacts, CreditedWithinDeposit, ConfigAssumption
<1>2. /\ Acc' = Acc + d /\ Total' = Total /\ UNCHANGED positions
      /\ treasury' = treasury + deposit
  BY DEF MineWithRig, Acc, Total, PoolInv, TypeOK
<1> HIDE DEF d, c
<1>3. \A s \in Slots : Weight(s)' = Weight(s) /\ Debt(s)' = Debt(s)
  BY <1>2 DEF Weight, Debt
<1>4. Debts' = Debts
  BY <1>2 DEF Debts
<1>5. /\ Acc \in Nat /\ Total \in Nat /\ treasury \in Nat /\ PRECISION \in Nat
      /\ SumFunction(Debts) \in Nat
      /\ \A s \in Slots : Weight(s) \in Nat /\ Debt(s) \in Nat /\ Weight(s) <= Total
  BY StateFacts, ConstantFacts
<1>6. DebtsBehind'
  <2> SUFFICES ASSUME NEW s \in Slots PROVE PRECISION * Debt(s) <= Weight(s) * (Acc + d)
    BY <1>2, <1>3 DEF DebtsBehind
  <2>1. PRECISION * Debt(s) <= Weight(s) * Acc
    BY DEF DebtsBehind
  <2>2. Weight(s) * Acc <= Weight(s) * (Acc + d)
    BY <1>1, <1>5, MineArithmetic
  <2>3. Weight(s) * Acc \in Int /\ Weight(s) * (Acc + d) \in Int /\ PRECISION * Debt(s) \in Int
    BY <1>1, <1>5
  <2> QED BY <2>1, <2>2, <2>3
<1>7. TreasuryCovers(n)'
  <2> DEFINE R == treasury + n + SumFunction(Debts)
             R1 == treasury + deposit + n + SumFunction(Debts)
  <2>1. R \in Nat /\ R1 \in Nat /\ R + c <= R1
    BY <1>1, <1>5
  <2>2. Acc * Total <= PRECISION * R
    BY DEF TreasuryCovers
  <2>3. treasury' + n + SumFunction(Debts)' = R1
    BY <1>2, <1>4
  <2> HIDE DEF R, R1
  <2>4. (Acc + d) * Total <= Acc * Total + PRECISION * c
    BY <1>1, <1>5, MineArithmetic
  <2>5. PRECISION * (R + c) = PRECISION * R + PRECISION * c
    BY <1>1, <1>5, <2>1
  <2>6. PRECISION * (R + c) <= PRECISION * R1
    BY <1>1, <1>5, <2>1, ScaleUp
  <2>7. /\ Acc * Total \in Int /\ (Acc + d) * Total \in Int /\ PRECISION * c \in Int
        /\ PRECISION * R \in Int /\ PRECISION * R1 \in Int
    BY <1>1, <1>5, <2>1
  <2>8. (Acc + d) * Total <= PRECISION * R1
    BY <2>2, <2>4, <2>5, <2>6, <2>7
  <2> QED BY <1>2, <2>3, <2>8 DEF TreasuryCovers
<1> QED BY <1>1, <1>2, <1>5, <1>6, <1>7

LEMMA StakeCovers ==
  ASSUME PoolInv, PoolInv', DebtsBehind, NEW n \in Nat, TreasuryCovers(n), NEW u \in Users,
         NEW amount \in StakeAmounts, NEW lockDays \in LockChoices,
         NEW boostMult \in BoostMults, Stake(u, amount, lockDays, boostMult)
  PROVE  DebtsBehind' /\ TreasuryCovers(n + 1)' /\ Acc' = Acc
<1>0. PICK k \in PositionIds : NextSlot(u) = <<u, k>>
  BY WidthAssumption DEF PoolInv, TypeOK, NextSlot, PositionIds, MaxOf
<1>1. PICK s \in Slots : NextSlot(u) = s
  BY <1>0 DEF Slots
<1> DEFINE e == CalculateEffective(amount, LockMultiplier[lockDays], boostMult)
<1>2. PICK D : D = Accumulated(e, Acc)
  OBVIOUS
<1>3. /\ ~ positions[s].open
      /\ positions'[s].effective_stake = e /\ positions'[s].reward_debt = D
      /\ \A t \in Slots \ {s} : positions'[t] = positions[t]
      /\ stakingPool'.acc_reward_per_share = stakingPool.acc_reward_per_share
      /\ treasury' = treasury
  BY <1>1, <1>2 DEF Stake, PoolInv, TypeOK, Acc
<1>4. /\ Acc' = Acc /\ Weight(s)' = e /\ Debt(s)' = D
      /\ \A t \in Slots \ {s} : Weight(t)' = Weight(t) /\ Debt(t)' = Debt(t)
  BY <1>3 DEF Acc, Weight, Debt
<1>5. Debt(s) = 0 /\ Weight(s) = 0
  <2>1. positions[s] = NoPosition
    BY <1>3 DEF PoolInv, TypeOK
  <2> QED BY <2>1 DEF NoPosition, Debt, Weight
<1>6. e \in Nat
  <2>1. Weight(s)' \in Nat
    BY DEF PoolInv, TypeOK, Position, Weight
  <2> QED BY <1>4, <2>1
<1>7. /\ Acc \in Nat /\ Total \in Nat /\ treasury \in Nat /\ PRECISION \in Nat \ {0}
      /\ SumFunction(Debts) \in Nat
      /\ \A t \in Slots : Weight(t) \in Nat /\ Debt(t) \in Nat
  BY StateFacts, ConstantFacts
<1> HIDE DEF e
<1>8. D \in Nat /\ PRECISION * D <= e * Acc /\ e * Acc < PRECISION * (D + 1)
  BY <1>2, <1>6, <1>7, AccumulatedFacts
<1>9. Total' = Total + e
  <2>1. SameBut(positions, positions', s, Slots)
    BY <1>3 DEF SameBut
  <2>2. positions \in [Slots -> Position] /\ positions' \in [Slots -> Position]
    BY DEF PoolInv, TypeOK
  <2>3. /\ SumFunction(EffectivesOf(positions)) \in Nat
        /\ SumFunction(EffectivesOf(positions')) = SumFunction(EffectivesOf(positions))
             - positions[s].effective_stake + positions'[s].effective_stake
    BY <2>1, <2>2, SlotUpdate
  <2>4. Total = SumFunction(Effectives) /\ Total' = SumFunction(Effectives')
    BY DEF PoolInv, TotalIsSumOfEffective, Total
  <2> QED BY <1>3, <1>5, <1>6, <2>3, <2>4, AmountsAndEffectives DEF Weight
<1>10. DebtsBehind'
  BY <1>4, <1>8 DEF DebtsBehind
<1>11. TreasuryCovers(n + 1)'
  <2> DEFINE R == treasury + n + SumFunction(Debts)
  <2>1. SumFunction(Debts') = SumFunction(Debts) + D
    BY <1>3, <1>4, <1>5, <1>7, <1>8, DebtUpdate
  <2>2. R \in Nat /\ treasury' + (n + 1) + SumFunction(Debts') = R + (D + 1)
    BY <1>3, <1>7, <1>8, <2>1
  <2>3. Acc * Total <= PRECISION * R
    BY DEF TreasuryCovers
  <2> HIDE DEF R
  <2>4. /\ PRECISION * (R + (D + 1)) = PRECISION * R + PRECISION * (D + 1)
        /\ Acc * (Total + e) = Acc * Total + e * Acc
    BY <1>6, <1>7, <1>8, <2>2
  <2>5. /\ Acc * Total \in Int /\ e * Acc \in Int
        /\ PRECISION * R \in Int /\ PRECISION * (D + 1) \in Int
    BY <1>6, <1>7, <1>8, <2>2
  <2>6. Acc * (Total + e) <= PRECISION * (R + (D + 1))
    BY <1>8, <2>3, <2>4, <2>5
  <2> QED BY <1>4, <1>9, <2>2, <2>6 DEF TreasuryCovers
<1> QED BY <1>4, <1>10, <1>11

\* A settlement takes from the treasury no more than it adds to the debt.
LEMMA ClaimCovers ==
  ASSUME PoolInv, PoolInv', DebtsBehind, NEW n \in Nat, TreasuryCovers(n),
         NEW u \in Users, NEW id \in PositionIds, Claim(u, id)
  PROVE  DebtsBehind' /\ TreasuryCovers(n)' /\ Acc' = Acc
<1>1. PICK s \in Slots : s = <<u, id>>
  BY DEF Slots
<1>2. PICK D, p : D = SettledDebt(s) /\ p = Pending(s)
  OBVIOUS
<1>3. /\ positions'[s].effective_stake = positions[s].effective_stake
      /\ positions'[s].reward_debt = D
      /\ \A t \in Slots \ {s} : positions'[t] = positions[t]
      /\ stakingPool' = stakingPool
      /\ treasury' = treasury - p /\ p <= treasury
  BY <1>1, <1>2 DEF Claim, PayRewards, CanSettle, PoolInv, TypeOK, Position
<1>4. /\ Acc' = Acc /\ Total' = Total /\ Weight(s)' = Weight(s) /\ Debt(s)' = D
      /\ \A t \in Slots \ {s} : Weight(t)' = Weight(t) /\ Debt(t)' = Debt(t)
  BY <1>3 DEF Acc, Total, Weight, Debt
<1>5. /\ Acc \in Nat /\ Total \in Nat /\ treasury \in Nat /\ PRECISION \in Nat
      /\ SumFunction(Debts) \in Nat
      /\ \A t \in Slots : Weight(t) \in Nat /\ Debt(t) \in Nat
  BY StateFacts, ConstantFacts
<1>6. D \in Nat /\ p \in Nat /\ Debt(s) + p <= D /\ PRECISION * D <= Weight(s) * Acc
  BY <1>2, SettleFacts
<1>7. DebtsBehind'
  BY <1>4, <1>6 DEF DebtsBehind
<1>8. TreasuryCovers(n)'
  <2> DEFINE R == treasury + n + SumFunction(Debts)
  <2>1. SumFunction(Debts') = SumFunction(Debts) - Debt(s) + D
    BY <1>3, <1>4, DebtUpdate
  <2>2. PICK R1 : R1 = treasury' + n + SumFunction(Debts')
    OBVIOUS
  <2>3. R \in Nat /\ R1 \in Int /\ R <= R1
    BY <1>3, <1>5, <1>6, <2>1, <2>2
  <2>4. Acc * Total <= PRECISION * R /\ Acc * Total \in Int
    BY <1>5 DEF TreasuryCovers
  <2> HIDE DEF R
  <2>5. Acc * Total <= PRECISION * R1
    BY <1>5, <2>3, <2>4, ScaleUp
  <2> QED BY <1>4, <2>2, <2>5 DEF TreasuryCovers
<1> QED BY <1>4, <1>7, <1>8

LEMMA UnstakeCovers ==
  ASSUME PoolInv, PoolInv', DebtsBehind, NEW n \in Nat, TreasuryCovers(n),
         NEW u \in Users, NEW id \in PositionIds, Unstake(u, id)
  PROVE  DebtsBehind' /\ TreasuryCovers(n)' /\ Acc' = Acc
<1>1. PICK s \in Slots : s = <<u, id>>
  BY DEF Slots
<1>2. PICK D, p : D = SettledDebt(s) /\ p = Pending(s)
  OBVIOUS
<1>3. /\ positions'[s] = NoPosition
      /\ \A t \in Slots \ {s} : positions'[t] = positions[t]
      /\ stakingPool'.acc_reward_per_share = stakingPool.acc_reward_per_share
      /\ treasury' = treasury - p /\ p <= treasury
  BY <1>1, <1>2 DEF Unstake, PayRewards, CanUnstake, CanSettle, PoolInv, TypeOK
<1>4. /\ Acc' = Acc /\ Weight(s)' = 0 /\ Debt(s)' = 0
      /\ \A t \in Slots \ {s} : Weight(t)' = Weight(t) /\ Debt(t)' = Debt(t)
  BY <1>3 DEF Acc, Weight, Debt, NoPosition
<1>5. /\ Acc \in Nat /\ Total \in Nat /\ treasury \in Nat /\ PRECISION \in Nat
      /\ SumFunction(Debts) \in Nat
      /\ \A t \in Slots : Weight(t) \in Nat /\ Debt(t) \in Nat
  BY StateFacts, ConstantFacts
<1>6. D \in Nat /\ p \in Nat /\ Debt(s) + p <= D /\ PRECISION * D <= Weight(s) * Acc
  BY <1>2, SettleFacts
<1>7. Total' = Total - Weight(s)
  <2>1. SameBut(positions, positions', s, Slots)
    BY <1>3 DEF SameBut
  <2>2. positions \in [Slots -> Position] /\ positions' \in [Slots -> Position]
    BY DEF PoolInv, TypeOK
  <2>3. /\ SumFunction(EffectivesOf(positions)) \in Nat
        /\ SumFunction(EffectivesOf(positions')) = SumFunction(EffectivesOf(positions))
             - positions[s].effective_stake + positions'[s].effective_stake
    BY <2>1, <2>2, SlotUpdate
  <2>4. Total = SumFunction(Effectives) /\ Total' = SumFunction(Effectives')
    BY DEF PoolInv, TotalIsSumOfEffective, Total
  <2> QED BY <1>4, <1>5, <2>3, <2>4, AmountsAndEffectives DEF Weight
<1>8. DebtsBehind'
  <2> SUFFICES ASSUME NEW t \in Slots PROVE PRECISION * Debt(t)' <= Weight(t)' * Acc'
    BY DEF DebtsBehind
  <2>1. CASE t = s
    <3>1. PRECISION * 0 = 0 /\ 0 * Acc = 0
      BY <1>5
    <3> QED BY <1>4, <2>1, <3>1
  <2>2. CASE t # s
    BY <1>4, <2>2 DEF DebtsBehind
  <2> QED BY <2>1, <2>2
<1>9. TreasuryCovers(n)'
  <2> DEFINE R == treasury + n + SumFunction(Debts)
  <2>1. SumFunction(Debts') = SumFunction(Debts) - Debt(s) + 0
    BY <1>3, <1>4, DebtUpdate
  <2>2. PICK R1 : R1 = treasury' + n + SumFunction(Debts')
    OBVIOUS
  <2>3. R \in Nat /\ R1 \in Int /\ R - D <= R1
    BY <1>3, <1>5, <1>6, <2>1, <2>2
  <2>4. Acc * Total <= PRECISION * R /\ Acc * Total \in Int /\ Weight(s) * Acc \in Int
    BY <1>5 DEF TreasuryCovers
  <2> HIDE DEF R
  <2>5. PRECISION * (R - D) <= PRECISION * R1
    BY <1>5, <1>6, <2>3, ScaleUp
  <2>6. /\ PRECISION * (R - D) = PRECISION * R - PRECISION * D
        /\ Acc * (Total - Weight(s)) = Acc * Total - Weight(s) * Acc
    BY <1>5, <1>6, <2>3
  <2>7. /\ PRECISION * R \in Int /\ PRECISION * D \in Int /\ PRECISION * R1 \in Int
    BY <1>5, <1>6, <2>3
  <2>8. Acc * (Total - Weight(s)) <= PRECISION * R1
    BY <1>6, <2>4, <2>5, <2>6, <2>7
  <2> QED BY <1>4, <1>7, <2>2, <2>8 DEF TreasuryCovers
<1> QED BY <1>4, <1>8, <1>9

LEMMA TransferCovers ==
  ASSUME PoolInv, DebtsBehind, NEW n \in Nat, TreasuryCovers(n), NEW gift \in Nat,
         treasury' = treasury + gift, UNCHANGED <<positions, stakingPool>>
  PROVE  DebtsBehind' /\ TreasuryCovers(n)' /\ Acc' = Acc
<1>1. Debts' = Debts /\ Acc' = Acc /\ Total' = Total
  BY DEF Debts, Acc, Total
<1>2. DebtsBehind'
  BY DEF DebtsBehind, Debt, Weight, Acc
<1>3. /\ Acc \in Nat /\ Total \in Nat /\ treasury \in Nat /\ PRECISION \in Nat
      /\ SumFunction(Debts) \in Nat
  BY StateFacts, ConstantFacts
<1>4. TreasuryCovers(n)'
  <2> DEFINE R == treasury + n + SumFunction(Debts)
             R1 == treasury + gift + n + SumFunction(Debts)
  <2>1. R \in Nat /\ R1 \in Nat /\ R <= R1
    BY <1>3
  <2>2. Acc * Total <= PRECISION * R /\ Acc * Total \in Int
    BY <1>3 DEF TreasuryCovers
  <2>3. treasury' + n + SumFunction(Debts)' = R1
    BY <1>1
  <2> HIDE DEF R, R1
  <2>4. Acc * Total <= PRECISION * R1
    BY <1>3, <2>1, <2>2, ScaleUp
  <2> QED BY <1>1, <2>3, <2>4 DEF TreasuryCovers
<1> QED BY <1>1, <1>2, <1>4

LEMMA CoversMore ==
  ASSUME PoolInv, NEW n \in Nat, NEW m \in Nat, n <= m, TreasuryCovers(n)
  PROVE  TreasuryCovers(m)
<1> DEFINE X == treasury + n + SumFunction(Debts)
           Y == treasury + m + SumFunction(Debts)
<1>1. /\ Acc * Total \in Int /\ PRECISION \in Nat
      /\ treasury \in Nat /\ SumFunction(Debts) \in Nat
  BY StateFacts, ConstantFacts
<1>2. X \in Int /\ Y \in Int /\ X <= Y
  BY <1>1
<1>3. Acc * Total <= PRECISION * X
  BY DEF TreasuryCovers
<1> HIDE DEF X, Y
<1>4. PRECISION * X <= PRECISION * Y /\ PRECISION * X \in Int /\ PRECISION * Y \in Int
  BY <1>1, <1>2, ScaleUp
<1>5. Acc * Total <= PRECISION * Y
  BY <1>1, <1>3, <1>4
<1> QED BY <1>5 DEF Y, TreasuryCovers

\* What a position has accumulated since its debt was set does not reach beyond
\* the treasury, but for the units of the openings.
LEMMA OwedWithinTreasury ==
  ASSUME PoolInv, DebtsBehind, NEW n \in Nat, TreasuryCovers(n), NEW s \in Slots
  PROVE  SettledDebt(s) - Debt(s) <= treasury + n
<1> DEFINE owed == [t \in Slots |-> Acc * Effectives[t] - PRECISION * Debts[t]]
<1>1. /\ Acc \in Nat /\ Total \in Nat /\ PRECISION \in Nat \ {0} /\ treasury \in Nat
      /\ Debts \in [Slots -> Nat] /\ Effectives \in [Slots -> Nat]
      /\ SumFunction(Debts) \in Nat /\ SumFunction(Effectives) = Total
  BY StateFacts, ConstantFacts
<1>2. ASSUME NEW t \in Slots
      PROVE  Acc * Effectives[t] - PRECISION * Debts[t] \in Nat
  <2>1. PRECISION * Debts[t] <= Effectives[t] * Acc
    BY DEF DebtsBehind, Debts, Effectives, Debt, Weight
  <2>2. Effectives[t] \in Nat /\ Debts[t] \in Nat
    BY <1>1
  <2>3. Effectives[t] * Acc = Acc * Effectives[t] /\ Acc * Effectives[t] \in Int
        /\ PRECISION * Debts[t] \in Int
    BY <1>1, <2>2
  <2> QED BY <2>1, <2>3
<1>3. owed \in [Slots -> Nat]
  BY <1>2
<1>4. Combines(owed, Acc, Effectives, PRECISION, Debts, Slots)
  BY DEF Combines
<1>5. owed[s] = Acc * Weight(s) - PRECISION * Debt(s)
  BY DEF Effectives, Debts, Weight, Debt
<1> HIDE DEF owed
<1>6. SumFunction(owed) = Acc * Total - PRECISION * SumFunction(Debts)
  BY <1>1, <1>3, <1>4, SlotsFinite, SumLinear
<1>7. owed[s] <= SumFunction(owed) /\ SumFunction(owed) \in Nat
  BY <1>3, SlotsFinite, SumMember, SumNat
<1> DEFINE D == SettledDebt(s)
           b == SumFunction(Debts)
           r == treasury + n
<1>8. D \in Nat /\ PRECISION * D <= Weight(s) * Acc /\ Weight(s) \in Nat /\ Debt(s) \in Nat
  BY SettleFacts, StateFacts
<1>9. r \in Nat /\ b \in Nat /\ Acc * Total <= PRECISION * (r + b)
  BY <1>1 DEF TreasuryCovers
<1> HIDE DEF D, b, r
<1>10. /\ PRECISION * (r + b) = PRECISION * r + PRECISION * b
       /\ PRECISION * (D - Debt(s)) = PRECISION * D - PRECISION * Debt(s)
       /\ Weight(s) * Acc = Acc * Weight(s)
  BY <1>1, <1>8, <1>9
<1>11. /\ PRECISION * r \in Int /\ PRECISION * b \in Int /\ PRECISION * D \in Int
       /\ PRECISION * Debt(s) \in Int /\ Acc * Weight(s) \in Int /\ Acc * Total \in Int
  BY <1>1, <1>8, <1>9
<1>12. SumFunction(owed) = Acc * Total - PRECISION * b
  BY <1>6 DEF b
<1>13. owed[s] \in Int
  BY <1>3
<1>14. PRECISION * (D - Debt(s)) <= PRECISION * r
  BY <1>5, <1>7, <1>8, <1>9, <1>10, <1>11, <1>12, <1>13
<1>15. D - Debt(s) <= r
  BY <1>1, <1>8, <1>9, <1>14, CancelScale
<1> QED BY <1>15 DEF D, r
=============================================================================
