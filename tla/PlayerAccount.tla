---------------------------- MODULE PlayerAccount ----------------------------
(***************************************************************************)
(* The account of a player: points, counters and active boosts, and the    *)
(* boost configurations the admin publishes.  An instruction that names an *)
(* account that does not exist yet creates it with zeros; the account's    *)
(* address is derived from the player's key, so its owner is always that   *)
(* player, and the owner check, which cannot fail, is left out.            *)
(*                                                                         *)
(* Of mine_with_rig and stake this module has what they do to the account. *)
(***************************************************************************)
EXTENDS Boosts

CONSTANTS
  Users,            \* the players
  RigIds,           \* the rigs
  RigCost,          \* RigCost[r]: XNT a run with rig r costs
  MiningPoints,     \* MiningPoints[r]: points a run with rig r earns
  RewardPairs,      \* <<base, high>>: the reward drawn, and the better of the two
  Grants,           \* boost points the admin awards
  DayIds,           \* days the admin resets points for
  BoostIds,         \* ids of boost configurations
  BoostOffers,      \* what the admin may publish under an id
  MaxActiveBoosts,  \* 8
  Times,            \* the instants the clock shows
  MaxRuns           \* runs of a player; bounds the model

VARIABLES
  now,              \* the cluster's clock
  accounts,         \* the account of each player
  boostConfigs      \* the configuration published under each id

playerVars == <<now, accounts, boostConfigs>>

\* What the admin may publish: a rig's id, or AnyRig, and a duration of any sign.
Published == [kind : BoostKinds, cost_boost_points : 0 .. U64Max, value_bps : 0 .. U16Max,
              duration_seconds : Int, rig_id : Int]

ASSUME PlayerAssumption ==
  /\ IsFiniteSet(RigIds)
  /\ RigCost \in [RigIds -> Nat] /\ MiningPoints \in [RigIds -> Nat]
  /\ RewardPairs \subseteq Nat \X Nat
  /\ Grants \subseteq Nat /\ DayIds \subseteq Nat /\ Times \subseteq Nat
  /\ BoostOffers \subseteq Published
  /\ MaxActiveBoosts \in Nat
  /\ MaxRuns \in 0 .. U64Max

NewAccount ==
  [daily_points |-> 0, lifetime_points |-> 0, boost_points |-> 0, mining_xnt_spent |-> 0,
   mining_tokens_mined |-> 0, mining_runs_by_rig |-> [r \in RigIds |-> 0],
   mining_crit_count |-> 0, last_day_id |-> 0, active_boosts |-> <<>>]

\* No account has been created for the id.
NoOffer == [kind |-> "none"]

PlayerInit ==
  /\ now = 0
  /\ accounts = [u \in Users |-> NewAccount]
  /\ boostConfigs = [id \in BoostIds |-> NoOffer]

(***************************************************************************)
(* mine_with_rig: expired boosts go first, then a ticket if there is one;  *)
(* reward and points are scaled by the boosts that are left.               *)
(***************************************************************************)
LiveBoosts(u) == PurgeExpired(accounts[u].active_boosts, now)
BoostsAfterRun(u, r) == WithoutTicket(LiveBoosts(u), r, now)

Deposit(u, r) == IF Tickets(LiveBoosts(u), r, now) # {} THEN 0 ELSE RigCost[r]

RunReward(u, r, base) ==
  ClampedBoost(base, ValuesOf(BoostsAfterRun(u, r), "MiningRewardBps", now))

RunPoints(u, r) ==
  ClampedBoost(MiningPoints[r], ValuesOf(BoostsAfterRun(u, r), "MiningPointsBps", now))

\* A run counts as a lucky one by what it pays, boosts included.
IsCrit(u, r, base, high) ==
  Boosted(base, ValuesOf(BoostsAfterRun(u, r), "MiningRewardBps", now)) >= high

Mine(u, r, base, high) ==
  /\ accounts' = [accounts EXCEPT ![u] = [accounts[u] EXCEPT
       !.active_boosts = BoostsAfterRun(u, r),
       !.mining_xnt_spent = SatAdd(@, Deposit(u, r), U64Max),
       !.daily_points = SatAdd(@, RunPoints(u, r) % (U32Max + 1), U32Max),
       !.lifetime_points = SatAdd(@, RunPoints(u, r), U64Max),
       !.mining_tokens_mined = SatAdd(@, RunReward(u, r, base), U64Max),
       !.mining_runs_by_rig[r] = SatAdd(@, 1, U64Max),
       !.mining_crit_count = IF IsCrit(u, r, base, high) THEN SatAdd(@, 1, U64Max) ELSE @]]
  /\ UNCHANGED <<now, boostConfigs>>

\* stake drops what has expired, and reads the staking multiplier.
PurgeForStake(u) ==
  /\ accounts' = [accounts EXCEPT ![u].active_boosts = LiveBoosts(u)]
  /\ UNCHANGED <<now, boostConfigs>>

(***************************************************************************)
(* What the admin does: award boost points, reset the points of a day,     *)
(* publish a boost or replace one.                                         *)
(***************************************************************************)
\* Mutant: the counter wraps around.
ApplyRankingWrapping(u, points) ==
  /\ accounts' = [accounts EXCEPT ![u].boost_points = (@ + points) % (U64Max + 1)]
  /\ UNCHANGED <<now, boostConfigs>>

ApplyRankingResults(u, points) ==
  /\ accounts' = [accounts EXCEPT ![u].boost_points = SatAdd(@, points, U64Max)]
  /\ UNCHANGED <<now, boostConfigs>>

ResetDailyPoints(u, day) ==
  /\ accounts' = [accounts EXCEPT ![u].daily_points = 0, ![u].last_day_id = day]
  /\ UNCHANGED <<now, boostConfigs>>

UpsertBoostConfig(id, offer) ==
  /\ boostConfigs' = [boostConfigs EXCEPT ![id] = offer]
  /\ UNCHANGED <<now, accounts>>

(***************************************************************************)
(* activate_boost: the player pays the published price and gets the boost  *)
(* as it is published now.                                                 *)
(***************************************************************************)
\* Mutant: it is not asked whether the player has the points.
CanActivateOnCredit(u, id) ==
  /\ boostConfigs[id] # NoOffer
  /\ Len(LiveBoosts(u)) < MaxActiveBoosts

CanActivate(u, id) ==
  /\ boostConfigs[id] # NoOffer
  /\ Len(LiveBoosts(u)) < MaxActiveBoosts
  /\ accounts[u].boost_points >= boostConfigs[id].cost_boost_points

\* Mutant: the rig of a boost is not copied.
ActivatedForAnyRig(offer) ==
  [kind |-> offer.kind, value_bps |-> offer.value_bps, rig_id |-> AnyRig,
   expires_at_ts |-> IF offer.duration_seconds > 0 THEN now + offer.duration_seconds ELSE 0]

Activated(offer) ==
  [kind |-> offer.kind, value_bps |-> offer.value_bps, rig_id |-> offer.rig_id,
   expires_at_ts |-> IF offer.duration_seconds > 0 THEN now + offer.duration_seconds ELSE 0]

ActivateBoost(u, id) ==
  /\ CanActivate(u, id)
  /\ accounts' = [accounts EXCEPT ![u] = [accounts[u] EXCEPT
       !.boost_points = SatSub(@, boostConfigs[id].cost_boost_points),
       !.active_boosts = Append(LiveBoosts(u), Activated(boostConfigs[id]))]]
  /\ UNCHANGED <<now, boostConfigs>>

PassTime(t) ==
  /\ t > now
  /\ now' = t
  /\ UNCHANGED <<accounts, boostConfigs>>

RunsOf(u) == SumFunction(accounts[u].mining_runs_by_rig)

PlayerNext ==
  \/ \E u \in Users :
       \/ RunsOf(u) < MaxRuns /\ \E r \in RigIds, p \in RewardPairs : Mine(u, r, p[1], p[2])
       \/ PurgeForStake(u)
       \/ \E points \in Grants : ApplyRankingResults(u, points)
       \/ \E day \in DayIds : ResetDailyPoints(u, day)
       \/ \E id \in BoostIds : ActivateBoost(u, id)
  \/ \E id \in BoostIds, offer \in BoostOffers : UpsertBoostConfig(id, offer)
  \/ \E t \in Times : PassTime(t)

PlayerSpec == PlayerInit /\ [][PlayerNext]_playerVars
-----------------------------------------------------------------------------
(***************************************************************************)
(* Properties.                                                             *)
(***************************************************************************)

\* The fields keep their widths, and the list of boosts the places it has.
Account ==
  [daily_points : 0 .. U32Max, lifetime_points : 0 .. U64Max, boost_points : 0 .. U64Max,
   mining_xnt_spent : 0 .. U64Max, mining_tokens_mined : 0 .. U64Max,
   mining_runs_by_rig : [RigIds -> 0 .. U64Max], mining_crit_count : 0 .. U64Max,
   last_day_id : Nat,
   active_boosts : {boosts \in Seq(ActiveBoost) : Len(boosts) <= MaxActiveBoosts}]

PlayerTypeOK ==
  /\ now \in Nat
  /\ accounts \in [Users -> Account]
  /\ boostConfigs \in [BoostIds -> Published \cup {NoOffer}]

\* Expired boosts are dropped only when the player does something.  It makes no
\* difference when: what counts for a run or a stake is the same before and
\* after the purge, whichever comparison with the clock is made first.
LazyPurgeIsHarmless ==
  \A u \in Users :
    LET boosts == accounts[u].active_boosts IN
    /\ \A kind \in BoostKinds : ValuesOf(boosts, kind, now) = ValuesOf(LiveBoosts(u), kind, now)
    /\ \A r \in RigIds :
         (Tickets(boosts, r, now) = {}) = (Tickets(LiveBoosts(u), r, now) = {})

LiveTickets(boosts, t) == Kept(boosts, {b \in Alive(t) : b.kind = "FreeRigTicket"})
LiveOthers(boosts, t) == Kept(boosts, {b \in Alive(t) : b.kind # "FreeRigTicket"})

\* What a player bought stays until it expires: no step takes a live boost
\* away, except a run, which takes one ticket at most.
BoostsAreKept ==
  [][\A u \in Users :
       LET before == accounts[u].active_boosts
           after == accounts'[u].active_boosts
           runs == SumFunction(accounts'[u].mining_runs_by_rig) - RunsOf(u)
       IN
       /\ IsPrefix(LiveOthers(before, now), LiveOthers(after, now))
       /\ Len(LiveTickets(after, now)) >= Len(LiveTickets(before, now)) - runs]_playerVars
=============================================================================
