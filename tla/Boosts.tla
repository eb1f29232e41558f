------------------------------- MODULE Boosts -------------------------------
(***************************************************************************)
(* The list of boosts of a player, and what the boosts do to a reward, to  *)
(* points, to the weight of a stake and to the price of a run.  The        *)
(* program sets applied_to_mining and applied_to_staking from the kind     *)
(* when a boost is activated and tests both later; here the kind is        *)
(* enough.                                                                 *)
(***************************************************************************)
EXTENDS ArenaMath, Lists

BoostKinds == {"MiningRewardBps", "MiningPointsBps", "FreeRigTicket", "StakingMultiplierBps"}

\* rig_id of a boost for every rig (None).
AnyRig == -1

\* A boost that expires at 0 never expires; another one still counts at the
\* very second it expires.
IsExpired(b, t) == b.expires_at_ts > 0 /\ b.expires_at_ts < t

AppliesToRig(b, r) == b.rig_id = AnyRig \/ b.rig_id = r

\* What the list holds, and what of it counts at t.
ActiveBoost ==
  [kind : BoostKinds, value_bps : 0 .. U16Max, rig_id : Int, expires_at_ts : Nat]
Alive(t) == {b \in ActiveBoost : ~ IsExpired(b, t)}

\* Mutant: the purge takes a boost at the very second it expires.
PurgeAtExpiry(boosts, t) ==
  Kept(boosts, {b \in ActiveBoost : b.expires_at_ts = 0 \/ b.expires_at_ts > t})

PurgeExpired(boosts, t) == Kept(boosts, Alive(t))

\* The values of the boosts of a kind that count at t, in list order.
ValuesOf(boosts, kind, t) ==
  LET counts == Kept(boosts, {b \in Alive(t) : b.kind = kind})
  IN [i \in DOMAIN counts |-> counts[i].value_bps]

\* They scale a base one after the other, each result rounded down.
Boosted(base, values) ==
  LET result[n \in 0 .. Len(values)] ==
        IF n = 0 THEN base ELSE MinOf(result[n - 1] * values[n], U128Max) \div BPS
  IN result[Len(values)]

\* The reward of a run, and the points, before and after the clamp to u64.
ClampedBoost(base, values) == MinOf(Boosted(base, values), U64Max)

\* Mutant: without a boost the weight is 0.
StakingMultiplierFromZero(boosts, t) ==
  Max({0} \cup Range(ValuesOf(boosts, "StakingMultiplierBps", t)))

\* The best staking boost counts, and never lowers a weight.
StakingMultiplier(boosts, t) ==
  Max({BPS} \cup Range(ValuesOf(boosts, "StakingMultiplierBps", t)))

\* Where the list has tickets for a free run with rig r.
Tickets(boosts, r, t) ==
  {i \in DOMAIN boosts : /\ boosts[i].kind = "FreeRigTicket"
                         /\ ~ IsExpired(boosts[i], t)
                         /\ AppliesToRig(boosts[i], r)}

\* Mutant: the ticket is honoured but not taken.
WithTicketKept(boosts, r, t) == boosts

\* Mutant: a run takes all tickets it could use.
WithoutAnyTicket(boosts, r, t) ==
  Kept(boosts, {b \in ActiveBoost : b.kind # "FreeRigTicket" \/ ~ AppliesToRig(b, r)})

\* A run uses the first of them.
WithoutTicket(boosts, r, t) ==
  IF Tickets(boosts, r, t) = {} THEN boosts ELSE RemoveAt(boosts, Min(Tickets(boosts, r, t)))
=============================================================================
