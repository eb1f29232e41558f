------------------------------- MODULE MCArena -------------------------------
(***************************************************************************)
(* Arena for TLC: two players, a rig, one boost each of the kinds that     *)
(* reach from a player's account into the pool, and rewards that are       *)
(* halved away after two levels.                                           *)
(***************************************************************************)
EXTENDS Arena, Boosts, TLC

CONSTANTS u1, u2

MCUsers == {u1, u2}
MCXnt == (u1 :> 3) @@ (u2 :> 0)
MCGame == (u1 :> 0) @@ (u2 :> 1)
MCLegacy == [u \in MCUsers |-> 0]

MCRigs == {0}
MCCost == (0 :> 3)
MCPoints == (0 :> 1)
MCReward == (0 :> 2)
MCBoosts == {<<>>, <<30>>, <<30, 30>>}

Offer(kind, value, rig) ==
  [kind |-> kind, cost_boost_points |-> 1, value_bps |-> value,
   duration_seconds |-> 0, rig_id |-> rig]

MCOffers == {Offer("MiningRewardBps", 30, AnyRig), Offer("FreeRigTicket", 0, 0),
             Offer("StakingMultiplierBps", 40, AnyRig)}

MCTimes == {0, 7}

\* Points a player holds; bounds the model.
MaxPoints == 1

MCNext ==
  /\ ArenaNext
  /\ \A u \in Users : accounts'[u].boost_points <= MaxPoints
=============================================================================
