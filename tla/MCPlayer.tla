------------------------------ MODULE MCPlayer ------------------------------
(***************************************************************************)
(* A player's account for TLC, in one of three ways.  By hand: a player    *)
(* with two rigs and a list of two boosts, and every instruction in any    *)
(* order (PlayerAudit).  Through the scripts (BoostScripts): an admin      *)
(* publishes a boost twice, for different rigs and prices, awards points,  *)
(* and buys.  And the scripts once more: create-user.ts, and a boost with  *)
(* an id that does not fit a byte.                                         *)
(***************************************************************************)
EXTENDS BoostScripts, TLC

CONSTANTS u1, p1, p2, p3, g1, g2, a1

VARIABLE way   \* which of the three

MCRigs == {0, 1}
MCCost == (0 :> 1) @@ (1 :> 5)
MCPoints == (0 :> 1) @@ (1 :> 3)
MCPairs == {<<2, 4>>, <<4, 4>>}

Offer(kind, cost, value, duration, rig) ==
  [kind |-> kind, cost_boost_points |-> cost, value_bps |-> value,
   duration_seconds |-> duration, rig_id |-> rig]

\* A reward boost that lasts, a ticket for rig 1 that does not, and a ticket
\* for any rig that never expires.
MCOffers == {Offer("MiningRewardBps", 1, 15, 0, AnyRig),
             Offer("FreeRigTicket", 2, 0, 1, 1),
             Offer("FreeRigTicket", 1, 0, 0, AnyRig)}

MCTimes == {0, 1, 2}

\* A few points, or nearly as many as the counter can show.
MCGrants == {3, U64Max - 2}

Ticket == Offer("FreeRigTicket", 3, 15, 1, 0)
Reward == Offer("MiningRewardBps", 2, 15, 1, AnyRig)
Job(script, id, offer) ==
  [script |-> script, user |-> u1, boostId |-> id, offer |-> offer, points |-> 2]

MCJobs ==
  (p1 :> Job("upsert-boost.ts", 1, Ticket)) @@ (p2 :> Job("upsert-boost.ts", 1, Reward)) @@
  (p3 :> Job("upsert-boost.ts", 4, Reward)) @@
  (g1 :> Job("grant-boost-points.ts", 0, Ticket)) @@ (g2 :> Job("create-user.ts", 0, Ticket)) @@
  (a1 :> Job("activate-boost.ts", 1, Ticket))

\* The runs that are started.
Group == [w \in {"by hand", "scripts", "first account"} |->
  CASE w = "by hand" -> {}
    [] w = "scripts" -> {p1, p2, g1, a1}
    [] w = "first account" -> {p3, g1, g2}]

\* The number the SDK puts where the points belong: two of them are more than
\* the counter can show.
MCKeyNumber == KeyOf(u1) :> 150

\* By hand, a player is awarded a few points or, before any run, about as many
\* as the counter can show, or more; bounds the model.
FewAwards(u) ==
  \/ granted[u] <= 3
  \/ granted[u] \in {U64Max - 2, U64Max + 1} /\ RunsOf(u) = 0

MCInit == BoostInit /\ way \in DOMAIN Group

MCNext ==
  /\ \/ /\ way = "by hand" /\ LedgerNext /\ UNCHANGED <<stage, tx, sent, charged>>
        /\ \A u \in Users : FewAwards(u)'
     \/ way # "by hand" /\ BoostNext
  /\ \A r \in Runs \ Group[way] : stage'[r] = "off"
  /\ UNCHANGED way
=============================================================================
