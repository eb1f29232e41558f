----------------------------- MODULE PlayerAudit -----------------------------
(***************************************************************************)
(* PlayerAccount with a record of what a player was given and used up.     *)
(* The record never constrains the player.                                 *)
(***************************************************************************)
EXTENDS PlayerAccount

VARIABLES
  granted,        \* boost points awarded to each player
  pointsSpent,    \* boost points each player paid for boosts
  ticketsBought,  \* tickets each player activated
  freeRuns        \* freeRuns[u][r]: runs of u with rig r that a ticket was good for

ledger == <<granted, pointsSpent, ticketsBought, freeRuns>>
ledgerVars == <<playerVars, ledger>>

LedgerInit ==
  /\ PlayerInit
  /\ granted = [u \in Users |-> 0]
  /\ pointsSpent = [u \in Users |-> 0]
  /\ ticketsBought = [u \in Users |-> 0]
  /\ freeRuns = [u \in Users |-> [r \in RigIds |-> 0]]

LedgerMine(u, r, base, high) ==
  /\ RunsOf(u) < MaxRuns
  /\ Mine(u, r, base, high)
  /\ freeRuns' = [freeRuns EXCEPT ![u][r] =
                   IF Tickets(LiveBoosts(u), r, now) # {} THEN @ + 1 ELSE @]
  /\ UNCHANGED <<granted, pointsSpent, ticketsBought>>

LedgerGrant(u, points) ==
  /\ ApplyRankingResults(u, points)
  /\ granted' = [granted EXCEPT ![u] = @ + points]
  /\ UNCHANGED <<pointsSpent, ticketsBought, freeRuns>>

LedgerActivate(u, id) ==
  /\ ActivateBoost(u, id)
  /\ pointsSpent' = [pointsSpent EXCEPT ![u] = @ + boostConfigs[id].cost_boost_points]
  /\ ticketsBought' = [ticketsBought EXCEPT ![u] =
                         IF boostConfigs[id].kind = "FreeRigTicket" THEN @ + 1 ELSE @]
  /\ UNCHANGED <<granted, freeRuns>>

LedgerNext ==
  \/ \E u \in Users :
       \/ \E r \in RigIds, p \in RewardPairs : LedgerMine(u, r, p[1], p[2])
       \/ \E points \in Grants : LedgerGrant(u, points)
       \/ \E id \in BoostIds : LedgerActivate(u, id)
       \/ PurgeForStake(u) /\ UNCHANGED ledger
       \/ \E day \in DayIds : ResetDailyPoints(u, day) /\ UNCHANGED ledger
  \/ \E id \in BoostIds, offer \in BoostOffers :
       UpsertBoostConfig(id, offer) /\ UNCHANGED ledger
  \/ \E t \in Times : PassTime(t) /\ UNCHANGED ledger

LedgerSpec == LedgerInit /\ [][LedgerNext]_ledgerVars
-----------------------------------------------------------------------------
\* Boost points are not spent twice, even when the price of a boost changes
\* between two purchases, and are lost only to the ceiling of the counter, where
\* apply_ranking_results saturates: of the points awarded, those a player holds
\* or has paid are all of them, or at least as many as the counter can show.
PointsBalance ==
  \A u \in Users :
    LET had == accounts[u].boost_points + pointsSpent[u]
    IN MinOf(granted[u], U64Max) <= had /\ had <= granted[u]

\* A ticket pays for one run: free runs and tickets still held are together
\* never more than the tickets bought.
TicketsUsedOnce ==
  \A u \in Users :
    SumFunction(freeRuns[u]) + Len(LiveTickets(accounts[u].active_boosts, now))
      <= ticketsBought[u]
=============================================================================
