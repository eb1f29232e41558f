---------------------------- MODULE BoostScripts ----------------------------
(***************************************************************************)
(* The scripts about boosts against the accounts of the players: the admin *)
(* publishes with upsert-boost.ts, awards points with                      *)
(* grant-boost-points.ts and opens accounts with create-user.ts, a player  *)
(* buys with activate-boost.ts.  None of them reads the chain: what is     *)
(* published, and at what price, may change until the transaction arrives. *)
(***************************************************************************)
EXTENDS PlayerAudit, Transactions

CONSTANTS
  Jobs,       \* Jobs[r]: script, user, boostId, offer and points of run r
  AdminKey,   \* the wallet of the admin, also a player
  U8Max, KeyNumber   \* see Instructions

\* An offer for every rig has no rig id.
Sdk == INSTANCE Instructions WITH None <- AnyRig

VARIABLES
  sent,    \* the instruction each run has built
  charged  \* points each activation has cost when it landed (history)

boostVars == <<ledgerVars, stage, tx, sent, charged>>

KeyOf(u) == <<u>>
Of(scripts) == {r \in Runs : Jobs[r].script \in scripts}

\* What the environment of a run may say; a number need not fit its field.
ASSUME BoostJobsAssumption ==
  /\ IsFiniteSet(Runs) /\ U8Max \in Nat
  /\ \A u \in Users : KeyNumber[KeyOf(u)] \in Nat
  /\ \A r \in Runs :
       /\ Jobs[r].user \in Users /\ Jobs[r].boostId \in Int
       /\ Jobs[r].offer \in [kind : BoostKinds, cost_boost_points : Int, value_bps : Int,
                             duration_seconds : Int, rig_id : Int]

Kinds == <<"MiningRewardBps", "MiningPointsBps", "FreeRigTicket", "StakingMultiplierBps">>
KindNumber(kind) == (CHOOSE n \in DOMAIN Kinds : Kinds[n] = kind) - 1

\* What an instruction finds on the chain.
Chain ==
  [accounts |-> {Sdk!findGlobalConfig}
      \cup {<<"boost-config", id>> : id \in {b \in BoostIds : boostConfigs[b] # NoOffer}},
   admin |-> KeyOf(AdminKey)]

Builds(r, i) ==
  /\ Build(r)
  /\ Sdk!Encodes(i)
  /\ sent' = [sent EXCEPT ![r] = i]
  /\ UNCHANGED <<ledgerVars, charged>>

UpsertParams(r) ==
  LET offer == Jobs[r].offer IN
  [admin |-> KeyOf(AdminKey), id |-> Jobs[r].boostId, kind |-> KindNumber(offer.kind),
   costBoostPoints |-> offer.cost_boost_points, valueBps |-> offer.value_bps,
   durationSeconds |-> offer.duration_seconds, rigId |-> offer.rig_id]

UpsertBuilds(r) ==
  /\ Jobs[r].script = "upsert-boost.ts"
  /\ Builds(r, Sdk!ixUpsertBoostConfig(UpsertParams(r)))

\* writeUInt8 throws: there are no boosts beyond a byte.
UpsertThrows(r) ==
  /\ Jobs[r].script = "upsert-boost.ts"
  /\ Goes(r, "started", "failed")
  /\ ~ Sdk!Encodes(Sdk!ixUpsertBoostConfig(UpsertParams(r)))
  /\ UNCHANGED <<ledgerVars, tx, sent, charged>>

GrantParams(r) ==
  [admin |-> KeyOf(AdminKey), user |-> KeyOf(Jobs[r].user), addedBoostPoints |-> Jobs[r].points]

\* create-user.ts asks for 0 points.
CreateUserParams(r) ==
  [admin |-> KeyOf(AdminKey), user |-> KeyOf(Jobs[r].user), addedBoostPoints |-> 0]

GrantBuilds(r) ==
  /\ Jobs[r].script \in {"grant-boost-points.ts", "create-user.ts"}
  /\ Builds(r, Sdk!ixApplyRankingResults(
       IF Jobs[r].script = "create-user.ts" THEN CreateUserParams(r) ELSE GrantParams(r)))

ActivateBuilds(r) ==
  /\ Jobs[r].script = "activate-boost.ts"
  /\ Builds(r, Sdk!ixActivateBoost([user |-> KeyOf(Jobs[r].user), boostId |-> Jobs[r].boostId]))

\* The signer is the wallet: the player's for an activation, else the admin's.
Wallet(r) == IF Jobs[r].script = "activate-boost.ts" THEN Jobs[r].user ELSE AdminKey

Taken(r) ==
  /\ Land(r)
  /\ Sdk!Accepts(sent[r], {KeyOf(Wallet(r))}, Chain)
  /\ UNCHANGED sent

OfferOf(args) ==
  [kind |-> Kinds[args[2] + 1], cost_boost_points |-> args[3], value_bps |-> args[4],
   duration_seconds |-> args[5], rig_id |-> args[6]]

UpsertLands(r) ==
  /\ Jobs[r].script = "upsert-boost.ts"
  /\ Taken(r)
  /\ LET args == Sdk!ArgsOf(sent[r]) IN UpsertBoostConfig(args[1], OfferOf(args))
  /\ UNCHANGED <<ledger, charged>>

\* The points are what the program reads from the data.
GrantLands(r) ==
  /\ Jobs[r].script \in {"grant-boost-points.ts", "create-user.ts"}
  /\ Taken(r)
  /\ LedgerGrant(Jobs[r].user, Sdk!ArgsOf(sent[r])[1])
  /\ UNCHANGED charged

ActivateLands(r) ==
  /\ Jobs[r].script = "activate-boost.ts"
  /\ Taken(r)
  /\ LET id == Sdk!AccountsOf(sent[r]).boost_config[2] IN
     /\ LedgerActivate(Jobs[r].user, id)
     /\ charged' = [charged EXCEPT ![r] = boostConfigs[id].cost_boost_points]

BoostInit ==
  /\ LedgerInit /\ TxInit
  /\ sent = [r \in Runs |-> AnyRig]
  /\ charged = [r \in Runs |-> 0]

BoostNext ==
  \/ \E r \in Runs :
       \/ UpsertBuilds(r) \/ UpsertThrows(r) \/ GrantBuilds(r) \/ ActivateBuilds(r)
       \/ UpsertLands(r) \/ GrantLands(r) \/ ActivateLands(r)
       \/ /\ \/ Start(r) \/ Send(r) \/ Confirm(r) \/ SeeRefusal(r) \/ GiveUp(r)
             \/ Break(r) \/ LoseTouch(r) \/ Refuse(r)
          /\ UNCHANGED <<ledgerVars, sent, charged>>
  \/ NextBlock /\ UNCHANGED <<ledgerVars, sent, charged>>
  \/ \E t \in Times : PassTime(t) /\ UNCHANGED <<ledger, stage, tx, sent, charged>>

BoostSpec == BoostInit /\ [][BoostNext]_boostVars
-----------------------------------------------------------------------------
(***************************************************************************)
(* Properties.                                                             *)
(***************************************************************************)
Landed(scripts) == {r \in Of(scripts) : tx[r].status = "landed"}

\* Points are added and charged once per run, whatever the runs report: where
\* scripts are used, what a player holds and the landed activations have cost is
\* what the program was told to add by the landed awards, short of it only when
\* that is more than the counter can show.
ChargedOncePerRun ==
  \A u \in Users :
    LET mine(scripts) == {r \in Landed(scripts) : Jobs[r].user = u}
        added == [r \in mine({"grant-boost-points.ts", "create-user.ts"}) |->
                    Sdk!ArgsOf(sent[r])[1]]
        paid == [r \in mine({"activate-boost.ts"}) |-> charged[r]]
        had == accounts[u].boost_points + SumFunction(paid)
    IN (\E r \in Runs : stage[r] # "off") =>
         MinOf(SumFunction(added), U64Max) <= had /\ had <= SumFunction(added)

\* An offer may be replaced while an activation is on its way.  What the player
\* gets and what it costs come from one publication under the id the script
\* prints, never the price of one and the boost of another.
SoldAsPublished ==
  [][\A r \in Of({"activate-boost.ts"}) :
       tx[r].status = "pending" /\ tx'[r].status = "landed" =>
         LET bought == Last(accounts'[Jobs[r].user].active_boosts) IN
         \E q \in Landed({"upsert-boost.ts"}) :
           LET offer == Jobs[q].offer IN
           /\ Jobs[q].boostId = Jobs[r].boostId
           /\ charged'[r] = offer.cost_boost_points
           /\ bought.kind = offer.kind /\ bought.value_bps = offer.value_bps
           /\ bought.rig_id = offer.rig_id
           /\ bought.expires_at_ts =
                IF offer.duration_seconds > 0 THEN now + offer.duration_seconds ELSE 0]_boostVars
=============================================================================
