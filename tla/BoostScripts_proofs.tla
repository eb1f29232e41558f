------------------------- MODULE BoostScripts_proofs -------------------------
(***************************************************************************)
(* Theorems about BoostScripts, for any number of runs about any boosts    *)
(* and players: what is charged and what is sold.                          *)
(***************************************************************************)
EXTENDS BoostScripts, Player_proofs, Transactions_proofs

PublishRuns == Of({"upsert-boost.ts"})
GrantRuns == Of({"grant-boost-points.ts", "create-user.ts"})
BuyRuns == Of({"activate-boost.ts"})

LEMMA KindsOfRuns ==
  /\ PublishRuns \subseteq Runs /\ GrantRuns \subseteq Runs /\ BuyRuns \subseteq Runs
  /\ \A r \in GrantRuns : r \notin PublishRuns \cup BuyRuns
  /\ \A r \in BuyRuns : r \notin PublishRuns
BY DEF PublishRuns, GrantRuns, BuyRuns, Of

-----------------------------------------------------------------------------
(***************************************************************************)
(* What the runs build, and what the program makes of it.                  *)
(***************************************************************************)
UpsertIx(r) == Sdk!ixUpsertBoostConfig(UpsertParams(r))
GrantIx(r) ==
  Sdk!ixApplyRankingResults(
    IF Jobs[r].script = "create-user.ts" THEN CreateUserParams(r) ELSE GrantParams(r))
ActivateIx(r) ==
  Sdk!ixActivateBoost([user |-> KeyOf(Jobs[r].user), boostId |-> Jobs[r].boostId])

\* The number of a kind names it.
LEMMA KindsNumbered ==
  ASSUME NEW kind \in BoostKinds
  PROVE  /\ KindNumber(kind) \in 0 .. 3
         /\ Kinds[KindNumber(kind) + 1] = kind
<1>1. DOMAIN Kinds = 1 .. 4
  BY DEF Kinds
<1>2. \E n \in DOMAIN Kinds : Kinds[n] = kind
  <2>1. /\ Kinds[1] = "MiningRewardBps" /\ Kinds[2] = "MiningPointsBps"
        /\ Kinds[3] = "FreeRigTicket" /\ Kinds[4] = "StakingMultiplierBps"
    BY DEF Kinds
  <2> QED BY <1>1, <2>1 DEF BoostKinds
<1> DEFINE n == CHOOSE n \in DOMAIN Kinds : Kinds[n] = kind
<1>3. n \in 1 .. 4 /\ Kinds[n] = kind
  BY <1>1, <1>2
<1>4. KindNumber(kind) = n - 1
  BY DEF KindNumber
<1> HIDE DEF n
<1> QED BY <1>3, <1>4

\* Bytes behind bytes.
LEMMA FivePlusOne ==
  ASSUME NEW a, NEW b, NEW c, NEW d, NEW e, NEW x, NEW s, s = <<a, b, c, d, e>> \o <<x>>
  PROVE  /\ Len(s) = 6
         /\ s[1] = a /\ s[2] = b /\ s[3] = c /\ s[4] = d /\ s[5] = e /\ s[6] = x
OBVIOUS

LEMMA FivePlusTwo ==
  ASSUME NEW a, NEW b, NEW c, NEW d, NEW e, NEW x, NEW y, NEW s,
         s = <<a, b, c, d, e>> \o <<x, y>>
  PROVE  /\ Len(s) = 7
         /\ s[1] = a /\ s[2] = b /\ s[3] = c /\ s[4] = d /\ s[5] = e /\ s[6] = x /\ s[7] = y
OBVIOUS

\* What is published is what the environment of the run says, each number in its
\* field: what does not fit was never sent.
LEMMA PublishedAsAsked ==
  ASSUME NEW r \in PublishRuns, Sdk!Encodes(UpsertIx(r))
  PROVE  LET args == Sdk!ArgsOf(UpsertIx(r)) IN
         /\ args[1] = Jobs[r].boostId /\ OfferOf(args) = Jobs[r].offer
         /\ Jobs[r].offer \in Published
<1> DEFINE offer == Jobs[r].offer
           data == UpsertIx(r).data
           args == Sdk!ArgsOf(UpsertIx(r))
<1>1. offer \in [kind : BoostKinds, cost_boost_points : Int, value_bps : Int,
                 duration_seconds : Int, rig_id : Int]
  BY BoostJobsAssumption DEF PublishRuns, Of
<1> DEFINE option == Sdk!OptionU8(offer.rig_id)
           first == <<[type |-> "u8", value |-> Jobs[r].boostId],
                      [type |-> "u8", value |-> KindNumber(offer.kind)],
                      [type |-> "u64", value |-> offer.cost_boost_points],
                      [type |-> "u16", value |-> offer.value_bps],
                      [type |-> "i64", value |-> offer.duration_seconds]>>
<1>2. UpsertIx(r).name = "upsert_boost_config" /\ data = first \o option
  BY DEF UpsertIx, UpsertParams, Sdk!ixUpsertBoostConfig, Sdk!ix, Sdk!Arg
<1>3. \/ offer.rig_id = AnyRig /\ option = <<[type |-> "u8", value |-> 0]>>
      \/ /\ offer.rig_id # AnyRig
         /\ option = <<[type |-> "u8", value |-> 1], [type |-> "u8", value |-> offer.rig_id]>>
  BY DEF Sdk!OptionU8, Sdk!Arg
<1> HIDE DEF option
<1>4. /\ data[1] = first[1] /\ data[2] = first[2] /\ data[3] = first[3]
      /\ data[4] = first[4] /\ data[5] = first[5]
      /\ \/ offer.rig_id = AnyRig /\ data[6] = [type |-> "u8", value |-> 0]
         \/ /\ offer.rig_id # AnyRig /\ data[6] = [type |-> "u8", value |-> 1]
            /\ data[7] = [type |-> "u8", value |-> offer.rig_id]
  <2> DEFINE zero == [type |-> "u8", value |-> 0]
             one == [type |-> "u8", value |-> 1]
             rig == [type |-> "u8", value |-> offer.rig_id]
  <2> HIDE DEF offer
  <2>1. CASE offer.rig_id = AnyRig
    <3>1. data = first \o <<zero>>
      BY <1>2, <1>3, <2>1
    <3> QED BY <2>1, <3>1, FivePlusOne
  <2>2. CASE offer.rig_id # AnyRig
    <3>1. data = first \o <<one, rig>>
      BY <1>2, <1>3, <2>2
    <3> QED BY <2>2, <3>1, FivePlusTwo
  <2> QED BY <2>1, <2>2
<1> HIDE DEF data, offer
<1>5. /\ offer.cost_boost_points \in 0 .. U64Max /\ offer.value_bps \in 0 .. U16Max
  <2>1. {3, 4} \subseteq DOMAIN data
    BY <1>2, <1>3
  <2>2. Sdk!Writes(data[3]) /\ Sdk!Writes(data[4])
    BY <2>1 DEF Sdk!Encodes, data
  <2>3. /\ data[3].type = "u64" /\ data[3].value = offer.cost_boost_points
        /\ data[4].type = "u16" /\ data[4].value = offer.value_bps
    BY <1>4
  <2> QED BY <2>2, <2>3 DEF Sdk!Writes
<1>6. offer \in Published
  BY <1>1, <1>5 DEF Published
<1> DEFINE types == Sdk!Arguments["upsert_boost_config"]
           read == [n \in DOMAIN types |->
                      IF types[n] = "u64" /\ data[n].type = "pubkey"
                      THEN KeyNumber[data[n].value] ELSE data[n].value]
<1>7. types = <<"u8", "u8", "u64", "u16", "i64", "u8">>
  BY DEF Sdk!Arguments, Sdk!Contexts
<1>8. args = [read EXCEPT ![6] = IF read[6] = 0 THEN AnyRig ELSE data[7].value]
  BY <1>2 DEF Sdk!ArgsOf, data
<1>9. /\ DOMAIN read = 1 .. 6
      /\ read[1] = Jobs[r].boostId /\ read[2] = KindNumber(offer.kind)
      /\ read[3] = offer.cost_boost_points /\ read[4] = offer.value_bps
      /\ read[5] = offer.duration_seconds /\ read[6] = data[6].value
  BY <1>4, <1>7
<1> HIDE DEF read, args
<1>10. /\ args[1] = Jobs[r].boostId /\ args[2] = KindNumber(offer.kind)
       /\ args[3] = offer.cost_boost_points /\ args[4] = offer.value_bps
       /\ args[5] = offer.duration_seconds /\ args[6] = offer.rig_id
  BY <1>4, <1>8, <1>9
<1>11. OfferOf(args) = offer
  <2>1. Kinds[args[2] + 1] = offer.kind
    BY <1>1, <1>10, KindsNumbered
  <2> QED BY <1>1, <1>10, <2>1 DEF OfferOf
<1> QED BY <1>6, <1>10, <1>11 DEF args, offer

\* The points of an award are a number, whichever.
LEMMA GrantReads ==
  ASSUME NEW r \in GrantRuns
  PROVE  Sdk!ArgsOf(GrantIx(r))[1] \in Nat
<1>1. GrantIx(r).name = "apply_ranking_results"
  BY DEF GrantIx, Sdk!ixApplyRankingResults, Sdk!ix
<1>2. GrantIx(r).data[1] = [type |-> "pubkey", value |-> KeyOf(Jobs[r].user)]
  BY DEF GrantIx, Sdk!ixApplyRankingResults, Sdk!ix, Sdk!Arg, CreateUserParams, GrantParams
<1>3. Sdk!Arguments["apply_ranking_results"] = <<"u64">>
  BY DEF Sdk!Arguments, Sdk!Contexts
<1>4. Sdk!ArgsOf(GrantIx(r))[1] = KeyNumber[KeyOf(Jobs[r].user)]
  BY <1>1, <1>2, <1>3 DEF Sdk!ArgsOf
<1> QED BY <1>4, BoostJobsAssumption DEF GrantRuns, Of

\* The id the program finds in the address: the low byte of what was asked.
LEMMA BoughtId ==
  ASSUME NEW r \in BuyRuns
  PROVE  Sdk!AccountsOf(ActivateIx(r)).boost_config
           = <<"boost-config", Jobs[r].boostId % (U8Max + 1)>>
<1> DEFINE i == ActivateIx(r)
           fields == Sdk!Contexts[i.name]
<1>1. i.name = "activate_boost"
      /\ i.keys[3].pubkey = <<"boost-config", Jobs[r].boostId % (U8Max + 1)>>
  BY DEF ActivateIx, Sdk!ixActivateBoost, Sdk!ix, Sdk!ReadOnly, Sdk!findBoostConfig
<1> HIDE DEF i
<1>2. DOMAIN fields = 1 .. 5
  BY <1>1 DEF Sdk!Contexts
<1>3. /\ fields[1].field = "user" /\ fields[2].field = "global_config"
      /\ fields[3].field = "boost_config" /\ fields[4].field = "user_account"
      /\ fields[5].field = "system_program"
  BY <1>1 DEF Sdk!Contexts, Sdk!Mut, Sdk!Signer, Sdk!Account
<1> HIDE DEF fields
<1>4. (CHOOSE n \in DOMAIN fields : fields[n].field = "boost_config") = 3
  BY <1>2, <1>3
<1>5. "boost_config" \in {fields[n].field : n \in DOMAIN fields}
  BY <1>2, <1>3
<1>6. Sdk!AccountsOf(i).boost_config = i.keys[3].pubkey
  BY <1>4, <1>5 DEF Sdk!AccountsOf, fields
<1> QED BY <1>1, <1>6 DEF i

\* An activation that is taken finds something published under its id.
LEMMA BoughtIsPublished ==
  ASSUME NEW r \in BuyRuns, sent[r] = ActivateIx(r), Taken(r)
  PROVE  LET id == Sdk!AccountsOf(sent[r]).boost_config[2] IN
         id \in BoostIds /\ boostConfigs[id] # NoOffer /\ id = Jobs[r].boostId % (U8Max + 1)
<1> DEFINE a == Sdk!AccountsOf(sent[r])
           id == Jobs[r].boostId % (U8Max + 1)
<1>1. a.boost_config = <<"boost-config", id>>
  BY BoughtId
<1>2. sent[r].name = "activate_boost"
  BY DEF ActivateIx, Sdk!ixActivateBoost, Sdk!ix
<1>3. Sdk!Constraints("activate_boost", a, Sdk!ArgsOf(sent[r]), Chain)
  BY <1>2 DEF Taken, Sdk!Accepts
<1>4. a.boost_config \in Chain.accounts
  BY <1>3 DEF Sdk!Constraints
<1> HIDE DEF a, id
<1>5. <<"boost-config", id>> # Sdk!findGlobalConfig
  BY DEF Sdk!findGlobalConfig
<1>6. id \in {b \in BoostIds : boostConfigs[b] # NoOffer}
  BY <1>1, <1>4, <1>5 DEF Chain
<1>7. a.boost_config[2] = id
  BY <1>1
<1> QED BY <1>6, <1>7 DEF a, id
-----------------------------------------------------------------------------
(***************************************************************************)
(* The inductive invariant.  The ledger's invariant is part of it: what    *)
(* the ledger has recorded is what the landed runs have added and cost.    *)
(***************************************************************************)
IsPrepared(r) == stage[r] = "ready" \/ tx[r].status # "none"

SentAsBuilt ==
  /\ DOMAIN sent = Runs
  /\ \A r \in Runs : IsPrepared(r) =>
       /\ r \in PublishRuns => sent[r] = UpsertIx(r) /\ Sdk!Encodes(UpsertIx(r))
       /\ r \in GrantRuns => sent[r] = GrantIx(r)
       /\ r \in BuyRuns => sent[r] = ActivateIx(r)

\* The points the landed runs for a player have added, and what the landed
\* activations have cost.
RunsFor(u, S) == {r \in S : tx[r].status = "landed" /\ Jobs[r].user = u}
Added(u) == [r \in RunsFor(u, GrantRuns) |-> Sdk!ArgsOf(sent[r])[1]]
Charged(u) == [r \in RunsFor(u, BuyRuns) |-> charged[r]]

LedgerOfRuns ==
  /\ charged \in [Runs -> Nat]
  /\ \A u \in Users :
       granted[u] = SumFunction(Added(u)) /\ pointsSpent[u] = SumFunction(Charged(u))

\* Whatever is published was published by a run, as a whole.
PublishedByRuns ==
  \A id \in BoostIds : boostConfigs[id] # NoOffer =>
    \E q \in PublishRuns :
      /\ tx[q].status = "landed"
      /\ Jobs[q].boostId = id /\ boostConfigs[id] = Jobs[q].offer

BoostInv == LedgerInv /\ TxTypeOK /\ SentAsBuilt /\ LedgerOfRuns /\ PublishedByRuns

LEMMA RunsForType ==
  ASSUME NEW u, NEW S \in SUBSET Runs
  PROVE  IsFiniteSet(RunsFor(u, S)) /\ RunsFor(u, S) \subseteq S /\ RunsFor(u, S) \subseteq Runs
<1>1. RunsFor(u, S) \subseteq Runs
  BY DEF RunsFor
<1> QED BY <1>1, BoostJobsAssumption, FS_Subset DEF RunsFor

LEMMA EmptySum == ASSUME NEW f, DOMAIN f = {} PROVE SumFunction(f) = 0 /\ f \in [{} -> Nat]
<1>1. CASE f \in [{} -> Nat]
  BY <1>1, SumOnEmpty DEF SumFunction
<1>2. f \in [{} -> Nat]
  OBVIOUS
<1> QED BY <1>1, <1>2

LEMMA BoostInvInit == BoostInit => BoostInv
<1> SUFFICES ASSUME BoostInit PROVE BoostInv
  OBVIOUS
<1>1. LedgerInv /\ TxTypeOK
  BY LedgerInitInv, TxTypeInit DEF BoostInit
<1>2. \A r \in Runs : stage[r] = "off" /\ tx[r].status = "none"
  BY DEF BoostInit, TxInit, NoTx
<1>3. SentAsBuilt
  BY <1>2 DEF BoostInit, SentAsBuilt, IsPrepared
<1>4. ASSUME NEW u \in Users
      PROVE  granted[u] = SumFunction(Added(u)) /\ pointsSpent[u] = SumFunction(Charged(u))
  <2>1. RunsFor(u, GrantRuns) = {} /\ RunsFor(u, BuyRuns) = {}
    BY <1>2, KindsOfRuns DEF RunsFor
  <2>2. DOMAIN Added(u) = {} /\ DOMAIN Charged(u) = {}
    BY <2>1 DEF Added, Charged
  <2>3. SumFunction(Added(u)) = 0 /\ SumFunction(Charged(u)) = 0
    BY <2>2, EmptySum
  <2> QED BY <2>3 DEF BoostInit, LedgerInit
<1>5. charged \in [Runs -> Nat]
  BY DEF BoostInit
<1>6. PublishedByRuns
  BY DEF BoostInit, LedgerInit, PlayerInit, PublishedByRuns
<1> QED BY <1>1, <1>3, <1>4, <1>5, <1>6 DEF BoostInv, LedgerOfRuns

(***************************************************************************)
(* Steps that have no effect on the accounts.                              *)
(***************************************************************************)
\* What no transaction was taken for stays.
LEMMA NothingLands ==
  ASSUME BoostInv, UNCHANGED <<boostConfigs, granted, pointsSpent, charged>>,
         \A q \in Runs : tx'[q].status = "landed" <=> tx[q].status = "landed",
         \A q \in Runs : tx[q].status = "landed" => sent'[q] = sent[q]
  PROVE  LedgerOfRuns' /\ PublishedByRuns'
<1>1. PublishedByRuns'
  BY KindsOfRuns DEF BoostInv, PublishedByRuns
<1>2. ASSUME NEW u \in Users
      PROVE  Added(u)' = Added(u) /\ Charged(u)' = Charged(u)
  <2>1. RunsFor(u, GrantRuns)' = RunsFor(u, GrantRuns) /\ RunsFor(u, BuyRuns)' = RunsFor(u, BuyRuns)
    BY KindsOfRuns DEF RunsFor, GrantRuns, BuyRuns, Of
  <2>2. \A q \in RunsFor(u, GrantRuns) : sent'[q] = sent[q]
    BY KindsOfRuns DEF RunsFor
  <2>3. Added(u)' = Added(u)
    BY <2>1, <2>2 DEF Added
  <2> QED BY <2>1, <2>3 DEF Charged
<1>3. LedgerOfRuns'
  BY <1>2 DEF BoostInv, LedgerOfRuns
<1> QED BY <1>1, <1>3

\* A run that goes on, or is refused.
LEMMA ScriptStepKeeps ==
  ASSUME BoostInv, NEW r \in Runs, UNCHANGED <<ledgerVars, charged>>,
         \/ UpsertBuilds(r) \/ UpsertThrows(r) \/ GrantBuilds(r) \/ ActivateBuilds(r)
         \/ /\ \/ Start(r) \/ Send(r) \/ Confirm(r) \/ SeeRefusal(r) \/ GiveUp(r)
               \/ Break(r) \/ LoseTouch(r) \/ Refuse(r)
            /\ UNCHANGED sent
  PROVE  BoostInv'
<1>1. TxTypeOK /\ DOMAIN sent = Runs
  BY DEF BoostInv, SentAsBuilt
<1> DEFINE Built == UpsertBuilds(r) \/ GrantBuilds(r) \/ ActivateBuilds(r)
           Quiet == \/ Start(r) \/ Send(r) \/ Confirm(r) \/ SeeRefusal(r) \/ GiveUp(r)
                    \/ Break(r) \/ LoseTouch(r) \/ Refuse(r)
<1>2. Built => Build(r) /\ \A q \in Runs \ {r} : sent'[q] = sent[q]
  BY <1>1 DEF UpsertBuilds, GrantBuilds, ActivateBuilds, Builds
<1>3. UpsertThrows(r) => Break(r) /\ UNCHANGED sent
  BY DEF UpsertThrows, Break
<1>4. (Built /\ Build(r)) \/ (Quiet /\ UNCHANGED sent)
  BY <1>2, <1>3
<1>5. TxTypeOK'
  BY <1>1, <1>4, RunKeepsTxType, ClusterKeepsTxType DEF Step
<1>6. \A q \in Runs \ {r} : stage'[q] = stage[q] /\ tx'[q] = tx[q]
  BY <1>1, <1>4 DEF TxTypeOK, Start, Build, Send, Confirm, SeeRefusal, GiveUp, Break, LoseTouch,
                    Refuse, Goes
<1>7. tx'[r].status = "landed" <=> tx[r].status = "landed"
  BY <1>1, <1>4 DEF TxTypeOK, Start, Build, Send, Confirm, SeeRefusal, GiveUp, Break, LoseTouch,
                    Refuse, Goes, IsOpen, NoTx
<1>8. Built => tx[r].status # "landed" /\ stage[r] = "started"
  BY <1>1, <1>2 DEF TxTypeOK, Build, Goes, NoTx
<1>9. \A q \in Runs : tx[q].status = "landed" => sent'[q] = sent[q]
  BY <1>2, <1>4, <1>8
<1>10. LedgerOfRuns' /\ PublishedByRuns'
  <2>1. UNCHANGED <<boostConfigs, granted, pointsSpent, charged>>
    BY DEF ledgerVars, ledger, playerVars
  <2> QED BY <1>6, <1>7, <1>9, <2>1, NothingLands
<1>11. Quiet /\ UNCHANGED sent => \A q \in Runs : IsPrepared(q)' => IsPrepared(q)
  <2>1. Quiet => (IsPrepared(r)' => IsPrepared(r))
    BY <1>1 DEF TxTypeOK, Start, Send, Confirm, SeeRefusal, GiveUp, Break, LoseTouch,
                Refuse, Goes, IsOpen, NoTx, IsPrepared
  <2> QED BY <1>6, <2>1 DEF IsPrepared
<1>12. SentAsBuilt'
  <2>1. CASE Quiet /\ UNCHANGED sent
    BY <1>11, <2>1 DEF BoostInv, SentAsBuilt
  <2>2. CASE Built
    <3>1. DOMAIN sent' = Runs
      BY <1>1, <2>2 DEF UpsertBuilds, GrantBuilds, ActivateBuilds, Builds
    <3>2. \A q \in Runs \ {r} : IsPrepared(q)' => IsPrepared(q)
      BY <1>6 DEF IsPrepared
    <3>3. /\ r \in PublishRuns => sent'[r] = UpsertIx(r) /\ Sdk!Encodes(UpsertIx(r))
          /\ r \in GrantRuns => sent'[r] = GrantIx(r)
          /\ r \in BuyRuns => sent'[r] = ActivateIx(r)
      <4>1. CASE UpsertBuilds(r)
        BY <1>1, <4>1 DEF UpsertBuilds, Builds, UpsertIx, PublishRuns, GrantRuns, BuyRuns, Of
      <4>2. CASE GrantBuilds(r)
        BY <1>1, <4>2 DEF GrantBuilds, Builds, GrantIx, PublishRuns, GrantRuns, BuyRuns, Of
      <4>3. CASE ActivateBuilds(r)
        BY <1>1, <4>3 DEF ActivateBuilds, Builds, ActivateIx, PublishRuns, GrantRuns, BuyRuns, Of
      <4> QED BY <2>2, <4>1, <4>2, <4>3
    <3> QED BY <1>2, <2>2, <3>1, <3>2, <3>3 DEF BoostInv, SentAsBuilt
  <2> QED BY <1>4, <2>1, <2>2
<1>13. LedgerInv'
  <2>1. [LedgerNext]_ledgerVars
    OBVIOUS
  <2> QED BY <2>1, LedgerKeepsInv DEF BoostInv
<1> QED BY <1>5, <1>10, <1>12, <1>13 DEF BoostInv

\* A block makes nothing happen but that transactions get old.
LEMMA BlockKeeps ==
  ASSUME BoostInv, NextBlock, UNCHANGED <<ledgerVars, sent, charged>>
  PROVE  BoostInv'
<1>1. TxTypeOK'
  BY ClusterKeepsTxType DEF BoostInv
<1>2. stage' = stage /\ \A q \in Runs : tx'[q].status = tx[q].status
  BY DEF BoostInv, TxTypeOK, NextBlock
<1>3. SentAsBuilt'
  BY <1>2 DEF BoostInv, SentAsBuilt, IsPrepared
<1>4. LedgerOfRuns' /\ PublishedByRuns'
  <2>1. UNCHANGED <<boostConfigs, granted, pointsSpent, charged>>
    BY DEF ledgerVars, ledger, playerVars
  <2> QED BY <1>2, <2>1, NothingLands
<1>5. LedgerInv'
  <2>1. [LedgerNext]_ledgerVars
    OBVIOUS
  <2> QED BY <2>1, LedgerKeepsInv DEF BoostInv
<1> QED BY <1>1, <1>3, <1>4, <1>5 DEF BoostInv

LEMMA ClockKeeps ==
  ASSUME BoostInv, NEW t \in Times, PassTime(t), UNCHANGED <<ledger, stage, tx, sent, charged>>
  PROVE  BoostInv'
<1>1. TxTypeOK' /\ SentAsBuilt'
  BY DEF BoostInv, TxTypeOK, SentAsBuilt, IsPrepared
<1>2. LedgerOfRuns' /\ PublishedByRuns'
  <2>1. UNCHANGED <<boostConfigs, granted, pointsSpent, charged>>
    BY DEF ledger, PassTime
  <2> QED BY <2>1, NothingLands
<1>3. LedgerInv'
  <2>1. [LedgerNext]_ledgerVars
    BY DEF LedgerNext
  <2> QED BY <2>1, LedgerKeepsInv DEF BoostInv
<1> QED BY <1>1, <1>2, <1>3 DEF BoostInv

(***************************************************************************)
(* A transaction is taken.                                                 *)
(***************************************************************************)
\* What does not depend on the instruction.
LEMMA TakenOnce ==
  ASSUME BoostInv, NEW r \in Runs, Taken(r)
  PROVE  /\ TxTypeOK' /\ SentAsBuilt' /\ sent' = sent
         /\ tx[r].status # "landed" /\ tx'[r].status = "landed"
         /\ \A q \in Runs \ {r} : tx'[q] = tx[q]
         /\ r \in PublishRuns => sent[r] = UpsertIx(r) /\ Sdk!Encodes(UpsertIx(r))
         /\ r \in GrantRuns => sent[r] = GrantIx(r)
         /\ r \in BuyRuns => sent[r] = ActivateIx(r)
<1>1. TxTypeOK'
  BY ClusterKeepsTxType DEF BoostInv, Taken
<1>2. /\ stage' = stage /\ sent' = sent
      /\ tx[r].status = "pending" /\ tx'[r].status = "landed"
      /\ \A q \in Runs \ {r} : tx'[q] = tx[q]
  BY DEF BoostInv, TxTypeOK, Taken, Land, IsOpen
<1>3. IsPrepared(r) /\ \A q \in Runs : IsPrepared(q)' => IsPrepared(q)
  BY <1>2 DEF IsPrepared
<1>4. SentAsBuilt'
  BY <1>2, <1>3 DEF BoostInv, SentAsBuilt
<1> QED BY <1>1, <1>2, <1>3, <1>4 DEF BoostInv, SentAsBuilt

\* It joins the runs that have landed, for its player and of its kind.
LEMMA OneMoreRun ==
  ASSUME BoostInv, NEW r \in Runs, Taken(r), NEW u, NEW S \in SUBSET Runs
  PROVE  /\ r \notin RunsFor(u, S)
         /\ r \in S /\ Jobs[r].user = u => RunsFor(u, S)' = RunsFor(u, S) \cup {r}
         /\ r \notin S \/ Jobs[r].user # u => RunsFor(u, S)' = RunsFor(u, S)
<1>1. /\ tx[r].status # "landed" /\ tx'[r].status = "landed"
      /\ \A q \in Runs \ {r} : tx'[q] = tx[q]
  BY TakenOnce
<1>2. RunsFor(u, S)' = {q \in S : tx'[q].status = "landed" /\ Jobs[q].user = u}
  BY DEF RunsFor
<1> QED BY <1>1, <1>2 DEF RunsFor

\* The points added, and those charged, are naturals.
LEMMA SumsType ==
  ASSUME BoostInv, NEW u
  PROVE  /\ Added(u) \in [RunsFor(u, GrantRuns) -> Nat]
         /\ Charged(u) \in [RunsFor(u, BuyRuns) -> Nat]
<1>1. ASSUME NEW q \in RunsFor(u, GrantRuns) PROVE Sdk!ArgsOf(sent[q])[1] \in Nat
  <2>1. q \in GrantRuns /\ q \in Runs /\ tx[q].status = "landed"
    BY KindsOfRuns DEF RunsFor
  <2>2. sent[q] = GrantIx(q)
    BY <2>1 DEF BoostInv, SentAsBuilt, IsPrepared
  <2> QED BY <2>1, <2>2, GrantReads
<1>2. \A q \in RunsFor(u, BuyRuns) : charged[q] \in Nat
  BY KindsOfRuns DEF BoostInv, LedgerOfRuns, RunsFor
<1> QED BY <1>1, <1>2 DEF Added, Charged

\* An award that is taken adds its points to what was added for its player.
LEMMA AddedAfter ==
  ASSUME BoostInv, NEW r \in Runs, Taken(r), NEW u
  PROVE  /\ r \in GrantRuns /\ Jobs[r].user = u =>
              SumFunction(Added(u)') = SumFunction(Added(u)) + Sdk!ArgsOf(sent[r])[1]
         /\ r \notin GrantRuns \/ Jobs[r].user # u => Added(u)' = Added(u)
<1> DEFINE D == RunsFor(u, GrantRuns)
           f == Added(u)
           g == Added(u)'
<1>1. IsFiniteSet(D) /\ f \in [D -> Nat] /\ sent' = sent /\ GrantRuns \in SUBSET Runs
  BY KindsOfRuns, RunsForType, SumsType, TakenOnce
<1>2. g = [q \in RunsFor(u, GrantRuns)' |-> Sdk!ArgsOf(sent[q])[1]]
  BY <1>1 DEF Added
<1>3. CASE r \notin GrantRuns \/ Jobs[r].user # u
  <2>1. RunsFor(u, GrantRuns)' = D
    BY <1>1, <1>3, OneMoreRun
  <2> QED BY <1>2, <1>3, <2>1 DEF Added
<1>4. CASE r \in GrantRuns /\ Jobs[r].user = u
  <2>1. r \notin D /\ RunsFor(u, GrantRuns)' = D \cup {r}
    BY <1>1, <1>4, OneMoreRun
  <2>2. Sdk!ArgsOf(sent[r])[1] \in Nat
    BY <1>4, TakenOnce, GrantReads
  <2>3. /\ g = [q \in D \cup {r} |-> Sdk!ArgsOf(sent[q])[1]]
        /\ f = [q \in D |-> Sdk!ArgsOf(sent[q])[1]]
    BY <1>2, <2>1 DEF Added
  <2> HIDE DEF D, f, g
  <2>4. /\ \A q \in D : g[q] = f[q]
        /\ g[r] = Sdk!ArgsOf(sent[r])[1]
        /\ g \in [D \cup {r} -> Nat]
    <3>1. \A q \in D : Sdk!ArgsOf(sent[q])[1] \in Nat
      BY <1>1, <2>3
    <3> QED BY <2>2, <2>3, <3>1
  <2>5. SumFunction(g) = SumFunction(f) + g[r]
    BY <1>1, <2>1, <2>4, SumGrows
  <2> QED BY <1>4, <2>4, <2>5 DEF f, g
<1> QED BY <1>3, <1>4

\* An activation that is taken adds its price to what its player was charged.
LEMMA ChargedAfter ==
  ASSUME BoostInv, NEW r \in Runs, Taken(r), NEW u, NEW price \in Nat,
         charged' = IF r \in BuyRuns THEN [charged EXCEPT ![r] = price] ELSE charged
  PROVE  /\ r \in BuyRuns /\ Jobs[r].user = u =>
              SumFunction(Charged(u)') = SumFunction(Charged(u)) + price
         /\ r \notin BuyRuns \/ Jobs[r].user # u => Charged(u)' = Charged(u)
<1> DEFINE D == RunsFor(u, BuyRuns)
           f == Charged(u)
           g == Charged(u)'
<1>1. /\ IsFiniteSet(D) /\ f \in [D -> Nat] /\ BuyRuns \in SUBSET Runs
      /\ r \notin D /\ D \subseteq Runs /\ charged \in [Runs -> Nat]
  BY KindsOfRuns, RunsForType, SumsType, OneMoreRun DEF BoostInv, LedgerOfRuns
<1>2. g = [q \in RunsFor(u, BuyRuns)' |-> charged'[q]] /\ f = [q \in D |-> charged[q]]
  BY DEF Charged
<1>3. \A q \in D : charged'[q] = charged[q]
  BY <1>1
<1>4. CASE r \notin BuyRuns \/ Jobs[r].user # u
  <2>1. RunsFor(u, BuyRuns)' = D
    BY <1>1, <1>4, OneMoreRun
  <2> QED BY <1>2, <1>3, <1>4, <2>1
<1>5. CASE r \in BuyRuns /\ Jobs[r].user = u
  <2>1. RunsFor(u, BuyRuns)' = D \cup {r}
    BY <1>1, <1>5, OneMoreRun
  <2>2. g = [q \in D \cup {r} |-> charged'[q]] /\ charged'[r] = price
    BY <1>1, <1>2, <1>5, <2>1
  <2> HIDE DEF D, f, g
  <2>3. /\ \A q \in D : g[q] = f[q]
        /\ g[r] = price
        /\ g \in [D \cup {r} -> Nat]
    <3>1. \A q \in D : charged'[q] \in Nat
      BY <1>1, <1>3
    <3> QED BY <1>2, <1>3, <2>2, <3>1
  <2>4. SumFunction(g) = SumFunction(f) + g[r]
    <3>1. IsFiniteSet(D) /\ r \notin D /\ f \in [D -> Nat]
      BY <1>1
    <3> QED BY <2>3, <3>1, SumGrows
  <2> QED BY <1>5, <2>3, <2>4 DEF f, g
<1> QED BY <1>4, <1>5

\* What is published stays published by a run that has landed.
LEMMA StaysPublished ==
  ASSUME BoostInv, NEW r \in Runs, Taken(r), boostConfigs' = boostConfigs
  PROVE  PublishedByRuns'
<1>1. \A q \in Runs : tx[q].status = "landed" => tx'[q].status = "landed"
  BY TakenOnce
<1> QED BY <1>1, KindsOfRuns DEF BoostInv, PublishedByRuns

\* A publication: the offer the environment names, under the id it names.
LEMMA UpsertLandsKeeps ==
  ASSUME BoostInv, NEW r \in Runs, UpsertLands(r)
  PROVE  BoostInv'
<1>1. Taken(r) /\ UNCHANGED <<ledger, charged>> /\ r \in PublishRuns
  BY DEF UpsertLands, PublishRuns, Of
<1>2. sent[r] = UpsertIx(r) /\ Sdk!Encodes(UpsertIx(r))
  BY <1>1, TakenOnce
<1> DEFINE id == Jobs[r].boostId
           offer == Jobs[r].offer
<1>3. UpsertBoostConfig(id, offer) /\ offer \in Published
  BY <1>1, <1>2, PublishedAsAsked DEF UpsertLands
<1>4. /\ accounts' = accounts /\ now' = now
      /\ boostConfigs' = [boostConfigs EXCEPT ![id] = offer]
  BY <1>3 DEF UpsertBoostConfig
<1> HIDE DEF id, offer
<1>5. LedgerInv'
  <2>1. PlayerTypeOK'
    BY <1>3, <1>4 DEF BoostInv, LedgerInv, PlayerTypeOK
  <2>2. Jobs[r].user \in Users /\ UNCHANGED <<ledger, now>>
    BY <1>1, <1>4, BoostJobsAssumption
  <2>3. LedgerTypeOK' /\ PointsBalance' /\ TicketsUsedOnce'
    BY <1>4, <2>2, LedgerRestKeeps DEF BoostInv
  <2> QED BY <2>1, <2>3 DEF LedgerInv
<1>6. ASSUME NEW b \in BoostIds, boostConfigs'[b] # NoOffer
      PROVE  \E q \in PublishRuns :
               /\ tx'[q].status = "landed"
               /\ Jobs[q].boostId = b /\ boostConfigs'[b] = Jobs[q].offer
  <2>1. tx'[r].status = "landed" /\ \A q \in Runs \ {r} : tx'[q] = tx[q]
    BY <1>1, TakenOnce
  <2>2. DOMAIN boostConfigs = BoostIds
    BY DEF BoostInv, LedgerInv, PlayerTypeOK
  <2>3. CASE b = id
    BY <1>1, <1>4, <2>1, <2>2, <2>3 DEF id, offer
  <2>4. CASE b # id
    <3>1. boostConfigs'[b] = boostConfigs[b]
      BY <1>4, <2>2, <2>4
    <3>2. PICK q \in PublishRuns : /\ tx[q].status = "landed"
                                   /\ Jobs[q].boostId = b /\ boostConfigs[b] = Jobs[q].offer
      BY <1>6, <3>1 DEF BoostInv, PublishedByRuns
    <3>3. tx'[q].status = "landed"
      BY <2>1, <3>2, KindsOfRuns
    <3> QED BY <3>1, <3>2, <3>3
  <2> QED BY <2>3, <2>4
<1>7. PublishedByRuns'
  BY <1>6 DEF PublishedByRuns
<1>8. LedgerOfRuns'
  <2>1. r \notin GrantRuns /\ r \notin BuyRuns /\ charged' = charged
    BY <1>1, KindsOfRuns
  <2>2. ASSUME NEW u \in Users PROVE Added(u)' = Added(u) /\ Charged(u)' = Charged(u)
    <3>1. 0 \in Nat
      OBVIOUS
    <3> QED BY <1>1, <2>1, <3>1, AddedAfter, ChargedAfter
  <2> QED BY <1>1, <2>2 DEF BoostInv, LedgerOfRuns, ledger
<1> QED BY <1>1, <1>5, <1>7, <1>8, TakenOnce DEF BoostInv

\* An award: what the program reads is what is added to the points awarded.
LEMMA GrantLandsKeeps ==
  ASSUME BoostInv, NEW r \in Runs, GrantLands(r)
  PROVE  BoostInv'
<1> DEFINE u == Jobs[r].user
           points == Sdk!ArgsOf(sent[r])[1]
<1>1. Taken(r) /\ LedgerGrant(u, points) /\ charged' = charged /\ r \in GrantRuns
  BY DEF GrantLands, GrantRuns, Of
<1>2. u \in Users /\ points \in Nat
  BY <1>1, TakenOnce, GrantReads, BoostJobsAssumption
<1>3. /\ ApplyRankingResults(u, points) /\ boostConfigs' = boostConfigs
      /\ granted' = [granted EXCEPT ![u] = granted[u] + points]
      /\ pointsSpent' = pointsSpent
  BY <1>1 DEF LedgerGrant, ApplyRankingResults
<1> HIDE DEF u, points
<1>4. LedgerInv'
  <2>1. PlayerTypeOK'
    BY <1>2, <1>3, RankingType DEF BoostInv, LedgerInv
  <2>2. LedgerTypeOK' /\ PointsBalance' /\ TicketsUsedOnce'
    BY <1>1, <1>2, LedgerGrantKeeps DEF BoostInv
  <2> QED BY <2>1, <2>2 DEF LedgerInv
<1>5. PublishedByRuns'
  BY <1>1, <1>3, StaysPublished
<1>6. LedgerOfRuns'
  <2>1. r \notin BuyRuns /\ 0 \in Nat
    BY <1>1, KindsOfRuns
  <2>2. \A w : Charged(w)' = Charged(w)
    BY <1>1, <2>1, ChargedAfter
  <2>3. ASSUME NEW w \in Users PROVE granted'[w] = SumFunction(Added(w)')
    <3>1. granted[w] = SumFunction(Added(w)) /\ DOMAIN granted = Users
      BY DEF BoostInv, LedgerOfRuns, LedgerInv, LedgerTypeOK
    <3>2. CASE w = u
      <4>1. SumFunction(Added(w)') = SumFunction(Added(w)) + points
        BY <1>1, <3>2, AddedAfter DEF u, points
      <4> QED BY <1>3, <3>1, <3>2, <4>1
    <3>3. CASE w # u
      <4>1. Added(w)' = Added(w)
        BY <1>1, <3>3, AddedAfter DEF u
      <4> QED BY <1>3, <3>1, <3>3, <4>1
    <3> QED BY <3>2, <3>3
  <2> QED BY <1>1, <1>3, <2>2, <2>3 DEF BoostInv, LedgerOfRuns
<1> QED BY <1>1, <1>4, <1>5, <1>6, TakenOnce DEF BoostInv

\* A purchase, at the price that is published when it is taken.
LEMMA ActivateLandsKeeps ==
  ASSUME BoostInv, NEW r \in Runs, ActivateLands(r)
  PROVE  BoostInv'
<1> DEFINE u == Jobs[r].user
           id == Sdk!AccountsOf(sent[r]).boost_config[2]
           price == boostConfigs[id].cost_boost_points
<1>1. /\ Taken(r) /\ LedgerActivate(u, id) /\ r \in BuyRuns
      /\ charged' = [charged EXCEPT ![r] = price]
  BY DEF ActivateLands, BuyRuns, Of
<1>2. u \in Users
  BY BoostJobsAssumption
<1>3. id \in BoostIds /\ boostConfigs[id] # NoOffer
  BY <1>1, TakenOnce, BoughtIsPublished
<1>4. price \in Nat
  BY <1>3, WidthAssumption DEF BoostInv, LedgerInv, PlayerTypeOK, Published
<1>5. /\ ActivateBoost(u, id) /\ boostConfigs' = boostConfigs /\ granted' = granted
      /\ pointsSpent' = [pointsSpent EXCEPT ![u] = pointsSpent[u] + price]
  BY <1>1 DEF LedgerActivate, ActivateBoost
<1> HIDE DEF u, id, price
<1>6. LedgerInv'
  <2>1. PlayerTypeOK'
    BY <1>2, <1>3, <1>5, ActivateType DEF BoostInv, LedgerInv
  <2>2. LedgerTypeOK' /\ PointsBalance' /\ TicketsUsedOnce'
    BY <1>1, <1>2, <1>3, LedgerActivateKeeps DEF BoostInv
  <2> QED BY <2>1, <2>2 DEF LedgerInv
<1>7. PublishedByRuns'
  BY <1>1, <1>5, StaysPublished
<1>8. LedgerOfRuns'
  <2>1. charged' \in [Runs -> Nat]
    BY <1>1, <1>4 DEF BoostInv, LedgerOfRuns
  <2>2. r \notin GrantRuns
    BY <1>1, KindsOfRuns
  <2>3. \A w : Added(w)' = Added(w)
    BY <1>1, <2>2, AddedAfter
  <2>4. ASSUME NEW w \in Users PROVE pointsSpent'[w] = SumFunction(Charged(w)')
    <3>1. pointsSpent[w] = SumFunction(Charged(w)) /\ DOMAIN pointsSpent = Users
      BY DEF BoostInv, LedgerOfRuns, LedgerInv, LedgerTypeOK
    <3>2. CASE w = u
      <4>1. SumFunction(Charged(w)') = SumFunction(Charged(w)) + price
        BY <1>1, <1>4, <3>2, ChargedAfter DEF u
      <4> QED BY <1>5, <3>1, <3>2, <4>1
    <3>3. CASE w # u
      <4>1. Charged(w)' = Charged(w)
        BY <1>1, <1>4, <3>3, ChargedAfter DEF u
      <4> QED BY <1>5, <3>1, <3>3, <4>1
    <3> QED BY <3>2, <3>3
  <2> QED BY <1>5, <2>1, <2>3, <2>4 DEF BoostInv, LedgerOfRuns
<1> QED BY <1>1, <1>6, <1>7, <1>8, TakenOnce DEF BoostInv

LEMMA BoostStepKeeps ==
  ASSUME BoostInv, [BoostNext]_boostVars
  PROVE  BoostInv'
<1>1. ASSUME NEW r \in Runs,
             \/ UpsertBuilds(r) \/ UpsertThrows(r) \/ GrantBuilds(r) \/ ActivateBuilds(r)
             \/ /\ \/ Start(r) \/ Send(r) \/ Confirm(r) \/ SeeRefusal(r) \/ GiveUp(r)
                   \/ Break(r) \/ LoseTouch(r) \/ Refuse(r)
                /\ UNCHANGED <<ledgerVars, sent, charged>>
      PROVE  BoostInv'
  <2>1. UNCHANGED <<ledgerVars, charged>>
    BY <1>1 DEF UpsertBuilds, UpsertThrows, GrantBuilds, ActivateBuilds, Builds
  <2> QED BY <1>1, <2>1, ScriptStepKeeps
<1>2. ASSUME NEW r \in Runs, UpsertLands(r) \/ GrantLands(r) \/ ActivateLands(r) PROVE BoostInv'
  BY <1>2, UpsertLandsKeeps, GrantLandsKeeps, ActivateLandsKeeps
<1>3. CASE NextBlock /\ UNCHANGED <<ledgerVars, sent, charged>>
  BY <1>3, BlockKeeps
<1>4. ASSUME NEW t \in Times, PassTime(t), UNCHANGED <<ledger, stage, tx, sent, charged>>
      PROVE  BoostInv'
  BY <1>4, ClockKeeps
<1>5. CASE UNCHANGED boostVars
  <2>1. LedgerInv'
    <3>1. [LedgerNext]_ledgerVars
      BY <1>5 DEF boostVars
    <3> QED BY <3>1, LedgerKeepsInv DEF BoostInv
  <2>2. TxTypeOK' /\ SentAsBuilt'
    BY <1>5 DEF boostVars, BoostInv, TxTypeOK, SentAsBuilt, IsPrepared
  <2>3. LedgerOfRuns' /\ PublishedByRuns'
    <3>1. UNCHANGED <<boostConfigs, granted, pointsSpent, charged, tx, sent>>
      BY <1>5 DEF boostVars, ledgerVars, ledger, playerVars
    <3> QED BY <3>1, NothingLands
  <2> QED BY <2>1, <2>2, <2>3 DEF BoostInv
<1> QED BY <1>1, <1>2, <1>3, <1>4, <1>5 DEF BoostNext

LEMMA BoostInvariant == BoostSpec => []BoostInv
<1>1. BoostInv /\ [BoostNext]_boostVars => BoostInv'
  BY BoostStepKeeps
<1> QED BY <1>1, BoostInvInit, PTL DEF BoostSpec

-----------------------------------------------------------------------------
(***************************************************************************)
(* Theorems.                                                               *)
(***************************************************************************)
\* Behind the scripts too the points balance, and a ticket pays for one run.
THEOREM LedgerBehindScripts == BoostSpec => [](PointsBalance /\ TicketsUsedOnce)
<1>1. BoostInv => PointsBalance /\ TicketsUsedOnce
  BY DEF BoostInv, LedgerInv
<1> QED BY <1>1, BoostInvariant, PTL

\* What a player holds and what the landed activations have cost when they
\* landed is what the landed awards have added, or as much of it as the counter
\* can show: each run counts once, however often the scripts are started and
\* whatever they report.
THEOREM ChargedOnce == BoostSpec => []ChargedOncePerRun
<1>1. ASSUME BoostInv PROVE ChargedOncePerRun
  <2> SUFFICES ASSUME NEW u \in Users
               PROVE  LET had == accounts[u].boost_points + SumFunction(Charged(u))
                      IN  /\ MinOf(SumFunction(Added(u)), U64Max) <= had
                          /\ had <= SumFunction(Added(u))
    <3>1. ASSUME NEW u \in Users
          PROVE  /\ RunsFor(u, GrantRuns) = {r \in Landed({"grant-boost-points.ts", "create-user.ts"}) :
                                                 Jobs[r].user = u}
                 /\ RunsFor(u, BuyRuns) = {r \in Landed({"activate-boost.ts"}) : Jobs[r].user = u}
      BY DEF RunsFor, GrantRuns, BuyRuns, Landed
    <3> QED BY <3>1 DEF ChargedOncePerRun, Added, Charged
  <2>1. granted[u] = SumFunction(Added(u)) /\ pointsSpent[u] = SumFunction(Charged(u))
    BY <1>1 DEF BoostInv, LedgerOfRuns
  <2> QED BY <1>1, <2>1 DEF BoostInv, LedgerInv, PointsBalance
<1> QED BY <1>1, BoostInvariant, PTL

\* What SoldAsPublished says of one activation that lands.
Sold(r) ==
  LET bought == Last(accounts'[Jobs[r].user].active_boosts) IN
  \E q \in Landed({"upsert-boost.ts"}) :
    LET offer == Jobs[q].offer IN
    /\ Jobs[q].boostId = Jobs[r].boostId
    /\ charged'[r] = offer.cost_boost_points
    /\ bought.kind = offer.kind /\ bought.value_bps = offer.value_bps
    /\ bought.rig_id = offer.rig_id
    /\ bought.expires_at_ts =
         IF offer.duration_seconds > 0 THEN now + offer.duration_seconds ELSE 0

\* A transaction that buys is taken by no other step than its own.
LEMMA OnlyItsOwnStep ==
  ASSUME BoostInv, [BoostNext]_boostVars, NEW r \in BuyRuns,
         tx[r].status = "pending", tx'[r].status = "landed"
  PROVE  ActivateLands(r)
<1>1. TxTypeOK /\ r \in Runs
  BY KindsOfRuns DEF BoostInv
<1>2. ASSUME NEW q \in Runs,
             \/ UpsertBuilds(q) \/ UpsertThrows(q) \/ GrantBuilds(q) \/ ActivateBuilds(q)
             \/ Start(q) \/ Send(q) \/ Confirm(q) \/ SeeRefusal(q) \/ GiveUp(q)
             \/ Break(q) \/ LoseTouch(q) \/ Refuse(q)
      PROVE  FALSE
  BY <1>1, <1>2
  DEF TxTypeOK, UpsertBuilds, UpsertThrows, GrantBuilds, ActivateBuilds, Builds, Build, Start,
      Send, Confirm, SeeRefusal, GiveUp, Break, LoseTouch, Refuse, Goes, IsOpen
<1>3. ASSUME NEW q \in Runs, UpsertLands(q) \/ GrantLands(q) PROVE FALSE
  <2>1. q # r
    BY <1>3 DEF UpsertLands, GrantLands, BuyRuns, Of
  <2>2. tx'[r] = tx[r]
    BY <1>1, <1>3, <2>1, TakenOnce DEF UpsertLands, GrantLands
  <2> QED BY <2>2
<1>4. ASSUME NEW q \in Runs, ActivateLands(q) PROVE q = r
  BY <1>1, <1>4, TakenOnce DEF ActivateLands
<1>5. ~ NextBlock
  BY <1>1 DEF TxTypeOK, NextBlock
<1>6. tx' # tx
  OBVIOUS
<1> QED BY <1>2, <1>3, <1>4, <1>5, <1>6 DEF BoostNext, boostVars

\* What an activation buys when it is taken is a whole publication under its id.
LEMMA SoldWhenTaken ==
  ASSUME \A r \in BuyRuns : Jobs[r].boostId \in 0 .. U8Max,
         BoostInv, NEW r \in BuyRuns, ActivateLands(r)
  PROVE  Sold(r)
<1> DEFINE id == Sdk!AccountsOf(sent[r]).boost_config[2]
           bought == Activated(boostConfigs[id])
<1>1. /\ r \in Runs /\ Jobs[r].user \in Users /\ Taken(r) /\ LedgerActivate(Jobs[r].user, id)
      /\ charged' = [charged EXCEPT ![r] = boostConfigs[id].cost_boost_points]
  BY KindsOfRuns, BoostJobsAssumption DEF ActivateLands
<1>2. id \in BoostIds /\ boostConfigs[id] # NoOffer /\ id = Jobs[r].boostId
  BY <1>1, TakenOnce, BoughtIsPublished, BoostJobsAssumption
<1>3. PICK q \in PublishRuns : /\ tx[q].status = "landed"
                               /\ Jobs[q].boostId = id /\ boostConfigs[id] = Jobs[q].offer
  BY <1>2 DEF BoostInv, PublishedByRuns
<1>4. ActivateBoost(Jobs[r].user, id) /\ PlayerTypeOK
  BY <1>1 DEF LedgerActivate, BoostInv, LedgerInv
<1>5. /\ LiveBoosts(Jobs[r].user) \in Seq(ActiveBoost) /\ bought \in ActiveBoost
      /\ accounts \in [Users -> Account]
  BY <1>1, <1>2, <1>4, BoostsOf, ActivatedType DEF PlayerTypeOK
<1> HIDE DEF id
<1>6. accounts'[Jobs[r].user].active_boosts = Append(LiveBoosts(Jobs[r].user), bought)
  BY <1>1, <1>4, <1>5 DEF ActivateBoost, Account
<1> HIDE DEF bought
<1>7. Last(accounts'[Jobs[r].user].active_boosts) = bought
  BY <1>5, <1>6, AppendProperties DEF Last
<1>8. charged'[r] = boostConfigs[id].cost_boost_points
  BY <1>1 DEF BoostInv, LedgerOfRuns
<1>9. q \in Landed({"upsert-boost.ts"})
  BY <1>3 DEF Landed, PublishRuns
<1> QED BY <1>2, <1>3, <1>7, <1>8, <1>9 DEF Sold, Activated, bought

\* As long as the ids that are asked for fit the byte of the address
\* (findBoostConfig cuts them), an activation gets the boost of one publication
\* for the price of the same one, under the id it asked for, whatever is
\* published while it is on its way.
THEOREM SoldAsIs ==
  ASSUME \A r \in BuyRuns : Jobs[r].boostId \in 0 .. U8Max
  PROVE  BoostSpec => SoldAsPublished
<1>1. BoostInv /\ [BoostNext]_boostVars =>
        [\A r \in BuyRuns :
           tx[r].status = "pending" /\ tx'[r].status = "landed" => Sold(r)]_boostVars
  BY OnlyItsOwnStep, SoldWhenTaken
<1> QED BY <1>1, BoostInvariant, PTL DEF BoostSpec, SoldAsPublished, Sold, BuyRuns
=============================================================================
