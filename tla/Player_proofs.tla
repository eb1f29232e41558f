--------------------------- MODULE Player_proofs ---------------------------
(***************************************************************************)
(* Theorems about PlayerAccount and PlayerAudit.  What a boost is good for *)
(* is a matter of lists that are filtered, appended to and shortened by    *)
(* one; the lemmas on Kept in DataLemmas say what each of the three does   *)
(* to the tickets and to the other boosts that are alive.                  *)
(***************************************************************************)
EXTENDS PlayerAudit, DataLemmas

(***************************************************************************)
(* What the boosts make of a reward.                                       *)
(***************************************************************************)

\* One boost scales a natural number to a natural number.
LEMMA ScaledIsNat ==
  ASSUME NEW a \in Nat, NEW b \in Nat
  PROVE  MinOf(a * b, U128Max) \div BPS \in Nat
<1>1. a * b \in Nat
  OBVIOUS
<1>2. MinOf(a * b, U128Max) \in Nat
  BY <1>1, WidthAssumption DEF MinOf
<1> HIDE DEF MinOf
<1> QED BY <1>2, ScaleAssumption

\* So do all boosts one after the other.
LEMMA BoostedIsNat ==
  ASSUME NEW base \in Nat, NEW values \in Seq(Nat)
  PROVE  Boosted(base, values) \in Nat
<1> DEFINE k == Len(values)
           Next(g, n) == IF n = 0 THEN base
                         ELSE MinOf(g[n - 1] * values[n], U128Max) \div BPS
           Defines(g, m) == g = [n \in 0 .. m |-> Next(g, n)]
           result == CHOOSE g : Defines(g, k)
<1>1. Boosted(base, values) = result[k]
  BY DEF Boosted
<1>2. k \in Nat
  BY LenProperties
<1>3. \E g : Defines(g, k)
  <2> DEFINE T == {m \in Nat : \E g : Defines(g, m)}
  <2>1. 0 \in T
    <3>1. Defines([n \in 0 .. 0 |-> base], 0)
      OBVIOUS
    <3> QED BY <3>1
  <2>2. ASSUME NEW m \in Nat, m \in T PROVE m + 1 \in T
    <3>1. PICK g : Defines(g, m)
      BY <2>2
    <3> DEFINE h == [n \in 0 .. m + 1 |-> IF n <= m THEN g[n] ELSE Next(g, m + 1)]
    <3>2. ASSUME NEW n \in 0 .. m + 1 PROVE h[n] = Next(h, n)
      <4>1. CASE n = 0
        BY <3>1, <4>1
      <4>2. CASE n # 0 /\ n <= m
        <5>1. h[n] = g[n] /\ h[n - 1] = g[n - 1]
          BY <4>2
        <5>2. g[n] = Next(g, n)
          BY <3>1, <4>2
        <5> QED BY <4>2, <5>1, <5>2
      <4>3. CASE n = m + 1
        <5>1. h[n - 1] = g[m] /\ n - 1 = m /\ n # 0 /\ ~ n <= m
          BY <4>3
        <5> QED BY <4>3, <5>1
      <4> QED BY <4>1, <4>2, <4>3
    <3>3. h = [n \in 0 .. m + 1 |-> h[n]]
      OBVIOUS
    <3>4. Defines(h, m + 1)
      <4> HIDE DEF h, Next
      <4> QED BY <3>2, <3>3
    <3>5. \E f : Defines(f, m + 1)
      BY <3>4
    <3> HIDE DEF Defines
    <3> QED BY <3>5
  <2>3. Nat \subseteq T
    <3> HIDE DEF T
    <3> QED BY <2>1, <2>2, NatsIn
  <2> QED BY <1>2, <2>3
<1>4. Defines(result, k)
  BY <1>3
<1>5. \A n \in 0 .. k : result[n] = Next(result, n)
  <2> HIDE DEF result, Next
  <2> QED BY <1>4
<1> HIDE DEF result
<1>6. \A n \in 0 .. k : result[n] \in Nat
  <2> DEFINE T == {n \in Nat : n <= k => result[n] \in Nat}
  <2>1. 0 \in T
    BY <1>2, <1>5
  <2>2. ASSUME NEW n \in Nat, n \in T PROVE n + 1 \in T
    <3> SUFFICES ASSUME n + 1 <= k PROVE result[n + 1] \in Nat
      OBVIOUS
    <3>1. n + 1 \in 0 .. k /\ n + 1 # 0 /\ n + 1 - 1 = n /\ n + 1 \in 1 .. k
      BY <1>2
    <3>2. result[n] \in Nat /\ values[n + 1] \in Nat
      BY <1>2, <2>2, <3>1, ElementOfSeq
    <3>3. result[n + 1] = MinOf(result[n] * values[n + 1], U128Max) \div BPS
      BY <1>5, <3>1
    <3> QED BY <3>2, <3>3, ScaledIsNat
  <2> HIDE DEF T
  <2>3. Nat \subseteq T
    BY <2>1, <2>2, NatsIn
  <2> QED BY <1>2, <2>3 DEF T
<1> QED BY <1>1, <1>2, <1>6

\* The clamp brings them back into a u64.
LEMMA ClampedType ==
  ASSUME NEW base \in Nat, NEW values \in Seq(Nat)
  PROVE  ClampedBoost(base, values) \in 0 .. U64Max
BY BoostedIsNat, WidthAssumption DEF ClampedBoost, MinOf
-----------------------------------------------------------------------------
(***************************************************************************)
(* Lists of boosts.                                                        *)
(***************************************************************************)

\* The values of a list of boosts are a list of u16.
LEMMA ValuesType ==
  ASSUME NEW boosts \in Seq(ActiveBoost), NEW kind, NEW t
  PROVE  ValuesOf(boosts, kind, t) \in Seq(0 .. U16Max) /\ ValuesOf(boosts, kind, t) \in Seq(Nat)
<1> DEFINE P == {b \in Alive(t) : b.kind = kind}
           counts == Kept(boosts, P)
<1>1. counts \in Seq(ActiveBoost)
  <2> HIDE DEF P
  <2> QED BY KeptType
<1>2. Len(counts) \in Nat /\ DOMAIN counts = 1 .. Len(counts)
  BY <1>1, LenProperties
<1>3. \A i \in DOMAIN counts : counts[i].value_bps \in 0 .. U16Max
  <2>1. ASSUME NEW i \in DOMAIN counts PROVE counts[i].value_bps \in 0 .. U16Max
    <3>1. counts[i] \in ActiveBoost
      BY <1>1, <1>2, ElementOfSeq
    <3> QED BY <3>1 DEF ActiveBoost
  <2> QED BY <2>1
<1> HIDE DEF counts
<1>4. /\ [i \in 1 .. Len(counts) |-> counts[i].value_bps] \in Seq(0 .. U16Max)
      /\ [i \in 1 .. Len(counts) |-> counts[i].value_bps] \in Seq(Nat)
  <2>1. \A i \in 1 .. Len(counts) : counts[i].value_bps \in Nat
    BY <1>2, <1>3, WidthAssumption
  <2> QED BY <1>2, <1>3, <2>1
<1>5. ValuesOf(boosts, kind, t) = [i \in DOMAIN counts |-> counts[i].value_bps]
  BY DEF ValuesOf, counts
<1> QED BY <1>2, <1>4, <1>5

\* What is alive is a list of boosts again, not longer.
LEMMA PurgeType ==
  ASSUME NEW boosts \in Seq(ActiveBoost), NEW t
  PROVE  PurgeExpired(boosts, t) \in Seq(ActiveBoost) /\ Len(PurgeExpired(boosts, t)) <= Len(boosts)
<1> DEFINE P == Alive(t)
<1> HIDE DEF P
<1>1. Kept(boosts, P) \in Seq(ActiveBoost) /\ Len(Kept(boosts, P)) <= Len(boosts)
  BY KeptType
<1> QED BY <1>1 DEF PurgeExpired, P

\* A run takes the first ticket, if there is one.
LEMMA TicketTaken ==
  ASSUME NEW boosts \in Seq(ActiveBoost), NEW r, NEW t, Tickets(boosts, r, t) # {}
  PROVE  \E i \in 1 .. Len(boosts) :
           /\ WithoutTicket(boosts, r, t) = RemoveAt(boosts, i)
           /\ boosts[i] \in {b \in Alive(t) : b.kind = "FreeRigTicket"}
<1> DEFINE i == Min(Tickets(boosts, r, t))
<1>1. DOMAIN boosts = 1 .. Len(boosts) /\ Len(boosts) \in Nat
  BY LenProperties
<1>2. Tickets(boosts, r, t) \subseteq 1 .. Len(boosts)
  BY <1>1 DEF Tickets
<1>3. i \in Tickets(boosts, r, t)
  BY <1>1, <1>2, MinIsMember
<1>4. boosts[i] \in ActiveBoost
  BY <1>2, <1>3, ElementOfSeq
<1>5. boosts[i] \in {b \in Alive(t) : b.kind = "FreeRigTicket"}
  BY <1>3, <1>4 DEF Tickets, Alive
<1>6. WithoutTicket(boosts, r, t) = RemoveAt(boosts, i)
  BY DEF WithoutTicket
<1> QED BY <1>2, <1>3, <1>5, <1>6
\* Dropping what has expired leaves what is counted among the living as it is.
LEMMA PurgeKeeps ==
  ASSUME NEW boosts \in Seq(ActiveBoost), NEW t, NEW P, P \subseteq Alive(t)
  PROVE  Kept(PurgeExpired(boosts, t), P) = Kept(boosts, P)
<1> DEFINE Q == Alive(t)
<1>1. Q \cap P = P
  OBVIOUS
<1> HIDE DEF Q
<1>2. Kept(Kept(boosts, Q), P) = Kept(boosts, Q \cap P)
  BY KeptTwice
<1> QED BY <1>1, <1>2 DEF PurgeExpired, Q

\* A run with a ticket has one ticket less after it; nothing else is gone.
LEMMA RunTakesOne ==
  ASSUME NEW boosts \in Seq(ActiveBoost), NEW r, NEW t
  PROVE  LET after == WithoutTicket(boosts, r, t) IN
         /\ after \in Seq(ActiveBoost) /\ Len(after) <= Len(boosts)
         /\ LiveOthers(after, t) = LiveOthers(boosts, t)
         /\ Len(LiveTickets(boosts, t)) =
              Len(LiveTickets(after, t)) + IF Tickets(boosts, r, t) # {} THEN 1 ELSE 0
<1> DEFINE after == WithoutTicket(boosts, r, t)
           P == {b \in Alive(t) : b.kind = "FreeRigTicket"}
           Q == {b \in Alive(t) : b.kind # "FreeRigTicket"}
<1>1. CASE Tickets(boosts, r, t) = {}
  <2>1. after = boosts
    BY <1>1 DEF WithoutTicket
  <2>2. Len(boosts) \in Nat /\ Len(LiveTickets(boosts, t)) \in Nat
    <3> HIDE DEF P
    <3>1. Kept(boosts, P) \in Seq(ActiveBoost)
      BY KeptType
    <3> QED BY <3>1, LenProperties DEF LiveTickets, P
  <2> QED BY <1>1, <2>1, <2>2
<1>2. CASE Tickets(boosts, r, t) # {}
  <2>1. PICK i \in 1 .. Len(boosts) : after = RemoveAt(boosts, i) /\ boosts[i] \in P
    BY <1>2, TicketTaken
  <2>2. boosts[i] \notin Q
    BY <2>1
  <2> HIDE DEF P, Q, after
  <2>3. Len(Kept(boosts, P)) = Len(Kept(RemoveAt(boosts, i), P)) + IF boosts[i] \in P THEN 1 ELSE 0
    BY KeptRemove
  <2>4. boosts[i] \notin Q => Kept(RemoveAt(boosts, i), Q) = Kept(boosts, Q)
    BY KeptRemove
  <2>5. after \in Seq(ActiveBoost) /\ Len(after) + 1 = Len(boosts) /\ Len(after) \in Nat
    BY <2>1, RemoveLen, LenProperties
  <2> QED BY <1>2, <2>1, <2>2, <2>3, <2>4, <2>5 DEF LiveTickets, LiveOthers, P, Q, after
<1> QED BY <1>1, <1>2

\* A list of kept boosts begins with itself, whatever is appended.
LEMMA PrefixOfLonger ==
  ASSUME NEW s \in Seq(ActiveBoost), NEW e \in ActiveBoost
  PROVE  IsPrefix(s, s) /\ IsPrefix(s, Append(s, e))
<1>1. Len(s) \in Nat /\ Append(s, e) \in Seq(ActiveBoost) /\ Len(Append(s, e)) = Len(s) + 1
  BY AppendProperties, LenProperties
<1>2. \A i \in 1 .. Len(s) : Append(s, e)[i] = s[i]
  BY AppendProperties
<1>3. SubSeq(s, 1, Len(s)) = SubSeq(Append(s, e), 1, Len(s))
  BY <1>1, <1>2 DEF SubSeq
<1> QED BY <1>1, <1>3 DEF IsPrefix

\* One more boost: the others that are alive are continued, and there is one
\* ticket more at most, if it is a ticket.
LEMMA OneMore ==
  ASSUME NEW boosts \in Seq(ActiveBoost), NEW e \in ActiveBoost, NEW t
  PROVE  /\ IsPrefix(LiveOthers(boosts, t), LiveOthers(Append(boosts, e), t))
         /\ Len(LiveTickets(Append(boosts, e), t)) \in
              Len(LiveTickets(boosts, t)) ..
                Len(LiveTickets(boosts, t)) + IF e.kind = "FreeRigTicket" THEN 1 ELSE 0
<1> DEFINE P == {b \in Alive(t) : b.kind = "FreeRigTicket"}
           Q == {b \in Alive(t) : b.kind # "FreeRigTicket"}
<1>1. e \in P => e.kind = "FreeRigTicket"
  OBVIOUS
<1> HIDE DEF P, Q
<1>2. Kept(Append(boosts, e), P) = IF e \in P THEN Append(Kept(boosts, P), e) ELSE Kept(boosts, P)
  BY KeptStep
<1>3. Kept(Append(boosts, e), Q) = IF e \in Q THEN Append(Kept(boosts, Q), e) ELSE Kept(boosts, Q)
  BY KeptStep
<1>4. Kept(boosts, P) \in Seq(ActiveBoost) /\ Kept(boosts, Q) \in Seq(ActiveBoost)
  BY KeptType
<1>5. IsPrefix(Kept(boosts, Q), Kept(Append(boosts, e), Q))
  BY <1>3, <1>4, PrefixOfLonger
<1>6. Len(Kept(boosts, P)) \in Nat
  BY <1>4, LenProperties
<1>7. Len(Append(Kept(boosts, P), e)) = Len(Kept(boosts, P)) + 1
  BY <1>4, AppendProperties
<1>8. Len(Kept(Append(boosts, e), P)) \in
        Len(Kept(boosts, P)) .. Len(Kept(boosts, P)) + IF e.kind = "FreeRigTicket" THEN 1 ELSE 0
  BY <1>1, <1>2, <1>6, <1>7
<1> QED BY <1>5, <1>8 DEF LiveTickets, LiveOthers, P, Q
-----------------------------------------------------------------------------
(***************************************************************************)
(* The accounts keep their types.                                          *)
(***************************************************************************)

LEMMA SatAddType ==
  ASSUME NEW a \in Nat, NEW b \in Nat, NEW max \in Nat
  PROVE  SatAdd(a, b, max) \in 0 .. max
BY DEF SatAdd, MinOf

\* A player's list of boosts, before and after the purge.
LEMMA BoostsOf ==
  ASSUME PlayerTypeOK, NEW u \in Users
  PROVE  /\ accounts[u] \in Account
         /\ accounts[u].active_boosts \in Seq(ActiveBoost)
         /\ Len(accounts[u].active_boosts) <= MaxActiveBoosts
         /\ LiveBoosts(u) \in Seq(ActiveBoost)
         /\ Len(LiveBoosts(u)) <= MaxActiveBoosts
<1>1. accounts[u] \in Account
  BY DEF PlayerTypeOK
<1>2. /\ accounts[u].active_boosts \in Seq(ActiveBoost)
      /\ Len(accounts[u].active_boosts) <= MaxActiveBoosts
  BY <1>1 DEF Account
<1>3. /\ LiveBoosts(u) \in Seq(ActiveBoost)
      /\ Len(LiveBoosts(u)) <= Len(accounts[u].active_boosts)
  BY <1>2, PurgeType DEF LiveBoosts
<1>4. Len(LiveBoosts(u)) \in Nat /\ Len(accounts[u].active_boosts) \in Nat
  BY <1>2, <1>3, LenProperties
<1> QED BY <1>1, <1>2, <1>3, <1>4, PlayerAssumption

\* What an offer becomes in the list.
LEMMA ActivatedType ==
  ASSUME PlayerTypeOK, NEW id \in BoostIds, boostConfigs[id] # NoOffer
  PROVE  /\ boostConfigs[id] \in Published /\ Activated(boostConfigs[id]) \in ActiveBoost
         /\ Activated(boostConfigs[id]).kind = boostConfigs[id].kind
<1>1. boostConfigs[id] \in Published
  BY DEF PlayerTypeOK
<1>2. now \in Nat
  BY DEF PlayerTypeOK
<1> QED BY <1>1, <1>2 DEF Published, Activated, ActiveBoost

\* What a run adds to an account fits its field.
LEMMA RunType ==
  ASSUME PlayerTypeOK, NEW u \in Users, NEW r \in RigIds, NEW base \in Nat
  PROVE  /\ BoostsAfterRun(u, r) \in Seq(ActiveBoost)
         /\ Len(BoostsAfterRun(u, r)) <= MaxActiveBoosts
         /\ Deposit(u, r) \in Nat
         /\ RunReward(u, r, base) \in 0 .. U64Max
         /\ RunPoints(u, r) \in 0 .. U64Max
<1>1. LiveBoosts(u) \in Seq(ActiveBoost) /\ Len(LiveBoosts(u)) <= MaxActiveBoosts
  BY BoostsOf
<1>2. /\ BoostsAfterRun(u, r) \in Seq(ActiveBoost)
      /\ Len(BoostsAfterRun(u, r)) <= Len(LiveBoosts(u))
  BY <1>1, RunTakesOne DEF BoostsAfterRun
<1>3. Len(BoostsAfterRun(u, r)) <= MaxActiveBoosts
  <2>1. Len(LiveBoosts(u)) \in Nat /\ Len(BoostsAfterRun(u, r)) \in Nat
    BY <1>1, <1>2, LenProperties
  <2> QED BY <1>1, <1>2, <2>1, PlayerAssumption
<1>4. Deposit(u, r) \in Nat
  BY PlayerAssumption DEF Deposit
<1>5. \A kind : ValuesOf(BoostsAfterRun(u, r), kind, now) \in Seq(Nat)
  BY <1>2, ValuesType
<1>6. RunReward(u, r, base) \in 0 .. U64Max
  BY <1>5, ClampedType DEF RunReward
<1>7. MiningPoints[r] \in Nat
  BY PlayerAssumption
<1>8. RunPoints(u, r) \in 0 .. U64Max
  BY <1>5, <1>7, ClampedType DEF RunPoints
<1> QED BY <1>2, <1>3, <1>4, <1>6, <1>8

\* One account replaced by one of the type.
LEMMA OneAccount ==
  ASSUME PlayerTypeOK, NEW u \in Users, NEW a \in Account,
         accounts' = [accounts EXCEPT ![u] = a], UNCHANGED <<now, boostConfigs>>
  PROVE  PlayerTypeOK'
<1>1. accounts' \in [Users -> Account]
  BY DEF PlayerTypeOK
<1> QED BY <1>1 DEF PlayerTypeOK

\* A run.
LEMMA MineType ==
  ASSUME PlayerTypeOK, NEW u \in Users, NEW r \in RigIds,
         NEW base \in Nat, NEW high \in Nat, Mine(u, r, base, high)
  PROVE  PlayerTypeOK'
<1> DEFINE a == accounts[u]
           crit == IF IsCrit(u, r, base, high) THEN SatAdd(a.mining_crit_count, 1, U64Max)
                   ELSE a.mining_crit_count
           b == [a EXCEPT
                   !.active_boosts = BoostsAfterRun(u, r),
                   !.mining_xnt_spent = SatAdd(a.mining_xnt_spent, Deposit(u, r), U64Max),
                   !.daily_points = SatAdd(a.daily_points, RunPoints(u, r) % (U32Max + 1), U32Max),
                   !.lifetime_points = SatAdd(a.lifetime_points, RunPoints(u, r), U64Max),
                   !.mining_tokens_mined = SatAdd(a.mining_tokens_mined, RunReward(u, r, base), U64Max),
                   !.mining_runs_by_rig = [a.mining_runs_by_rig EXCEPT ![r] = SatAdd(a.mining_runs_by_rig[r], 1, U64Max)],
                   !.mining_crit_count = crit]
<1>1. a \in Account
  BY BoostsOf
<1>2. /\ BoostsAfterRun(u, r) \in Seq(ActiveBoost)
      /\ Len(BoostsAfterRun(u, r)) <= MaxActiveBoosts
      /\ Deposit(u, r) \in Nat /\ RunReward(u, r, base) \in Nat /\ RunPoints(u, r) \in Nat
  BY RunType, WidthAssumption
<1>3. /\ a.daily_points \in Nat /\ a.lifetime_points \in Nat /\ a.mining_xnt_spent \in Nat
      /\ a.mining_tokens_mined \in Nat /\ a.mining_crit_count \in 0 .. U64Max
      /\ a.mining_runs_by_rig \in [RigIds -> 0 .. U64Max] /\ U32Max \in Nat /\ U64Max \in Nat
  BY <1>1, WidthAssumption DEF Account
<1>4. RunPoints(u, r) % (U32Max + 1) \in Nat
  BY <1>2, <1>3
<1>5. SatAdd(a.mining_xnt_spent, Deposit(u, r), U64Max) \in 0 .. U64Max
  BY <1>2, <1>3, SatAddType
<1>6. SatAdd(a.daily_points, RunPoints(u, r) % (U32Max + 1), U32Max) \in 0 .. U32Max
  BY <1>3, <1>4, SatAddType
<1>7. SatAdd(a.lifetime_points, RunPoints(u, r), U64Max) \in 0 .. U64Max
  BY <1>2, <1>3, SatAddType
<1>8. SatAdd(a.mining_tokens_mined, RunReward(u, r, base), U64Max) \in 0 .. U64Max
  BY <1>2, <1>3, SatAddType
<1>9. [a.mining_runs_by_rig EXCEPT ![r] = SatAdd(a.mining_runs_by_rig[r], 1, U64Max)]
        \in [RigIds -> 0 .. U64Max]
  <2>1. a.mining_runs_by_rig[r] \in Nat
    BY <1>3
  <2>2. SatAdd(a.mining_runs_by_rig[r], 1, U64Max) \in 0 .. U64Max
    BY <1>3, <2>1, SatAddType
  <2> QED BY <1>3, <2>2
<1>10. crit \in 0 .. U64Max
  <2>1. a.mining_crit_count \in Nat
    BY <1>3
  <2>2. SatAdd(a.mining_crit_count, 1, U64Max) \in 0 .. U64Max
    BY <1>3, <2>1, SatAddType
  <2> QED BY <1>3, <2>2
<1>11. b \in Account
  <2> HIDE DEF crit
  <2> QED BY <1>1, <1>2, <1>5, <1>6, <1>7, <1>8, <1>9, <1>10 DEF Account
<1>12. accounts' = [accounts EXCEPT ![u] = b]
  BY DEF Mine
<1>13. UNCHANGED <<now, boostConfigs>>
  BY DEF Mine
<1> HIDE DEF b
<1> QED BY <1>11, <1>12, <1>13, OneAccount
\* stake's purge.
LEMMA PurgeForStakeType ==
  ASSUME PlayerTypeOK, NEW u \in Users, PurgeForStake(u)
  PROVE  PlayerTypeOK'
<1> DEFINE a == [accounts[u] EXCEPT !.active_boosts = LiveBoosts(u)]
<1>1. a \in Account
  BY BoostsOf DEF Account
<1>2. accounts' = [accounts EXCEPT ![u] = a] /\ UNCHANGED <<now, boostConfigs>>
  BY DEF PurgeForStake
<1> HIDE DEF a
<1> QED BY <1>1, <1>2, OneAccount

\* Points awarded.
LEMMA RankingType ==
  ASSUME PlayerTypeOK, NEW u \in Users, NEW points \in Nat, ApplyRankingResults(u, points)
  PROVE  PlayerTypeOK'
<1> DEFINE a == [accounts[u] EXCEPT
                   !.boost_points = SatAdd(accounts[u].boost_points, points, U64Max)]
<1>1. accounts[u] \in Account
  BY BoostsOf
<1>2. SatAdd(accounts[u].boost_points, points, U64Max) \in 0 .. U64Max
  <2>1. accounts[u].boost_points \in Nat /\ U64Max \in Nat
    BY <1>1, WidthAssumption DEF Account
  <2> QED BY <2>1, SatAddType
<1>3. a \in Account
  BY <1>1, <1>2 DEF Account
<1>4. accounts' = [accounts EXCEPT ![u] = a] /\ UNCHANGED <<now, boostConfigs>>
  BY DEF ApplyRankingResults
<1> HIDE DEF a
<1> QED BY <1>3, <1>4, OneAccount

\* The points of a day reset.
LEMMA ResetType ==
  ASSUME PlayerTypeOK, NEW u \in Users, NEW day \in Nat, ResetDailyPoints(u, day)
  PROVE  PlayerTypeOK'
<1> DEFINE a == [accounts[u] EXCEPT !.daily_points = 0, !.last_day_id = day]
<1>1. accounts[u] \in Account
  BY BoostsOf
<1>2. a \in Account
  <2>1. 0 \in 0 .. U32Max
    BY WidthAssumption
  <2> QED BY <1>1, <2>1 DEF Account
<1>3. accounts' = [accounts EXCEPT ![u] = a] /\ UNCHANGED <<now, boostConfigs>>
  BY DEF ResetDailyPoints
<1> HIDE DEF a
<1> QED BY <1>2, <1>3, OneAccount

\* A boost bought: the list has a place for it, and the price is no more than
\* the points there are.
LEMMA ActivateType ==
  ASSUME PlayerTypeOK, NEW u \in Users, NEW id \in BoostIds, ActivateBoost(u, id)
  PROVE  PlayerTypeOK'
<1> DEFINE offer == boostConfigs[id]
           bought == Append(LiveBoosts(u), Activated(offer))
           a == [accounts[u] EXCEPT
                   !.boost_points = SatSub(accounts[u].boost_points, offer.cost_boost_points),
                   !.active_boosts = bought]
<1>1. /\ accounts[u] \in Account
      /\ LiveBoosts(u) \in Seq(ActiveBoost) /\ Len(LiveBoosts(u)) \in Nat
  BY BoostsOf, LenProperties
<1>2. /\ offer # NoOffer /\ Len(LiveBoosts(u)) < MaxActiveBoosts
      /\ accounts[u].boost_points >= offer.cost_boost_points
  BY DEF ActivateBoost, CanActivate
<1>3. offer \in Published /\ Activated(offer) \in ActiveBoost
  BY <1>2, ActivatedType
<1>4. bought \in Seq(ActiveBoost) /\ Len(bought) = Len(LiveBoosts(u)) + 1
  BY <1>1, <1>3, AppendProperties
<1>5. Len(bought) <= MaxActiveBoosts
  BY <1>1, <1>2, <1>4, PlayerAssumption
<1>6. SatSub(accounts[u].boost_points, offer.cost_boost_points) \in 0 .. U64Max
  <2>1. accounts[u].boost_points \in 0 .. U64Max /\ offer.cost_boost_points \in 0 .. U64Max
    BY <1>1, <1>3 DEF Account, Published
  <2> QED BY <2>1, <1>2, WidthAssumption DEF SatSub, MaxOf
<1>7. a \in Account
  <2> HIDE DEF bought, offer
  <2> QED BY <1>1, <1>4, <1>5, <1>6 DEF Account
<1>8. accounts' = [accounts EXCEPT ![u] = a] /\ UNCHANGED <<now, boostConfigs>>
  BY DEF ActivateBoost
<1> HIDE DEF a
<1> QED BY <1>7, <1>8, OneAccount

\* Every step of a player, of the admin and of the clock.
LEMMA PlayerKeepsType ==
  ASSUME PlayerTypeOK, [PlayerNext]_playerVars
  PROVE  PlayerTypeOK'
<1>1. ASSUME NEW u \in Users, NEW r \in RigIds, NEW p \in RewardPairs, Mine(u, r, p[1], p[2])
      PROVE  PlayerTypeOK'
  <2>1. p[1] \in Nat /\ p[2] \in Nat
    BY PlayerAssumption
  <2> QED BY <1>1, <2>1, MineType
<1>2. ASSUME NEW u \in Users, PurgeForStake(u) PROVE PlayerTypeOK'
  BY <1>2, PurgeForStakeType
<1>3. ASSUME NEW u \in Users, NEW points \in Grants, ApplyRankingResults(u, points)
      PROVE  PlayerTypeOK'
  <2>1. points \in Nat
    BY PlayerAssumption
  <2> QED BY <1>3, <2>1, RankingType
<1>4. ASSUME NEW u \in Users, NEW day \in DayIds, ResetDailyPoints(u, day)
      PROVE  PlayerTypeOK'
  <2>1. day \in Nat
    BY PlayerAssumption
  <2> QED BY <1>4, <2>1, ResetType
<1>5. ASSUME NEW u \in Users, NEW id \in BoostIds, ActivateBoost(u, id) PROVE PlayerTypeOK'
  BY <1>5, ActivateType
<1>6. ASSUME NEW id \in BoostIds, NEW offer \in BoostOffers, UpsertBoostConfig(id, offer)
      PROVE  PlayerTypeOK'
  BY <1>6, PlayerAssumption DEF UpsertBoostConfig, PlayerTypeOK
<1>7. ASSUME NEW t \in Times, PassTime(t) PROVE PlayerTypeOK'
  BY <1>7, PlayerAssumption DEF PassTime, PlayerTypeOK
<1>8. CASE UNCHANGED playerVars
  BY <1>8 DEF playerVars, PlayerTypeOK
<1> QED BY <1>1, <1>2, <1>3, <1>4, <1>5, <1>6, <1>7, <1>8 DEF PlayerNext

\* Nobody has an account, nothing is published.
LEMMA PlayerInitType == PlayerInit => PlayerTypeOK
<1> SUFFICES ASSUME PlayerInit PROVE PlayerTypeOK
  OBVIOUS
<1>1. NewAccount \in Account
  <2>1. [r \in RigIds |-> 0] \in [RigIds -> 0 .. U64Max]
    BY WidthAssumption
  <2>2. <<>> \in Seq(ActiveBoost) /\ Len(<<>>) <= MaxActiveBoosts
    BY EmptySeq, PlayerAssumption
  <2> QED BY <2>1, <2>2, WidthAssumption DEF NewAccount, Account
<1> QED BY <1>1 DEF PlayerInit, PlayerTypeOK

\* Points and counters keep their widths, however long the program runs, and a
\* list of boosts never outgrows its places, although what has expired is
\* dropped only when the player does something.
THEOREM PlayerTypeCorrect == PlayerSpec => []PlayerTypeOK
<1>1. PlayerInit => PlayerTypeOK
  BY PlayerInitType
<1>2. PlayerTypeOK /\ [PlayerNext]_playerVars => PlayerTypeOK'
  BY PlayerKeepsType
<1> QED BY <1>1, <1>2, PTL DEF PlayerSpec

(***************************************************************************)
(* What a player holds was on offer.  The arena needs it: the pool may be  *)
(* reached only by weights and rewards that published boosts can give.     *)
(***************************************************************************)
Offered ==
  {b \in ActiveBoost : \E offer \in BoostOffers : b.kind = offer.kind /\ b.value_bps = offer.value_bps}
HoldsOffers ==
  /\ \A u \in Users : accounts[u].active_boosts \in Seq(Offered)
  /\ boostConfigs \in [BoostIds -> BoostOffers \cup {NoOffer}]

\* The purge and the run take boosts away only.
LEMMA OfferedAfterRun ==
  ASSUME NEW boosts \in Seq(Offered), NEW r, NEW t
  PROVE  PurgeExpired(boosts, t) \in Seq(Offered) /\ WithoutTicket(boosts, r, t) \in Seq(Offered)
<1>1. Kept(boosts, Alive(t)) \in Seq(Offered)
  <2> DEFINE P == Alive(t)
  <2> HIDE DEF P
  <2>1. Kept(boosts, P) \in Seq(Offered)
    BY KeptType
  <2> QED BY <2>1 DEF P
<1>2. CASE Tickets(boosts, r, t) = {}
  BY <1>1, <1>2 DEF PurgeExpired, WithoutTicket
<1>3. CASE Tickets(boosts, r, t) # {}
  <2>1. boosts \in Seq(ActiveBoost)
    BY DEF Offered
  <2>2. PICK i \in 1 .. Len(boosts) : WithoutTicket(boosts, r, t) = RemoveAt(boosts, i)
    BY <1>3, <2>1, TicketTaken
  <2>3. RemoveAt(boosts, i) \in Seq(Offered)
    BY RemoveLen
  <2> QED BY <1>1, <2>2, <2>3 DEF PurgeExpired
<1> QED BY <1>2, <1>3

\* The values of a kind are values that the offers of that kind have.
OfferedValues(kind) == {offer.value_bps : offer \in {o \in BoostOffers : o.kind = kind}}

LEMMA ValuesOffered ==
  ASSUME NEW boosts \in Seq(Offered), NEW kind, NEW t
  PROVE  /\ Len(ValuesOf(boosts, kind, t)) \in 0 .. Len(boosts)
         /\ ValuesOf(boosts, kind, t)
              \in [1 .. Len(ValuesOf(boosts, kind, t)) -> OfferedValues(kind)]
<1> DEFINE P == {b \in Alive(t) : b.kind = kind}
           counts == Kept(boosts, P)
           values == [i \in 1 .. Len(counts) |-> counts[i].value_bps]
<1>1. counts \in Seq(Offered \cap P) /\ Len(counts) <= Len(boosts)
  <2> HIDE DEF P
  <2> QED BY KeptType
<1>2. Len(counts) \in Nat /\ Len(boosts) \in Nat /\ DOMAIN counts = 1 .. Len(counts)
  BY <1>1, LenProperties
<1>3. ASSUME NEW i \in 1 .. Len(counts) PROVE counts[i].value_bps \in OfferedValues(kind)
  <2>1. counts[i] \in Offered \cap P
    BY <1>1, ElementOfSeq
  <2>2. counts[i] \in Offered /\ counts[i].kind = kind
    BY <2>1
  <2> HIDE DEF counts, P
  <2> QED BY <2>2 DEF Offered, OfferedValues
<1>4. ValuesOf(boosts, kind, t) = values
  <2>1. ValuesOf(boosts, kind, t) = [i \in DOMAIN counts |-> counts[i].value_bps]
    BY DEF ValuesOf
  <2> HIDE DEF counts
  <2> QED BY <1>2, <2>1
<1> HIDE DEF counts
<1>5. values \in [1 .. Len(counts) -> OfferedValues(kind)]
  BY <1>3
<1>6. Len(values) = Len(counts)
  BY <1>2, <1>5, LenProperties
<1> HIDE DEF values
<1> QED BY <1>1, <1>2, <1>4, <1>5, <1>6

\* The weight of a stake is 1, or what the best offer gives if that is more.
LEMMA MultiplierOffered ==
  ASSUME NEW boosts \in Seq(Offered), NEW t
  PROVE  StakingMultiplier(boosts, t)
           \in {MaxOf(BPS, offer.value_bps) : offer \in BoostOffers} \cup {BPS}
<1> DEFINE values == ValuesOf(boosts, "StakingMultiplierBps", t)
           S == {BPS} \cup Range(values)
           m == Max(S)
<1>1. values \in [1 .. Len(values) -> OfferedValues("StakingMultiplierBps")]
  BY ValuesOffered
<1> HIDE DEF values
<1>2. Range(values) \subseteq OfferedValues("StakingMultiplierBps")
  BY <1>1 DEF Range
<1>3. OfferedValues("StakingMultiplierBps") \subseteq 0 .. U16Max
  BY PlayerAssumption DEF OfferedValues, Published
<1>4. S \subseteq 0 .. U16Max /\ BPS \in S /\ U16Max \in Nat
  BY <1>2, <1>3, ScaleAssumption, WidthAssumption
<1>5. m \in S /\ m >= BPS
  <2> HIDE DEF S
  <2> QED BY <1>4, MaxIsMember
<1>6. StakingMultiplier(boosts, t) = m
  BY DEF StakingMultiplier, values
<1> HIDE DEF m
<1>7. CASE m \in Range(values)
  <2>1. PICK offer \in BoostOffers : m = offer.value_bps
    BY <1>2, <1>7 DEF OfferedValues
  <2>2. MaxOf(BPS, m) = m
    BY <1>4, <1>5, ScaleAssumption DEF MaxOf
  <2> QED BY <1>6, <2>1, <2>2
<1> QED BY <1>5, <1>6, <1>7

\* Only activate_boost adds to a list, and what it adds is on offer now.
LEMMA StepHoldsOffers ==
  ASSUME PlayerTypeOK, HoldsOffers, [PlayerNext]_playerVars
  PROVE  HoldsOffers'
<1>1. accounts \in [Users -> Account]
  BY DEF PlayerTypeOK
<1>2. ASSUME NEW w \in Users PROVE accounts'[w].active_boosts \in Seq(Offered)
  <2>1. accounts[w].active_boosts \in Seq(Offered) /\ accounts[w] \in Account
    BY <1>1 DEF HoldsOffers
  <2>2. LiveBoosts(w) \in Seq(Offered)
    BY <2>1, OfferedAfterRun DEF LiveBoosts
  <2>3. \A r : BoostsAfterRun(w, r) \in Seq(Offered)
    BY <2>2, OfferedAfterRun DEF BoostsAfterRun
  <2>4. ASSUME NEW u \in Users, NEW r \in RigIds, NEW base, NEW high, Mine(u, r, base, high)
        PROVE  accounts'[w].active_boosts \in Seq(Offered)
    <3>1. accounts'[w].active_boosts =
            IF w = u THEN BoostsAfterRun(w, r) ELSE accounts[w].active_boosts
      BY <1>1, <2>1, <2>4 DEF Mine, Account
    <3> QED BY <2>1, <2>3, <3>1
  <2>5. ASSUME NEW u \in Users, PurgeForStake(u)
        PROVE  accounts'[w].active_boosts \in Seq(Offered)
    <3>1. accounts'[w].active_boosts = IF w = u THEN LiveBoosts(w) ELSE accounts[w].active_boosts
      BY <1>1, <2>1, <2>5 DEF PurgeForStake, Account
    <3> QED BY <2>1, <2>2, <3>1
  <2>6. ASSUME NEW u \in Users, NEW n, ApplyRankingResults(u, n) \/ ResetDailyPoints(u, n)
        PROVE  accounts'[w].active_boosts \in Seq(Offered)
    <3>1. accounts'[w].active_boosts = accounts[w].active_boosts
      <4>1. CASE ApplyRankingResults(u, n)
        BY <1>1, <2>1, <4>1 DEF ApplyRankingResults, Account
      <4>2. CASE ResetDailyPoints(u, n)
        BY <1>1, <2>1, <4>2 DEF ResetDailyPoints, Account
      <4> QED BY <2>6, <4>1, <4>2
    <3> QED BY <2>1, <3>1
  <2>7. ASSUME NEW u \in Users, NEW id \in BoostIds, ActivateBoost(u, id)
        PROVE  accounts'[w].active_boosts \in Seq(Offered)
    <3> DEFINE e == Activated(boostConfigs[id])
    <3>1. boostConfigs[id] \in BoostOffers /\ boostConfigs[id] # NoOffer
      BY <2>7 DEF HoldsOffers, ActivateBoost, CanActivate
    <3>2. e \in ActiveBoost
      BY <3>1, ActivatedType
    <3>3. e.kind = boostConfigs[id].kind /\ e.value_bps = boostConfigs[id].value_bps
      BY DEF Activated
    <3>4. accounts'[w].active_boosts =
            IF w = u THEN Append(LiveBoosts(w), e) ELSE accounts[w].active_boosts
      BY <1>1, <2>1, <2>7 DEF ActivateBoost, Account
    <3> HIDE DEF e
    <3>5. e \in Offered
      BY <3>1, <3>2, <3>3 DEF Offered
    <3>6. Append(LiveBoosts(w), e) \in Seq(Offered)
      BY <2>2, <3>5, AppendProperties
    <3> QED BY <2>1, <3>4, <3>6
  <2>8. CASE accounts' = accounts
    BY <2>1, <2>8
  <2>9. CASE UNCHANGED playerVars
    BY <2>8, <2>9 DEF playerVars
  <2> QED
    BY <2>4, <2>5, <2>6, <2>7, <2>8, <2>9 DEF PlayerNext, UpsertBoostConfig, PassTime
<1>3. boostConfigs' \in [BoostIds -> BoostOffers \cup {NoOffer}]
  <2>1. \/ boostConfigs' = boostConfigs
        \/ \E id \in BoostIds, offer \in BoostOffers :
             boostConfigs' = [boostConfigs EXCEPT ![id] = offer]
    BY DEF PlayerNext, playerVars, Mine, PurgeForStake, ApplyRankingResults, ResetDailyPoints,
           ActivateBoost, UpsertBoostConfig, PassTime
  <2> QED BY <2>1 DEF HoldsOffers
<1> QED BY <1>2, <1>3 DEF HoldsOffers

\* Whatever the admin publishes and replaces, and whenever players buy: every
\* boost in a list has the kind and value of one that is on offer.
THEOREM OnlyOffered == PlayerSpec => []HoldsOffers
<1>1. PlayerInit => HoldsOffers
  <2> SUFFICES ASSUME PlayerInit PROVE HoldsOffers
    OBVIOUS
  <2>1. \A u \in Users : accounts[u].active_boosts = <<>>
    BY DEF PlayerInit, NewAccount
  <2>2. <<>> \in Seq(Offered)
    BY EmptySeq
  <2> QED BY <2>1, <2>2 DEF PlayerInit, HoldsOffers
<1>2. PlayerTypeOK /\ HoldsOffers /\ [PlayerNext]_playerVars => HoldsOffers'
  BY StepHoldsOffers
<1> QED BY <1>1, <1>2, PlayerTypeCorrect, PTL DEF PlayerSpec
-----------------------------------------------------------------------------
(***************************************************************************)
(* When the purge happens does not matter.                                 *)
(***************************************************************************)

\* There is a ticket for a rig exactly when one is kept by the filter for it.
LEMMA TicketsNone ==
  ASSUME NEW boosts \in Seq(ActiveBoost), NEW r, NEW t
  PROVE  Tickets(boosts, r, t) = {} <=>
           Kept(boosts, {b \in Alive(t) : b.kind = "FreeRigTicket" /\ AppliesToRig(b, r)}) = <<>>
<1> DEFINE P == {b \in Alive(t) : b.kind = "FreeRigTicket" /\ AppliesToRig(b, r)}
<1>1. DOMAIN boosts = 1 .. Len(boosts)
  BY LenProperties
<1>2. ASSUME NEW i \in 1 .. Len(boosts) PROVE boosts[i] \in P <=> i \in Tickets(boosts, r, t)
  <2>1. boosts[i] \in ActiveBoost
    BY ElementOfSeq
  <2> QED BY <1>1, <2>1 DEF Tickets, Alive
<1>3. Tickets(boosts, r, t) \subseteq 1 .. Len(boosts)
  BY <1>1 DEF Tickets
<1> HIDE DEF P
<1>4. Kept(boosts, P) = <<>> <=> \A i \in 1 .. Len(boosts) : boosts[i] \notin P
  BY KeptNone
<1> QED BY <1>2, <1>3, <1>4 DEF P

LEMMA PurgeIsHarmless == PlayerTypeOK => LazyPurgeIsHarmless
<1> SUFFICES ASSUME PlayerTypeOK, NEW u \in Users
             PROVE  LET boosts == accounts[u].active_boosts IN
                    /\ \A kind \in BoostKinds :
                         ValuesOf(boosts, kind, now) = ValuesOf(LiveBoosts(u), kind, now)
                    /\ \A r \in RigIds :
                         (Tickets(boosts, r, now) = {}) = (Tickets(LiveBoosts(u), r, now) = {})
  BY DEF LazyPurgeIsHarmless
<1> DEFINE boosts == accounts[u].active_boosts
<1>1. boosts \in Seq(ActiveBoost) /\ LiveBoosts(u) \in Seq(ActiveBoost)
  BY BoostsOf
<1>2. LiveBoosts(u) = PurgeExpired(boosts, now)
  BY DEF LiveBoosts
<1> HIDE DEF boosts
<1>3. ASSUME NEW kind \in BoostKinds
      PROVE  ValuesOf(boosts, kind, now) = ValuesOf(LiveBoosts(u), kind, now)
  <2> DEFINE P == {b \in Alive(now) : b.kind = kind}
  <2>1. P \subseteq Alive(now)
    OBVIOUS
  <2> HIDE DEF P
  <2>2. Kept(LiveBoosts(u), P) = Kept(boosts, P)
    BY <1>1, <1>2, <2>1, PurgeKeeps
  <2> QED BY <2>2 DEF ValuesOf, P
<1>4. ASSUME NEW r \in RigIds
      PROVE  (Tickets(boosts, r, now) = {}) = (Tickets(LiveBoosts(u), r, now) = {})
  <2> DEFINE P == {b \in Alive(now) : b.kind = "FreeRigTicket" /\ AppliesToRig(b, r)}
  <2>1. P \subseteq Alive(now)
    OBVIOUS
  <2>2. /\ Tickets(boosts, r, now) = {} <=> Kept(boosts, P) = <<>>
        /\ Tickets(LiveBoosts(u), r, now) = {} <=> Kept(LiveBoosts(u), P) = <<>>
    BY <1>1, TicketsNone
  <2> HIDE DEF P
  <2>3. Kept(LiveBoosts(u), P) = Kept(boosts, P)
    BY <1>1, <1>2, <2>1, PurgeKeeps
  <2> QED BY <2>2, <2>3
<1> QED BY <1>3, <1>4 DEF boosts

\* What counts for a run or a stake is the same before and after the purge.
THEOREM PurgeMayWait == PlayerSpec => []LazyPurgeIsHarmless
BY PlayerTypeCorrect, PurgeIsHarmless, PTL
-----------------------------------------------------------------------------
(***************************************************************************)
(* What was bought is kept.                                                *)
(***************************************************************************)

\* What BoostsAreKept says of one player in one step.
Keeps(w) ==
  LET before == accounts[w].active_boosts
      after == accounts'[w].active_boosts
      runs == SumFunction(accounts'[w].mining_runs_by_rig) - RunsOf(w)
  IN
  /\ IsPrefix(LiveOthers(before, now), LiveOthers(after, now))
  /\ Len(LiveTickets(after, now)) >= Len(LiveTickets(before, now)) - runs

\* The runs of a player are a number, and the lists of tickets and other boosts
\* are lists.
LEMMA CountsOf ==
  ASSUME PlayerTypeOK, NEW w \in Users
  PROVE  /\ RunsOf(w) \in Nat
         /\ accounts[w].mining_runs_by_rig \in [RigIds -> Nat]
         /\ \A r \in RigIds : accounts[w].mining_runs_by_rig[r] <= RunsOf(w)
<1>1. accounts[w] \in Account
  BY BoostsOf
<1>2. accounts[w].mining_runs_by_rig \in [RigIds -> Nat]
  BY <1>1, WidthAssumption DEF Account
<1> QED BY <1>2, PlayerAssumption, SumNat, SumMember DEF RunsOf

LEMMA LiveType ==
  ASSUME NEW boosts \in Seq(ActiveBoost), NEW t
  PROVE  /\ LiveTickets(boosts, t) \in Seq(ActiveBoost) /\ Len(LiveTickets(boosts, t)) \in Nat
         /\ LiveOthers(boosts, t) \in Seq(ActiveBoost)
         /\ IsPrefix(LiveOthers(boosts, t), LiveOthers(boosts, t))
<1> DEFINE P == {b \in Alive(t) : b.kind = "FreeRigTicket"}
           Q == {b \in Alive(t) : b.kind # "FreeRigTicket"}
<1> HIDE DEF P, Q
<1>1. Kept(boosts, P) \in Seq(ActiveBoost) /\ Kept(boosts, Q) \in Seq(ActiveBoost)
  BY KeptType
<1>2. Len(Kept(boosts, P)) \in Nat /\ Len(Kept(boosts, Q)) \in Nat
  BY <1>1, LenProperties
<1>3. IsPrefix(Kept(boosts, Q), Kept(boosts, Q))
  BY <1>2 DEF IsPrefix
<1> QED BY <1>1, <1>2, <1>3 DEF LiveTickets, LiveOthers, P, Q

\* The purge keeps the living.
LEMMA PurgeKeepsLiving ==
  ASSUME NEW boosts \in Seq(ActiveBoost), NEW t
  PROVE  /\ LiveTickets(PurgeExpired(boosts, t), t) = LiveTickets(boosts, t)
         /\ LiveOthers(PurgeExpired(boosts, t), t) = LiveOthers(boosts, t)
<1> DEFINE P == {b \in Alive(t) : b.kind = "FreeRigTicket"}
           Q == {b \in Alive(t) : b.kind # "FreeRigTicket"}
<1>1. P \subseteq Alive(t) /\ Q \subseteq Alive(t)
  OBVIOUS
<1> HIDE DEF P, Q
<1>2. /\ Kept(PurgeExpired(boosts, t), P) = Kept(boosts, P)
      /\ Kept(PurgeExpired(boosts, t), Q) = Kept(boosts, Q)
  BY <1>1, PurgeKeeps
<1> QED BY <1>2 DEF LiveTickets, LiveOthers, P, Q

\* A player whose list and runs do not change keeps everything.
LEMMA KeepsSame ==
  ASSUME PlayerTypeOK, NEW w \in Users,
         accounts'[w].active_boosts = accounts[w].active_boosts,
         accounts'[w].mining_runs_by_rig = accounts[w].mining_runs_by_rig
  PROVE  Keeps(w)
<1>1. accounts[w].active_boosts \in Seq(ActiveBoost)
  BY BoostsOf
<1>2. RunsOf(w) \in Nat
  BY CountsOf
<1>3. Len(LiveTickets(accounts[w].active_boosts, now)) \in Nat
  BY <1>1, LiveType
<1>4. SumFunction(accounts'[w].mining_runs_by_rig) - RunsOf(w) = 0
  BY <1>2 DEF RunsOf
<1> QED BY <1>1, <1>3, <1>4, LiveType DEF Keeps

\* A run is counted, and takes the list to what BoostsAfterRun says.
LEMMA RunCounted ==
  ASSUME PlayerTypeOK, NEW u \in Users, NEW r \in RigIds, NEW base, NEW high,
         RunsOf(u) < MaxRuns, Mine(u, r, base, high)
  PROVE  /\ accounts'[u].active_boosts = BoostsAfterRun(u, r)
         /\ SumFunction(accounts'[u].mining_runs_by_rig) = RunsOf(u) + 1
         /\ \A w \in Users \ {u} : accounts'[w] = accounts[w]
<1> DEFINE f == accounts[u].mining_runs_by_rig
           g == [f EXCEPT ![r] = SatAdd(f[r], 1, U64Max)]
<1>1. accounts[u] \in Account /\ accounts \in [Users -> Account]
  BY BoostsOf DEF PlayerTypeOK
<1>2. f \in [RigIds -> Nat] /\ f[r] <= RunsOf(u) /\ RunsOf(u) \in Nat /\ f[r] \in Nat
  BY CountsOf
<1>3. SatAdd(f[r], 1, U64Max) = f[r] + 1
  BY <1>2, PlayerAssumption, WidthAssumption DEF SatAdd, MinOf
<1>4. g \in [RigIds -> Nat] /\ SameBut(f, g, r, RigIds) /\ g[r] = f[r] + 1
  BY <1>2, <1>3 DEF SameBut
<1>5. /\ accounts'[u].mining_runs_by_rig = g
      /\ accounts'[u].active_boosts = BoostsAfterRun(u, r)
      /\ \A w \in Users \ {u} : accounts'[w] = accounts[w]
  BY <1>1 DEF Mine, Account
<1> HIDE DEF g
<1>6. SumFunction(g) = SumFunction(f) - f[r] + g[r]
  BY <1>2, <1>4, PlayerAssumption, SumUpdate
<1>7. SumFunction(f) = RunsOf(u)
  BY DEF RunsOf
<1>8. SumFunction(g) = RunsOf(u) + 1
  BY <1>2, <1>4, <1>6, <1>7
<1> QED BY <1>5, <1>8

\* No step takes more from a player than a run takes.
LEMMA StepKeeps ==
  ASSUME PlayerTypeOK, [PlayerNext]_playerVars, NEW w \in Users
  PROVE  Keeps(w)
<1>1. /\ accounts \in [Users -> Account] /\ accounts[w] \in Account
      /\ accounts[w].active_boosts \in Seq(ActiveBoost) /\ LiveBoosts(w) \in Seq(ActiveBoost)
      /\ LiveBoosts(w) = PurgeExpired(accounts[w].active_boosts, now)
  BY BoostsOf DEF PlayerTypeOK, LiveBoosts
<1> DEFINE before == accounts[w].active_boosts
           live == LiveBoosts(w)
<1>2. /\ LiveTickets(live, now) = LiveTickets(before, now)
      /\ LiveOthers(live, now) = LiveOthers(before, now)
      /\ IsPrefix(LiveOthers(before, now), LiveOthers(before, now))
      /\ Len(LiveTickets(before, now)) \in Nat /\ RunsOf(w) \in Nat
  BY <1>1, PurgeKeepsLiving, LiveType, CountsOf
<1>3. ASSUME NEW u \in Users, NEW r \in RigIds, NEW p \in RewardPairs,
             RunsOf(u) < MaxRuns, Mine(u, r, p[1], p[2])
      PROVE  Keeps(w)
  <2>1. /\ accounts'[u].active_boosts = BoostsAfterRun(u, r)
        /\ SumFunction(accounts'[u].mining_runs_by_rig) = RunsOf(u) + 1
        /\ \A v \in Users \ {u} : accounts'[v] = accounts[v]
    BY <1>3, RunCounted
  <2>2. CASE w # u
    BY <2>1, <2>2, KeepsSame
  <2>3. CASE w = u
    <3> DEFINE after == WithoutTicket(live, r, now)
    <3>1. /\ after \in Seq(ActiveBoost)
          /\ LiveOthers(after, now) = LiveOthers(live, now)
          /\ Len(LiveTickets(live, now)) =
               Len(LiveTickets(after, now)) + IF Tickets(live, r, now) # {} THEN 1 ELSE 0
      BY <1>1, RunTakesOne
    <3>2. Len(LiveTickets(after, now)) \in Nat
      BY <3>1, LiveType
    <3>3. accounts'[w].active_boosts = after
      BY <2>1, <2>3 DEF BoostsAfterRun
    <3>4. SumFunction(accounts'[w].mining_runs_by_rig) - RunsOf(w) = 1
      BY <1>2, <2>1, <2>3
    <3> HIDE DEF after, live
    <3> QED BY <1>2, <3>1, <3>2, <3>3, <3>4 DEF Keeps
  <2> QED BY <2>2, <2>3
<1>4. ASSUME NEW u \in Users, PurgeForStake(u) PROVE Keeps(w)
  <2>1. CASE w # u
    <3>1. accounts'[w] = accounts[w]
      BY <1>1, <1>4, <2>1 DEF PurgeForStake
    <3> QED BY <3>1, KeepsSame
  <2>2. CASE w = u
    <3>1. /\ accounts'[w].active_boosts = live
          /\ accounts'[w].mining_runs_by_rig = accounts[w].mining_runs_by_rig
      BY <1>1, <1>4, <2>2 DEF PurgeForStake, Account
    <3>2. SumFunction(accounts'[w].mining_runs_by_rig) - RunsOf(w) = 0
      BY <1>2, <3>1 DEF RunsOf
    <3> HIDE DEF live
    <3> QED BY <1>2, <3>1, <3>2 DEF Keeps
  <2> QED BY <2>1, <2>2
<1>5. ASSUME NEW u \in Users, NEW points, ApplyRankingResults(u, points) PROVE Keeps(w)
  <2>1. /\ accounts'[w].active_boosts = accounts[w].active_boosts
        /\ accounts'[w].mining_runs_by_rig = accounts[w].mining_runs_by_rig
    BY <1>1, <1>5 DEF ApplyRankingResults, Account
  <2> QED BY <2>1, KeepsSame
<1>6. ASSUME NEW u \in Users, NEW day, ResetDailyPoints(u, day) PROVE Keeps(w)
  <2>1. /\ accounts'[w].active_boosts = accounts[w].active_boosts
        /\ accounts'[w].mining_runs_by_rig = accounts[w].mining_runs_by_rig
    BY <1>1, <1>6 DEF ResetDailyPoints, Account
  <2> QED BY <2>1, KeepsSame
<1>7. ASSUME NEW u \in Users, NEW id \in BoostIds, ActivateBoost(u, id) PROVE Keeps(w)
  <2>1. CASE w # u
    <3>1. accounts'[w] = accounts[w]
      BY <1>1, <1>7, <2>1 DEF ActivateBoost
    <3> QED BY <3>1, KeepsSame
  <2>2. CASE w = u
    <3> DEFINE e == Activated(boostConfigs[id])
    <3>1. e \in ActiveBoost
      BY <1>7, ActivatedType DEF ActivateBoost, CanActivate
    <3>2. /\ accounts'[w].active_boosts = Append(live, e)
          /\ accounts'[w].mining_runs_by_rig = accounts[w].mining_runs_by_rig
      BY <1>1, <1>7, <2>2 DEF ActivateBoost, Account
    <3>3. SumFunction(accounts'[w].mining_runs_by_rig) - RunsOf(w) = 0
      BY <1>2, <3>2 DEF RunsOf
    <3> HIDE DEF live, e
    <3>4. live \in Seq(ActiveBoost)
      BY <1>1 DEF live
    <3>5. IsPrefix(LiveOthers(live, now), LiveOthers(Append(live, e), now))
      BY <3>1, <3>4, OneMore
    <3>6. Len(LiveTickets(Append(live, e), now)) \in
            Len(LiveTickets(live, now)) ..
              Len(LiveTickets(live, now)) + IF e.kind = "FreeRigTicket" THEN 1 ELSE 0
      BY <3>1, <3>4, OneMore
    <3>7. Len(LiveTickets(Append(live, e), now)) >= Len(LiveTickets(before, now))
      BY <1>2, <3>6
    <3> QED BY <1>2, <3>2, <3>3, <3>5, <3>7 DEF Keeps
  <2> QED BY <2>1, <2>2
<1>8. ASSUME accounts' = accounts PROVE Keeps(w)
  BY <1>8, KeepsSame
<1>9. ASSUME NEW id, NEW offer, UpsertBoostConfig(id, offer) PROVE accounts' = accounts
  BY <1>9 DEF UpsertBoostConfig
<1>10. ASSUME NEW t, PassTime(t) PROVE accounts' = accounts
  BY <1>10 DEF PassTime
<1>11. UNCHANGED playerVars => accounts' = accounts
  BY DEF playerVars
<1> QED BY <1>3, <1>4, <1>5, <1>6, <1>7, <1>8, <1>9, <1>10, <1>11 DEF PlayerNext

\* No step takes a live boost away, except a run, which takes one ticket at
\* most.
THEOREM NothingIsTaken == PlayerSpec => BoostsAreKept
<1>1. PlayerTypeOK /\ [PlayerNext]_playerVars =>
        [\A u \in Users :
           LET before == accounts[u].active_boosts
               after == accounts'[u].active_boosts
               runs == SumFunction(accounts'[u].mining_runs_by_rig) - RunsOf(u)
           IN
           /\ IsPrefix(LiveOthers(before, now), LiveOthers(after, now))
           /\ Len(LiveTickets(after, now)) >= Len(LiveTickets(before, now)) - runs]_playerVars
  BY StepKeeps DEF Keeps
<1> QED BY <1>1, PlayerTypeCorrect, PTL DEF PlayerSpec, BoostsAreKept
-----------------------------------------------------------------------------
(***************************************************************************)
(* The ledger.  Its invariant is inductive only as a whole: a ticket that  *)
(* is used is one that was counted as held.                                *)
(***************************************************************************)
LedgerTypeOK ==
  /\ granted \in [Users -> Nat]
  /\ pointsSpent \in [Users -> Nat]
  /\ ticketsBought \in [Users -> Nat]
  /\ freeRuns \in [Users -> [RigIds -> Nat]]

LedgerInv == PlayerTypeOK /\ LedgerTypeOK /\ PointsBalance /\ TicketsUsedOnce

\* The tickets a player holds and can still use.
Held(w) == Len(LiveTickets(accounts[w].active_boosts, now))

\* What PointsBalance says of one player.
Balanced(given, held, spent) ==
  MinOf(given, U64Max) <= held + spent /\ held + spent <= given

\* An award that does not fit is cut off at the ceiling of the counter, and what
\* the player has is then as much as the counter can show.
LEMMA GrantBalances ==
  ASSUME NEW given \in Nat, NEW held \in 0 .. U64Max, NEW spent \in Nat, NEW points \in Nat,
         Balanced(given, held, spent)
  PROVE  Balanced(given + points, SatAdd(held, points, U64Max), spent)
BY WidthAssumption DEF Balanced, SatAdd, MinOf

\* A step of the ledger is a step of the accounts.
LEMMA LedgerStepIsPlayerStep ==
  ASSUME [LedgerNext]_ledgerVars
  PROVE  [PlayerNext]_playerVars
<1>1. ASSUME NEW u \in Users, NEW r \in RigIds, NEW p \in RewardPairs,
             LedgerMine(u, r, p[1], p[2])
      PROVE  PlayerNext
  BY <1>1 DEF LedgerMine, PlayerNext
<1>2. ASSUME NEW u \in Users, NEW points \in Grants, LedgerGrant(u, points) PROVE PlayerNext
  BY <1>2 DEF LedgerGrant, PlayerNext
<1>3. ASSUME NEW u \in Users, NEW id \in BoostIds, LedgerActivate(u, id) PROVE PlayerNext
  BY <1>3 DEF LedgerActivate, PlayerNext
<1>4. ASSUME NEW u \in Users, PurgeForStake(u) PROVE PlayerNext
  BY <1>4 DEF PlayerNext
<1>5. ASSUME NEW u \in Users, NEW day \in DayIds, ResetDailyPoints(u, day) PROVE PlayerNext
  BY <1>5 DEF PlayerNext
<1>6. ASSUME NEW id \in BoostIds, NEW offer \in BoostOffers, UpsertBoostConfig(id, offer)
      PROVE  PlayerNext
  BY <1>6 DEF PlayerNext
<1>7. ASSUME NEW t \in Times, PassTime(t) PROVE PlayerNext
  BY <1>7 DEF PlayerNext
<1>8. UNCHANGED ledgerVars => UNCHANGED playerVars
  BY DEF ledgerVars, playerVars
<1> QED BY <1>1, <1>2, <1>3, <1>4, <1>5, <1>6, <1>7, <1>8 DEF LedgerNext

\* A run: the points stay, and a ticket that was held is a free run now.
LEMMA LedgerMineKeeps ==
  ASSUME LedgerInv, NEW u \in Users, NEW r \in RigIds, NEW base \in Nat, NEW high \in Nat,
         LedgerMine(u, r, base, high)
  PROVE  LedgerTypeOK' /\ PointsBalance' /\ TicketsUsedOnce'
<1> USE DEF LedgerInv
<1>1. /\ accounts \in [Users -> Account] /\ accounts[u] \in Account
      /\ LiveBoosts(u) \in Seq(ActiveBoost) /\ accounts[u].active_boosts \in Seq(ActiveBoost)
      /\ LiveBoosts(u) = PurgeExpired(accounts[u].active_boosts, now)
  BY BoostsOf DEF PlayerTypeOK, LiveBoosts
<1>2. Mine(u, r, base, high) /\ RunsOf(u) < MaxRuns /\ UNCHANGED <<granted, pointsSpent, ticketsBought>>
  BY DEF LedgerMine
<1> DEFINE live == LiveBoosts(u)
           after == WithoutTicket(live, r, now)
           free == Tickets(live, r, now) # {}
           f == freeRuns[u]
           g == [f EXCEPT ![r] = IF free THEN f[r] + 1 ELSE f[r]]
<1>3. freeRuns \in [Users -> [RigIds -> Nat]] /\ f \in [RigIds -> Nat] /\ f[r] \in Nat
  BY DEF LedgerTypeOK
<1>4. freeRuns' = [freeRuns EXCEPT ![u] = g]
  BY <1>3 DEF LedgerMine
<1>5. g \in [RigIds -> Nat] /\ SameBut(f, g, r, RigIds) /\ g[r] = f[r] + IF free THEN 1 ELSE 0
  BY <1>3 DEF SameBut
<1> HIDE DEF g
<1>6. LedgerTypeOK'
  BY <1>2, <1>3, <1>4, <1>5 DEF LedgerTypeOK
<1>7. PointsBalance'
  <2>1. ASSUME NEW w \in Users PROVE accounts'[w].boost_points = accounts[w].boost_points
    BY <1>1, <1>2 DEF Mine, Account
  <2> QED BY <1>2, <2>1 DEF PointsBalance
<1>8. SumFunction(g) = SumFunction(f) + (IF free THEN 1 ELSE 0) /\ SumFunction(f) \in Nat
  <2>1. SumFunction(g) = SumFunction(f) - f[r] + g[r] /\ SumFunction(f) \in Nat
    BY <1>3, <1>5, PlayerAssumption, SumUpdate, SumNat
  <2> QED BY <1>3, <1>5, <2>1
<1>9. /\ accounts'[u].active_boosts = after
      /\ \A w \in Users \ {u} : accounts'[w] = accounts[w]
      /\ now' = now
  BY <1>2, RunCounted DEF BoostsAfterRun, Mine
<1>10. /\ Len(LiveTickets(live, now)) = Len(LiveTickets(after, now)) + IF free THEN 1 ELSE 0
       /\ Len(LiveTickets(after, now)) \in Nat
  BY <1>1, RunTakesOne, LiveType
<1>11. LiveTickets(live, now) = LiveTickets(accounts[u].active_boosts, now)
  BY <1>1, PurgeKeepsLiving
<1> HIDE DEF live, after, free, f
<1>12. ASSUME NEW w \in Users
       PROVE  SumFunction(freeRuns'[w]) + Len(LiveTickets(accounts'[w].active_boosts, now'))
                <= ticketsBought'[w]
  <2>1. SumFunction(freeRuns[w]) + Len(LiveTickets(accounts[w].active_boosts, now))
          <= ticketsBought[w]
    BY DEF TicketsUsedOnce
  <2>2. CASE w # u
    BY <1>2, <1>3, <1>4, <1>9, <2>1, <2>2
  <2>3. CASE w = u
    <3>1. freeRuns'[w] = g /\ freeRuns[w] = f /\ ticketsBought[w] \in Nat
      BY <1>3, <1>4, <2>3 DEF LedgerTypeOK, f
    <3> QED BY <1>2, <1>8, <1>9, <1>10, <1>11, <2>1, <2>3, <3>1
  <2> QED BY <2>2, <2>3
<1>13. TicketsUsedOnce'
  BY <1>12 DEF TicketsUsedOnce
<1> QED BY <1>6, <1>7, <1>13

\* A step that leaves the boosts, their expiry and the records of tickets alone
\* leaves the tickets alone.
LEMMA SameTickets ==
  ASSUME LedgerInv, UNCHANGED <<now, ticketsBought, freeRuns>>,
         \A w \in Users : accounts'[w].active_boosts = accounts[w].active_boosts
  PROVE  TicketsUsedOnce'
BY DEF LedgerInv, TicketsUsedOnce

\* An award is in the balance, in full or up to the ceiling.
LEMMA LedgerGrantKeeps ==
  ASSUME LedgerInv, NEW u \in Users, NEW points \in Nat, LedgerGrant(u, points)
  PROVE  LedgerTypeOK' /\ PointsBalance' /\ TicketsUsedOnce'
<1> USE DEF LedgerInv
<1>1. accounts \in [Users -> Account]
  BY DEF PlayerTypeOK
<1>2. /\ granted' = [granted EXCEPT ![u] = granted[u] + points]
      /\ UNCHANGED <<pointsSpent, ticketsBought, freeRuns>>
  BY DEF LedgerGrant
<1>3. granted \in [Users -> Nat] /\ pointsSpent \in [Users -> Nat] /\ granted[u] \in Nat
  BY DEF LedgerTypeOK
<1>4. LedgerTypeOK'
  BY <1>2, <1>3 DEF LedgerTypeOK
<1>5. /\ \A w \in Users : accounts'[w].active_boosts = accounts[w].active_boosts
      /\ \A w \in Users \ {u} : accounts'[w] = accounts[w]
      /\ accounts'[u].boost_points = SatAdd(accounts[u].boost_points, points, U64Max)
      /\ now' = now
  BY <1>1 DEF LedgerGrant, ApplyRankingResults, Account
<1>6. ASSUME NEW w \in Users
      PROVE  Balanced(granted'[w], accounts'[w].boost_points, pointsSpent'[w])
  <2>1. Balanced(granted[w], accounts[w].boost_points, pointsSpent[w])
    BY DEF PointsBalance, Balanced
  <2>2. CASE w # u
    BY <1>2, <1>3, <1>5, <2>1, <2>2
  <2>3. CASE w = u
    <3>1. accounts[u].boost_points \in 0 .. U64Max /\ pointsSpent[u] \in Nat
      BY <1>1, <1>3 DEF Account
    <3>2. Balanced(granted[u] + points, SatAdd(accounts[u].boost_points, points, U64Max),
                   pointsSpent[u])
      BY <1>3, <2>1, <2>3, <3>1, GrantBalances
    <3> QED BY <1>2, <1>3, <1>5, <2>3, <3>2
  <2> QED BY <2>2, <2>3
<1>7. PointsBalance'
  BY <1>6 DEF PointsBalance, Balanced
<1>8. TicketsUsedOnce'
  BY <1>2, <1>5, SameTickets
<1> QED BY <1>4, <1>7, <1>8

\* A boost bought: points become points spent, an offer of a ticket a ticket.
LEMMA LedgerActivateKeeps ==
  ASSUME LedgerInv, NEW u \in Users, NEW id \in BoostIds, LedgerActivate(u, id)
  PROVE  LedgerTypeOK' /\ PointsBalance' /\ TicketsUsedOnce'
<1> USE DEF LedgerInv
<1> DEFINE offer == boostConfigs[id]
           live == LiveBoosts(u)
           e == Activated(offer)
           one == IF e.kind = "FreeRigTicket" THEN 1 ELSE 0
<1>1. /\ accounts \in [Users -> Account] /\ accounts[u] \in Account
      /\ live \in Seq(ActiveBoost) /\ accounts[u].active_boosts \in Seq(ActiveBoost)
      /\ live = PurgeExpired(accounts[u].active_boosts, now)
  BY BoostsOf DEF PlayerTypeOK, LiveBoosts
<1>2. ActivateBoost(u, id) /\ UNCHANGED <<granted, freeRuns>> /\ now' = now
  BY DEF LedgerActivate, ActivateBoost
<1>3. accounts[u].boost_points >= offer.cost_boost_points /\ offer # NoOffer
  BY <1>2 DEF ActivateBoost, CanActivate
<1>4. offer \in Published /\ e \in ActiveBoost /\ e.kind = offer.kind
  BY <1>3, ActivatedType
<1>5. /\ offer.cost_boost_points \in Nat /\ accounts[u].boost_points \in Nat
      /\ pointsSpent \in [Users -> Nat] /\ ticketsBought \in [Users -> Nat]
  BY <1>1, <1>4, WidthAssumption DEF Published, Account, LedgerTypeOK
<1>6. /\ pointsSpent' = [pointsSpent EXCEPT ![u] = pointsSpent[u] + offer.cost_boost_points]
      /\ ticketsBought' = [ticketsBought EXCEPT ![u] = ticketsBought[u] + one]
  <2>1. one = IF offer.kind = "FreeRigTicket" THEN 1 ELSE 0
    BY <1>4
  <2>2. (IF offer.kind = "FreeRigTicket" THEN ticketsBought[u] + 1 ELSE ticketsBought[u])
          = ticketsBought[u] + one
    BY <1>5, <2>1
  <2> HIDE DEF one
  <2>3. ticketsBought' = [ticketsBought EXCEPT ![u] =
          IF offer.kind = "FreeRigTicket" THEN ticketsBought[u] + 1 ELSE ticketsBought[u]]
    BY DEF LedgerActivate
  <2>4. pointsSpent' = [pointsSpent EXCEPT ![u] = pointsSpent[u] + offer.cost_boost_points]
    BY DEF LedgerActivate
  <2> QED BY <2>2, <2>3, <2>4
<1>7. /\ accounts'[u].active_boosts = Append(live, e)
      /\ accounts'[u].boost_points = SatSub(accounts[u].boost_points, offer.cost_boost_points)
      /\ \A w \in Users \ {u} : accounts'[w] = accounts[w]
  BY <1>1, <1>2 DEF ActivateBoost, Account
<1>8. /\ Len(LiveTickets(Append(live, e), now)) \in
           Len(LiveTickets(live, now)) .. Len(LiveTickets(live, now)) + one
      /\ Len(LiveTickets(live, now)) \in Nat
  BY <1>1, <1>4, OneMore, LiveType
<1>9. LiveTickets(live, now) = LiveTickets(accounts[u].active_boosts, now)
  BY <1>1, PurgeKeepsLiving
<1>10. one \in Nat
  OBVIOUS
<1> HIDE DEF offer, live, e, one
<1>11. LedgerTypeOK'
  BY <1>2, <1>5, <1>6, <1>10 DEF LedgerTypeOK
<1>12. SatSub(accounts[u].boost_points, offer.cost_boost_points) =
         accounts[u].boost_points - offer.cost_boost_points
  BY <1>3, <1>5 DEF SatSub, MaxOf
<1>13. ASSUME NEW w \in Users
       PROVE  Balanced(granted'[w], accounts'[w].boost_points, pointsSpent'[w])
  <2>1. Balanced(granted[w], accounts[w].boost_points, pointsSpent[w])
    BY DEF PointsBalance, Balanced
  <2>2. CASE w # u
    BY <1>2, <1>5, <1>6, <1>7, <2>1, <2>2
  <2>3. CASE w = u
    <3>1. accounts'[w].boost_points + pointsSpent'[w] = accounts[w].boost_points + pointsSpent[w]
      BY <1>5, <1>6, <1>7, <1>12, <2>3
    <3> QED BY <1>2, <2>1, <3>1 DEF Balanced
  <2> QED BY <2>2, <2>3
<1>14. ASSUME NEW w \in Users
       PROVE  SumFunction(freeRuns'[w]) + Len(LiveTickets(accounts'[w].active_boosts, now'))
                <= ticketsBought'[w]
  <2>1. SumFunction(freeRuns[w]) + Len(LiveTickets(accounts[w].active_boosts, now))
          <= ticketsBought[w]
    BY DEF TicketsUsedOnce
  <2>2. CASE w # u
    BY <1>2, <1>5, <1>6, <1>7, <2>1, <2>2
  <2>3. CASE w = u
    <3>1. SumFunction(freeRuns[u]) \in Nat /\ ticketsBought[u] \in Nat
      BY <1>5, PlayerAssumption, SumNat DEF LedgerTypeOK
    <3>2. ticketsBought'[u] = ticketsBought[u] + one
      BY <1>5, <1>6
    <3>3. freeRuns'[w] = freeRuns[u] /\ now' = now /\ accounts'[w].active_boosts = Append(live, e)
      BY <1>2, <1>7, <2>3
    <3>4. SumFunction(freeRuns[u]) + Len(LiveTickets(live, now)) <= ticketsBought[u]
      BY <1>9, <2>1, <2>3
    <3>5. SumFunction(freeRuns[u]) + Len(LiveTickets(Append(live, e), now)) <= ticketsBought[u] + one
      BY <1>8, <1>10, <3>1, <3>4
    <3> QED BY <2>3, <3>2, <3>3, <3>5
  <2> QED BY <2>2, <2>3
<1> QED BY <1>11, <1>13, <1>14 DEF PointsBalance, Balanced, TicketsUsedOnce

\* The clock moves on: tickets expire, none comes back.
LEMMA LedgerTimeKeeps ==
  ASSUME LedgerInv, NEW t \in Times, PassTime(t), UNCHANGED ledger
  PROVE  LedgerTypeOK' /\ PointsBalance' /\ TicketsUsedOnce'
<1> USE DEF LedgerInv
<1>1. now \in Nat /\ t \in Nat /\ t > now /\ now' = t /\ accounts' = accounts
  BY PlayerAssumption DEF PassTime, PlayerTypeOK
<1>2. LedgerTypeOK' /\ PointsBalance'
  BY <1>1 DEF ledger, LedgerTypeOK, PointsBalance
<1> DEFINE P == {b \in Alive(t) : b.kind = "FreeRigTicket"}
           Q == {b \in Alive(now) : b.kind = "FreeRigTicket"}
<1>3. ActiveBoost \cap P \subseteq Q
  <2>1. ASSUME NEW b \in ActiveBoost, ~ IsExpired(b, t) PROVE ~ IsExpired(b, now)
    <3>1. b.expires_at_ts \in Nat
      BY DEF ActiveBoost
    <3> QED BY <1>1, <2>1, <3>1 DEF IsExpired
  <2> QED BY <2>1 DEF Alive
<1>4. ASSUME NEW w \in Users
      PROVE  SumFunction(freeRuns'[w]) + Len(LiveTickets(accounts'[w].active_boosts, now'))
               <= ticketsBought'[w]
  <2> DEFINE boosts == accounts[w].active_boosts
  <2>1. boosts \in Seq(ActiveBoost)
    BY BoostsOf
  <2>2. /\ LiveTickets(boosts, t) = Kept(boosts, P) /\ LiveTickets(boosts, now) = Kept(boosts, Q)
        /\ Len(LiveTickets(boosts, t)) \in Nat /\ Len(LiveTickets(boosts, now)) \in Nat
    BY <2>1, LiveType DEF LiveTickets
  <2> HIDE DEF P, Q, boosts
  <2>3. Len(Kept(boosts, P)) <= Len(Kept(boosts, Q))
    BY <1>3, <2>1, KeptFewer
  <2>4. SumFunction(freeRuns[w]) + Len(LiveTickets(boosts, now)) <= ticketsBought[w]
    BY DEF TicketsUsedOnce, boosts
  <2>5. SumFunction(freeRuns[w]) \in Nat /\ ticketsBought[w] \in Nat
    BY PlayerAssumption, SumNat DEF LedgerTypeOK
  <2>6. SumFunction(freeRuns[w]) + Len(LiveTickets(boosts, t)) <= ticketsBought[w]
    BY <2>2, <2>3, <2>4, <2>5
  <2>7. freeRuns' = freeRuns /\ ticketsBought' = ticketsBought
    BY DEF ledger
  <2> QED BY <1>1, <2>6, <2>7 DEF boosts
<1> QED BY <1>2, <1>4 DEF TicketsUsedOnce

\* The other instructions, which the ledger does not record.
LEMMA LedgerRestKeeps ==
  ASSUME LedgerInv, UNCHANGED <<ledger, now>>, NEW u \in Users,
         \/ PurgeForStake(u)
         \/ \E day \in DayIds : ResetDailyPoints(u, day)
         \/ accounts' = accounts
  PROVE  LedgerTypeOK' /\ PointsBalance' /\ TicketsUsedOnce'
<1> USE DEF LedgerInv
<1>1. accounts \in [Users -> Account]
  BY DEF PlayerTypeOK
<1>2. LedgerTypeOK'
  BY DEF ledger, LedgerTypeOK
<1>3. ASSUME NEW w \in Users
      PROVE  /\ accounts'[w].boost_points = accounts[w].boost_points
             /\ \/ accounts'[w].active_boosts = accounts[w].active_boosts
                \/ accounts'[w].active_boosts = PurgeExpired(accounts[w].active_boosts, now)
  <2>1. CASE PurgeForStake(u)
    BY <1>1, <2>1 DEF PurgeForStake, LiveBoosts, Account
  <2>2. ASSUME NEW day \in DayIds, ResetDailyPoints(u, day)
        PROVE  /\ accounts'[w].boost_points = accounts[w].boost_points
               /\ accounts'[w].active_boosts = accounts[w].active_boosts
    BY <1>1, <2>2 DEF ResetDailyPoints, Account
  <2> QED BY <2>1, <2>2
<1>4. PointsBalance'
  BY <1>3 DEF ledger, PointsBalance
<1>5. ASSUME NEW w \in Users
      PROVE  LiveTickets(accounts'[w].active_boosts, now) = LiveTickets(accounts[w].active_boosts, now)
  <2>1. accounts[w].active_boosts \in Seq(ActiveBoost)
    BY BoostsOf
  <2> QED BY <1>3, <2>1, PurgeKeepsLiving
<1>6. TicketsUsedOnce'
  BY <1>5 DEF ledger, TicketsUsedOnce
<1> QED BY <1>2, <1>4, <1>6

\* All steps.
LEMMA LedgerKeepsInv ==
  ASSUME LedgerInv, [LedgerNext]_ledgerVars
  PROVE  LedgerInv'
<1>1. PlayerTypeOK'
  BY LedgerStepIsPlayerStep, PlayerKeepsType DEF LedgerInv
<1> DEFINE Rest == LedgerTypeOK' /\ PointsBalance' /\ TicketsUsedOnce'
<1>2. ASSUME NEW u \in Users, NEW r \in RigIds, NEW p \in RewardPairs,
             LedgerMine(u, r, p[1], p[2])
      PROVE  Rest
  <2>1. p[1] \in Nat /\ p[2] \in Nat
    BY PlayerAssumption
  <2> QED BY <1>2, <2>1, LedgerMineKeeps
<1>3. ASSUME NEW u \in Users, NEW points \in Grants, LedgerGrant(u, points) PROVE Rest
  <2>1. points \in Nat
    BY PlayerAssumption
  <2> QED BY <1>3, <2>1, LedgerGrantKeeps
<1>4. ASSUME NEW u \in Users, NEW id \in BoostIds, LedgerActivate(u, id) PROVE Rest
  BY <1>4, LedgerActivateKeeps
<1>5. ASSUME NEW u \in Users, PurgeForStake(u), UNCHANGED ledger PROVE Rest
  <2>1. UNCHANGED <<ledger, now>>
    BY <1>5 DEF PurgeForStake
  <2> QED BY <1>5, <2>1, LedgerRestKeeps
<1>6. ASSUME NEW u \in Users, NEW day \in DayIds, ResetDailyPoints(u, day), UNCHANGED ledger
      PROVE  Rest
  <2>1. UNCHANGED <<ledger, now>>
    BY <1>6 DEF ResetDailyPoints
  <2> QED BY <1>6, <2>1, LedgerRestKeeps
<1>7. ASSUME accounts' = accounts, UNCHANGED <<ledger, now>> PROVE Rest
  BY <1>7 DEF LedgerInv, ledger, LedgerTypeOK, PointsBalance, TicketsUsedOnce
<1>8. ASSUME NEW id, NEW offer, UpsertBoostConfig(id, offer), UNCHANGED ledger PROVE Rest
  <2>1. accounts' = accounts /\ UNCHANGED <<ledger, now>>
    BY <1>8 DEF UpsertBoostConfig
  <2> HIDE DEF Rest
  <2> QED BY <1>7, <2>1
<1>9. ASSUME NEW t \in Times, PassTime(t), UNCHANGED ledger PROVE Rest
  BY <1>9, LedgerTimeKeeps
<1>10. ASSUME UNCHANGED ledgerVars PROVE Rest
  <2>1. accounts' = accounts /\ UNCHANGED <<ledger, now>>
    BY <1>10 DEF ledgerVars, playerVars
  <2> HIDE DEF Rest
  <2> QED BY <1>7, <2>1
<1>11. Rest
  <2> HIDE DEF Rest
  <2> QED BY <1>2, <1>3, <1>4, <1>5, <1>6, <1>8, <1>9, <1>10 DEF LedgerNext
<1> QED BY <1>1, <1>11 DEF LedgerInv

\* Nothing awarded, nothing spent, no tickets.
LEMMA LedgerInitInv == LedgerInit => LedgerInv
<1> SUFFICES ASSUME LedgerInit PROVE LedgerInv
  OBVIOUS
<1>1. PlayerInit /\ PlayerTypeOK
  BY PlayerInitType DEF LedgerInit
<1>2. LedgerTypeOK
  BY PlayerAssumption DEF LedgerInit, LedgerTypeOK
<1>3. PointsBalance
  BY <1>1, WidthAssumption DEF PlayerInit, NewAccount, LedgerInit, PointsBalance, MinOf
<1>4. ASSUME NEW w \in Users
      PROVE  SumFunction(freeRuns[w]) + Len(LiveTickets(accounts[w].active_boosts, now))
               <= ticketsBought[w]
  <2>1. accounts[w].active_boosts = <<>>
    BY <1>1 DEF PlayerInit, NewAccount
  <2>2. LiveTickets(<<>>, now) = <<>>
    BY KeptEmpty DEF LiveTickets
  <2>3. freeRuns[w] = [r \in RigIds |-> 0] /\ ticketsBought[w] = 0
    BY DEF LedgerInit
  <2>4. SumFunction([r \in RigIds |-> 0]) = 0
    <3> DEFINE f == [r \in RigIds |-> 0]
    <3>1. f \in [RigIds -> Nat] /\ DOMAIN f = RigIds /\ Units(f, RigIds) = {}
      BY DEF Units
    <3> HIDE DEF f
    <3>2. SumFunctionOnSet(f, RigIds) = Cardinality(Units(f, RigIds))
      BY <3>1, PlayerAssumption, SumIsCard
    <3> QED BY <3>1, <3>2, FS_EmptySet DEF SumFunction, f
  <2> QED BY <2>1, <2>2, <2>3, <2>4
<1> QED BY <1>1, <1>2, <1>3, <1>4 DEF LedgerInv, TicketsUsedOnce

\* The ledger only watches: with it, the accounts do what they do without it.
THEOREM LedgerIsPlayer == LedgerSpec => PlayerSpec
<1>1. LedgerInit => PlayerInit
  BY DEF LedgerInit
<1>2. [LedgerNext]_ledgerVars => [PlayerNext]_playerVars
  BY LedgerStepIsPlayerStep
<1> QED BY <1>1, <1>2, PTL DEF LedgerSpec, PlayerSpec

LEMMA LedgerInvariant == LedgerSpec => []LedgerInv
<1>1. LedgerInit => LedgerInv
  BY LedgerInitInv
<1>2. LedgerInv /\ [LedgerNext]_ledgerVars => LedgerInv'
  BY LedgerKeepsInv
<1> QED BY <1>1, <1>2, PTL DEF LedgerSpec

\* Points awarded are held or spent, whatever the prices did in between, but for
\* those beyond the ceiling of the counter, which are lost.
THEOREM PointsBalanced == LedgerSpec => []PointsBalance
<1>1. LedgerInv => PointsBalance
  BY DEF LedgerInv
<1> QED BY <1>1, LedgerInvariant, PTL

\* Free runs and tickets held are never more than the tickets bought.
THEOREM TicketsPayOnce == LedgerSpec => []TicketsUsedOnce
<1>1. LedgerInv => TicketsUsedOnce
  BY DEF LedgerInv
<1> QED BY <1>1, LedgerInvariant, PTL
=============================================================================
