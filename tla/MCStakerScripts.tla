-------------------------- MODULE MCStakerScripts --------------------------
(***************************************************************************)
(* StakerScripts for TLC: groups of runs, of which one is started.         *)
(* unstake.ts is run twice for a position that somebody stakes meanwhile,  *)
(* and twice for one from before ids.  A wallet lists its positions, and   *)
(* claims or unstakes, while others mine and stake.  It gives an id below  *)
(* 0, it runs stake.ts, and the other wallet runs mine.ts.                 *)
(***************************************************************************)
EXTENDS StakerScripts, TLC

CONSTANTS u1, u2, s1, x1, x2, x3, x4, c1, c2, l1, m1

Job(script, wallet, id) ==
  [script |-> script, wallet |-> wallet, positionId |-> id, rigId |-> 1,
   amount |-> 2, lockDays |-> 7]

MCJobs ==
  (s1 :> Job("stake.ts", u1, 0)) @@
  (x1 :> Job("unstake.ts", u1, 1)) @@ (x2 :> Job("unstake.ts", u1, 1)) @@
  (x3 :> Job("unstake.ts", u1, 0)) @@ (x4 :> Job("unstake.ts", u1, 0)) @@
  (m1 :> Job("mine.ts", u2, 0)) @@ (c1 :> Job("claim.ts", u1, 0)) @@
  (c2 :> Job("claim.ts", u1, -1)) @@ (l1 :> Job("list-positions.ts", u1, 0))

MCGroups == {{x1, x2}, {x3, x4}, {l1, c1}, {l1, x3}, {m1}, {c2}, {s1}}

MCUsers == {u1, u2}
MCKeyNumber == [k \in {KeyOf(u) : u \in Users} |-> 7]
MCXnt == (u1 :> 0) @@ (u2 :> 10)
MCGame == (u1 :> 2) @@ (u2 :> 0)
MCLegacy == (u1 :> 2) @@ (u2 :> 0)
MCTimes == {0, 7, 14}

\* What is started belongs to one group.
MCNext ==
  /\ ScriptNext
  /\ \E g \in MCGroups : \A r \in Runs \ g : stage'[r] = "off"
=============================================================================
