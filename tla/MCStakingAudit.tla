--------------------------- MODULE MCStakingAudit ---------------------------
(***************************************************************************)
(* The pool and its books for TLC: two users, of whom one has a position   *)
(* from before ids, and the program's ratios at a small scale.  20 basis   *)
(* points make the unit, so the lock weights are 21, 22 and 24 twentieths; *)
(* a share costs 10 units of fixed point.                                  *)
(***************************************************************************)
EXTENDS StakingAudit, TLC

CONSTANTS u1, u2

MCUsers == {u1, u2}
MCXnt == (u1 :> 10) @@ (u2 :> 2)
MCGame == (u1 :> 3) @@ (u2 :> 3)
MCLegacy == (u1 :> 0) @@ (u2 :> 2)
MCTimes == {0, 7, 30}
=============================================================================
