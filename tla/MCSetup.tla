------------------------------ MODULE MCSetup ------------------------------
(***************************************************************************)
(* The set-up for TLC, in one of two ways.  By hand: an admin and somebody *)
(* else send the instructions in any order (Setup), with the shares and    *)
(* intervals at the edges of what is accepted.  Or through the scripts     *)
(* (AdminScripts), two runs of each but the first.  Each run has a key,    *)
(* and these are the addresses.                                            *)
(***************************************************************************)
EXTENDS AdminScripts, TLC

CONSTANTS admin, other, g1, t1, t2, p1, p2

VARIABLE byHand

MCScript == (g1 :> "init-global.ts") @@
            (t1 :> "init-treasury.ts") @@ (t2 :> "init-treasury.ts") @@
            (p1 :> "init-staking.ts") @@ (p2 :> "init-staking.ts")
MCFresh == [r \in Runs |-> r]
MCKeyNumber == (KeyOf(admin) :> 7) @@ (KeyOf(other) :> 8)

MCInit == AdminInit /\ byHand \in BOOLEAN

MCNext ==
  /\ \/ byHand /\ SetupNext /\ UNCHANGED <<stage, tx, sent>>
     \/ ~ byHand /\ AdminNext
  /\ UNCHANGED byHand
=============================================================================
