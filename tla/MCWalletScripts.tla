-------------------------- MODULE MCWalletScripts --------------------------
(***************************************************************************)
(* WalletScripts for TLC: groups of runs, of which one is started.  A      *)
(* wallet without a token account mines twice and wraps, all at the same   *)
(* time and on one cluster, though SOLANA_URL names another.  It wraps and *)
(* mines where RPC_URL sends the two to different clusters, while a third  *)
(* run mines where it wraps.                                               *)
(***************************************************************************)
EXTENDS WalletScripts, TLC

CONSTANTS w1, w2, m1, m2, m3, testnet, other

MCScript == [r \in Runs |-> IF r \in {w1, w2} THEN "wrap-sol.ts" ELSE "mine.ts"]

Environment(rpc, anchor, solana) ==
  ("RPC_URL" :> rpc) @@ ("ANCHOR_PROVIDER_URL" :> anchor) @@ ("SOLANA_URL" :> solana)

MCEnv == [r \in Runs |->
  CASE r \in {w1, m1} -> Environment(Unset, other, testnet)
    [] r \in {w2, m3} -> Environment(other, Unset, Unset)
    [] OTHER -> Environment(Unset, Unset, other)]

MCGroups == {{w1, m1, m2}, {w2, m3, m2}}

\* What is started belongs to one group.
MCNext ==
  /\ WalletNext
  /\ \E g \in MCGroups : \A r \in Runs \ g : stage'[r] = "off"

MCSpec == WalletInit /\ [][MCNext]_walletVars /\ WalletFairness
=============================================================================
