------------------------------ MODULE Custody ------------------------------
(***************************************************************************)
(* What the staking pool promises about GAME, without accumulators,        *)
(* weights or position ids: a deposit is held until its time, and then     *)
(* comes back whole and to the wallet that made it.  Nothing else ever     *)
(* takes tokens out of the vault.                                          *)
(*                                                                         *)
(* The actions constrain a step rather than construct it, so they allow    *)
(* every amount and every instant.                                         *)
(***************************************************************************)
EXTENDS Integers, Functions

CONSTANTS Users,    \* the wallets
          Receipts  \* names of a user's deposits

VARIABLES now,      \* the clock
          wallet,   \* GAME each user holds
          deposit,  \* what a receipt is worth, and from when
          vault     \* GAME the pool holds

vars == <<now, wallet, deposit, vault>>

Deposit == [held : BOOLEAN, amount : Nat, until : Nat]
NoDeposit == [held |-> FALSE, amount |-> 0, until |-> 0]

\* Everything deposited, over all users and receipts.
Held == SumFunction([k \in Users \X Receipts |-> deposit[k].amount])

Init ==
  /\ now \in Nat
  /\ wallet \in [Users -> Nat]
  /\ deposit \in [Users \X Receipts -> Deposit]
  /\ vault \in Nat
  /\ Held <= vault

Put(u, r) ==
  LET new == deposit'[<<u, r>>] IN
  /\ ~ deposit[<<u, r>>].held
  /\ new \in Deposit /\ new.held /\ new.until > now
  /\ new.amount <= wallet[u]
  /\ wallet' = [wallet EXCEPT ![u] = @ - new.amount]
  /\ vault' = vault + new.amount
  /\ deposit' = [deposit EXCEPT ![<<u, r>>] = new]
  /\ UNCHANGED now

TakeBack(u, r) ==
  LET old == deposit[<<u, r>>] IN
  /\ old.held /\ old.until <= now
  /\ wallet' = [wallet EXCEPT ![u] = @ + old.amount]
  /\ vault' = vault - old.amount
  /\ deposit' = [deposit EXCEPT ![<<u, r>>] = NoDeposit]
  /\ UNCHANGED now

\* A user sends GAME to the vault and gets no receipt for it.
Give(u) ==
  /\ vault' - vault \in 0 .. wallet[u]
  /\ wallet' = [wallet EXCEPT ![u] = @ - (vault' - vault)]
  /\ UNCHANGED <<now, deposit>>

\* A user earns newly minted GAME.
Earn(u) ==
  /\ wallet'[u] - wallet[u] \in Nat
  /\ wallet' = [wallet EXCEPT ![u] = wallet'[u]]
  /\ UNCHANGED <<now, deposit, vault>>

Wait ==
  /\ now' - now \in Nat
  /\ UNCHANGED <<wallet, deposit, vault>>

Next ==
  \/ \E u \in Users, r \in Receipts : Put(u, r) \/ TakeBack(u, r)
  \/ \E u \in Users : Give(u) \/ Earn(u)
  \/ Wait

Spec == Init /\ [][Next]_vars
=============================================================================
