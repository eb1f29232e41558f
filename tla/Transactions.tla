---------------------------- MODULE Transactions ----------------------------
(***************************************************************************)
(* Runs of scripts and the transactions they send.  Every script has the   *)
(* same shape: main() reads what it needs, builds one transaction, hands   *)
(* it over with sendAndConfirmTransaction and waits; any error ends it in  *)
(* process.exit(1).  The script and its transaction have separate lives.   *)
(* A transaction stays valid for a number of blocks (its blockhash); the   *)
(* cluster may take it at any time until then, and takes it once (its      *)
(* signature).  A script gives up when it sees the last block pass, or     *)
(* when the connection breaks, and then does not know whether its          *)
(* transaction was taken, or will be.                                      *)
(*                                                                         *)
(* What a run reads and what a transaction does is in the modules that     *)
(* extend this one.  Nothing is sent twice: whoever wants to try again     *)
(* starts another run.                                                     *)
(***************************************************************************)
EXTENDS Integers

CONSTANTS Runs,      \* runs of scripts, each started once at most
          Validity   \* blocks for which a transaction can be taken

ASSUME ValidityAssumption == Validity \in Nat \ {0}

VARIABLES
  stage,   \* how far main() of each run is
  tx       \* the transaction of each run, as the cluster has it

txVars == <<stage, tx>>

NoTx == [status |-> "none", ttl |-> 0]

TxInit ==
  /\ stage = [r \in Runs |-> "off"]
  /\ tx = [r \in Runs |-> NoTx]

IsOpen(r) == tx[r].status = "pending" /\ tx[r].ttl > 0

(***************************************************************************)
(* The script.                                                             *)
(***************************************************************************)
Goes(r, from, to) == stage[r] = from /\ stage' = [stage EXCEPT ![r] = to]

Start(r) == Goes(r, "off", "started") /\ UNCHANGED tx
Build(r) == Goes(r, "started", "ready") /\ UNCHANGED tx
EndsUnsent(r) == Goes(r, "started", "done") /\ UNCHANGED tx

\* A read fails, or something throws, before anything was sent.
Break(r) == (Goes(r, "started", "failed") \/ Goes(r, "ready", "failed")) /\ UNCHANGED tx

Send(r) ==
  /\ Goes(r, "ready", "sent")
  /\ tx' = [tx EXCEPT ![r] = [status |-> "pending", ttl |-> Validity]]

\* Mutant: success is reported when the node has the transaction.
ConfirmUnseen(r) == tx[r].status # "none" /\ Goes(r, "sent", "done") /\ UNCHANGED tx

Confirm(r) == tx[r].status = "landed" /\ Goes(r, "sent", "done") /\ UNCHANGED tx
SeeRefusal(r) == tx[r].status = "refused" /\ Goes(r, "sent", "failed") /\ UNCHANGED tx

\* Mutant: the script waits until it has an answer.
NeverGiveUp(r) == FALSE /\ UNCHANGED txVars

\* The last valid block has passed; news of the transaction may still be on its way.
GiveUp(r) == tx[r].ttl = 0 /\ Goes(r, "sent", "failed") /\ UNCHANGED tx

\* The connection breaks after the transaction was handed over.
LoseTouch(r) == Goes(r, "sent", "failed") /\ UNCHANGED tx

Step(r) == Build(r) \/ EndsUnsent(r) \/ Send(r) \/ Confirm(r) \/ SeeRefusal(r) \/ GiveUp(r)

(***************************************************************************)
(* The cluster.                                                            *)
(***************************************************************************)
\* Mutant: nothing remembers that the transaction was taken.
LandAgain(r) ==
  /\ tx[r].status \in {"pending", "landed"} /\ tx[r].ttl > 0
  /\ tx' = [tx EXCEPT ![r].status = "landed"]
  /\ UNCHANGED stage

Land(r) ==
  /\ IsOpen(r)
  /\ tx' = [tx EXCEPT ![r].status = "landed"]
  /\ UNCHANGED stage

\* Whatever the reason: the program, the fee, or a node that is behind and
\* simulates the transaction before it passes it on.
Refuse(r) ==
  /\ IsOpen(r)
  /\ tx' = [tx EXCEPT ![r] = [status |-> "refused", ttl |-> 0]]
  /\ UNCHANGED stage

NextBlock ==
  /\ \E r \in Runs : tx[r].ttl > 0
  /\ tx' = [r \in Runs |-> [tx[r] EXCEPT !.ttl = IF @ > 0 THEN @ - 1 ELSE 0]]
  /\ UNCHANGED stage

TxNext ==
  \/ \E r \in Runs : \/ Start(r) \/ Step(r) \/ Break(r) \/ LoseTouch(r)
                     \/ Land(r) \/ Refuse(r)
  \/ NextBlock

\* A script that can go on goes on, and the cluster makes blocks.  Nothing is
\* assumed of landing: a transaction that is sent may never be taken.
TxFairness == WF_txVars(NextBlock) /\ \A r \in Runs : WF_txVars(Step(r))

TxSpec == TxInit /\ [][TxNext]_txVars /\ TxFairness
-----------------------------------------------------------------------------
(***************************************************************************)
(* Properties.                                                             *)
(***************************************************************************)
TxTypeOK ==
  /\ stage \in [Runs -> {"off", "started", "ready", "sent", "done", "failed"}]
  /\ tx \in [Runs -> [status : {"none", "pending", "landed", "refused"}, ttl : 0 .. Validity]]
  /\ \A r \in Runs : stage[r] \in {"off", "started", "ready"} => tx[r] = NoTx
  /\ \A r \in Runs : stage[r] = "sent" => tx[r].status # "none"

\* What Delivery sees of a run.
FateOf == [r \in Runs |->
  CASE tx[r].status = "none" -> "unsent"
    [] tx[r].status = "landed" -> "effect"
    [] tx[r].status = "refused" \/ (tx[r].status = "pending" /\ tx[r].ttl = 0) -> "void"
    [] OTHER -> "open"]
ReportOf == [r \in Runs |->
  CASE stage[r] = "done" -> "success"
    [] stage[r] = "failed" -> "error"
    [] OTHER -> "none"]

DeliveryOfRuns == INSTANCE Delivery WITH fate <- FateOf, report <- ReportOf

\* Through expiry, lost connections and late answers, a run's transaction takes
\* effect once or never, never after its last block, and success is not
\* reported of one that has not.
ImplementsDelivery == DeliveryOfRuns!DeliverySpec

\* main() always comes to an end, with success or with an error: nothing that
\* happens to the transaction or the connection leaves a script waiting.
RunsEnd == \A r \in Runs : stage[r] = "started" ~> stage[r] \in {"done", "failed"}
=============================================================================
