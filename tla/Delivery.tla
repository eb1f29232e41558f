------------------------------ MODULE Delivery ------------------------------
(***************************************************************************)
(* What somebody who starts a script may rely on, whatever becomes of the  *)
(* connection: the transaction of a run takes effect once or never, and    *)
(* success is reported only after the effect.  Nothing is promised about   *)
(* an error: the effect may have happened, or may happen still while the   *)
(* transaction is open.                                                    *)
(***************************************************************************)
CONSTANT Runs

VARIABLES fate, report

deliveryVars == <<fate, report>>

DeliveryInit ==
  /\ fate = [r \in Runs |-> "unsent"]
  /\ report = [r \in Runs |-> "none"]

Submit(r) ==
  /\ fate[r] = "unsent" /\ report[r] = "none"
  /\ fate' = [fate EXCEPT ![r] = "open"]
  /\ UNCHANGED report

TakeEffect(r) ==
  /\ fate[r] = "open"
  /\ fate' = [fate EXCEPT ![r] = "effect"]
  /\ UNCHANGED report

\* Open transactions may become void, several at the same time.
Void(S) ==
  /\ \A r \in S : fate[r] = "open"
  /\ fate' = [r \in Runs |-> IF r \in S THEN "void" ELSE fate[r]]
  /\ UNCHANGED report

ReportSuccess(r) ==
  /\ report[r] = "none" /\ fate[r] \in {"unsent", "effect"}
  /\ report' = [report EXCEPT ![r] = "success"]
  /\ UNCHANGED fate

ReportError(r) ==
  /\ report[r] = "none"
  /\ report' = [report EXCEPT ![r] = "error"]
  /\ UNCHANGED fate

DeliveryNext ==
  \/ \E r \in Runs : Submit(r) \/ TakeEffect(r) \/ ReportSuccess(r) \/ ReportError(r)
  \/ \E S \in SUBSET Runs : Void(S)

DeliverySpec == DeliveryInit /\ [][DeliveryNext]_deliveryVars
=============================================================================
