------------------------- MODULE Transactions_proofs -------------------------
(***************************************************************************)
(* Theorems about Transactions, for any number of runs and any validity:   *)
(* the type invariant, and that scripts and cluster implement Delivery.    *)
(***************************************************************************)
EXTENDS Transactions, TLAPS

USE ValidityAssumption

\* Nothing has been started.
LEMMA TxTypeInit == TxInit => TxTypeOK
  BY DEF TxInit, TxTypeOK, NoTx

\* A step of the script or the cluster keeps the types, and a transaction exists
\* only once its script has sent it.
LEMMA RunKeepsTxType ==
  ASSUME TxTypeOK, NEW r \in Runs,
         Start(r) \/ Step(r) \/ Break(r) \/ LoseTouch(r)
  PROVE  TxTypeOK'
<1>1. CASE Send(r)
  BY <1>1 DEF TxTypeOK, Send, Goes, NoTx
<1>2. CASE Start(r) \/ Build(r)
  BY <1>2 DEF TxTypeOK, Start, Build, Goes, NoTx
<1>3. CASE EndsUnsent(r) \/ Break(r)
  BY <1>3 DEF TxTypeOK, EndsUnsent, Break, Goes, NoTx
<1>4. CASE Confirm(r) \/ SeeRefusal(r) \/ GiveUp(r) \/ LoseTouch(r)
  BY <1>4 DEF TxTypeOK, Confirm, SeeRefusal, GiveUp, LoseTouch, Goes, NoTx
<1> QED BY <1>1, <1>2, <1>3, <1>4 DEF Step

LEMMA ClusterKeepsTxType ==
  ASSUME TxTypeOK,
         NextBlock \/ \E r \in Runs : Land(r) \/ Refuse(r)
  PROVE  TxTypeOK'
<1>1. CASE NextBlock
  BY <1>1 DEF TxTypeOK, NextBlock, NoTx
<1>2. ASSUME NEW r \in Runs, Land(r) PROVE TxTypeOK'
  BY <1>2 DEF TxTypeOK, Land, IsOpen, NoTx
<1>3. ASSUME NEW r \in Runs, Refuse(r) PROVE TxTypeOK'
  BY <1>3 DEF TxTypeOK, Refuse, IsOpen, NoTx
<1> QED BY <1>1, <1>2, <1>3

LEMMA TxTypeStep == TxTypeOK /\ [TxNext]_txVars => TxTypeOK'
<1> SUFFICES ASSUME TxTypeOK, [TxNext]_txVars PROVE TxTypeOK'
  OBVIOUS
<1>1. CASE UNCHANGED txVars
  BY <1>1 DEF TxTypeOK, txVars
<1>2. CASE TxNext
  BY <1>2, RunKeepsTxType, ClusterKeepsTxType DEF TxNext
<1> QED BY <1>1, <1>2

\* Stages and transactions have their types, and a transaction exists exactly
\* when its script has sent it.
THEOREM TxTypeCorrect == TxSpec => []TxTypeOK
  BY TxTypeInit, TxTypeStep, PTL DEF TxSpec

-----------------------------------------------------------------------------
(***************************************************************************)
(* The refinement.  Send is Submit, Land is TakeEffect, a refusal and a    *)
(* block make transactions void, and the ends of main() are reports.       *)
(***************************************************************************)
LEMMA DeliveryStarts == TxInit => DeliveryOfRuns!DeliveryInit
  BY DEF TxInit, NoTx, DeliveryOfRuns!DeliveryInit, FateOf, ReportOf

LEMMA SendIsSubmit ==
  ASSUME TxTypeOK, NEW r \in Runs, Send(r)
  PROVE  DeliveryOfRuns!Submit(r)
<1>1. FateOf[r] = "unsent" /\ ReportOf[r] = "none"
  BY DEF TxTypeOK, Send, Goes, NoTx, FateOf, ReportOf
<1>2. FateOf' = [FateOf EXCEPT ![r] = "open"]
  BY DEF TxTypeOK, Send, FateOf
<1>3. ReportOf' = ReportOf
  BY DEF TxTypeOK, Send, Goes, ReportOf
<1> QED BY <1>1, <1>2, <1>3 DEF DeliveryOfRuns!Submit

LEMMA LandIsTakeEffect ==
  ASSUME TxTypeOK, NEW r \in Runs, Land(r)
  PROVE  DeliveryOfRuns!TakeEffect(r)
<1>1. FateOf[r] = "open"
  BY DEF TxTypeOK, Land, IsOpen, FateOf
<1>2. FateOf' = [FateOf EXCEPT ![r] = "effect"]
  BY DEF TxTypeOK, Land, FateOf
<1>3. ReportOf' = ReportOf
  BY DEF Land, ReportOf
<1> QED BY <1>1, <1>2, <1>3 DEF DeliveryOfRuns!TakeEffect

LEMMA RefuseIsVoid ==
  ASSUME TxTypeOK, NEW r \in Runs, Refuse(r)
  PROVE  DeliveryOfRuns!Void({r})
<1>1. FateOf[r] = "open"
  BY DEF TxTypeOK, Refuse, IsOpen, FateOf
<1>2. FateOf' = [q \in Runs |-> IF q \in {r} THEN "void" ELSE FateOf[q]]
  BY DEF TxTypeOK, Refuse, FateOf
<1>3. ReportOf' = ReportOf
  BY DEF Refuse, ReportOf
<1> QED BY <1>1, <1>2, <1>3 DEF DeliveryOfRuns!Void

\* A block is the last one for those that have one block left.
LEMMA BlockIsVoid ==
  ASSUME TxTypeOK, NextBlock
  PROVE  \E S \in SUBSET Runs : DeliveryOfRuns!Void(S)
<1> DEFINE S == {r \in Runs : tx[r].status = "pending" /\ tx[r].ttl = 1}
<1>1. ASSUME NEW r \in S PROVE FateOf[r] = "open"
  <2>1. r \in Runs /\ tx[r].status = "pending" /\ tx[r].ttl # 0
    OBVIOUS
  <2> QED BY <2>1 DEF FateOf
<1>2. ASSUME NEW r \in Runs
      PROVE  FateOf'[r] = IF r \in S THEN "void" ELSE FateOf[r]
  <2>1. tx[r] \in [status : {"none", "pending", "landed", "refused"}, ttl : 0 .. Validity]
    BY DEF TxTypeOK
  <2>2. /\ tx'[r].status = tx[r].status
        /\ tx'[r].ttl = IF tx[r].ttl > 0 THEN tx[r].ttl - 1 ELSE 0
    BY <2>1 DEF NextBlock
  <2> QED BY <2>1, <2>2 DEF FateOf
<1>3. FateOf' = [r \in Runs |-> IF r \in S THEN "void" ELSE FateOf[r]]
  BY <1>2 DEF FateOf
<1>4. ReportOf' = ReportOf
  BY DEF NextBlock, ReportOf
<1> QED BY <1>1, <1>3, <1>4 DEF DeliveryOfRuns!Void

\* Success is reported by a script that had nothing to send, or has seen its
\* transaction land.
LEMMA EndIsReport ==
  ASSUME TxTypeOK, NEW r \in Runs,
         \/ EndsUnsent(r) \/ Confirm(r) \/ SeeRefusal(r) \/ GiveUp(r)
         \/ LoseTouch(r) \/ Break(r)
  PROVE  DeliveryOfRuns!ReportSuccess(r) \/ DeliveryOfRuns!ReportError(r)
<1>1. UNCHANGED tx /\ FateOf' = FateOf
  BY DEF EndsUnsent, Confirm, SeeRefusal, GiveUp, LoseTouch, Break, FateOf
<1>2. CASE EndsUnsent(r) \/ Confirm(r)
  <2>1. ReportOf[r] = "none" /\ FateOf[r] \in {"unsent", "effect"}
    BY <1>2 DEF TxTypeOK, EndsUnsent, Confirm, Goes, NoTx, FateOf, ReportOf
  <2>2. ReportOf' = [ReportOf EXCEPT ![r] = "success"]
    BY <1>2 DEF TxTypeOK, EndsUnsent, Confirm, Goes, ReportOf
  <2> QED BY <1>1, <2>1, <2>2 DEF DeliveryOfRuns!ReportSuccess
<1>3. CASE SeeRefusal(r) \/ GiveUp(r) \/ LoseTouch(r) \/ Break(r)
  <2>1. ReportOf[r] = "none"
    BY <1>3 DEF TxTypeOK, SeeRefusal, GiveUp, LoseTouch, Break, Goes, ReportOf
  <2>2. ReportOf' = [ReportOf EXCEPT ![r] = "error"]
    BY <1>3 DEF TxTypeOK, SeeRefusal, GiveUp, LoseTouch, Break, Goes, ReportOf
  <2> QED BY <1>1, <2>1, <2>2 DEF DeliveryOfRuns!ReportError
<1> QED BY <1>2, <1>3

\* Preparing a transaction shows in neither fate nor report.
LEMMA PreparingIsStutter ==
  ASSUME TxTypeOK, NEW r \in Runs, Start(r) \/ Build(r)
  PROVE  UNCHANGED <<FateOf, ReportOf>>
<1>1. FateOf' = FateOf
  BY DEF Start, Build, FateOf
<1>2. ReportOf' = ReportOf
  BY DEF TxTypeOK, Start, Build, Goes, ReportOf
<1> QED BY <1>1, <1>2

LEMMA TxStepDelivers ==
  TxTypeOK /\ [TxNext]_txVars
    => [DeliveryOfRuns!DeliveryNext]_(DeliveryOfRuns!deliveryVars)
<1> SUFFICES ASSUME TxTypeOK, [TxNext]_txVars
             PROVE  [DeliveryOfRuns!DeliveryNext]_(DeliveryOfRuns!deliveryVars)
  OBVIOUS
<1> USE DEF DeliveryOfRuns!DeliveryNext, DeliveryOfRuns!deliveryVars
<1>1. CASE UNCHANGED txVars
  BY <1>1 DEF txVars, FateOf, ReportOf
<1>2. CASE NextBlock
  BY <1>2, BlockIsVoid
<1>3. ASSUME NEW r \in Runs,
             Start(r) \/ Step(r) \/ Break(r) \/ LoseTouch(r) \/ Land(r) \/ Refuse(r)
      PROVE  [DeliveryOfRuns!DeliveryNext]_(DeliveryOfRuns!deliveryVars)
  <2>1. CASE Start(r) \/ Build(r)
    BY <2>1, PreparingIsStutter
  <2>2. CASE Send(r)
    BY <2>2, SendIsSubmit
  <2>3. CASE Land(r)
    BY <2>3, LandIsTakeEffect
  <2>4. CASE Refuse(r)
    BY <2>4, RefuseIsVoid
  <2>5. CASE EndsUnsent(r) \/ Confirm(r) \/ SeeRefusal(r) \/ GiveUp(r) \/ LoseTouch(r) \/ Break(r)
    BY <2>5, EndIsReport
  <2> QED BY <1>3, <2>1, <2>2, <2>3, <2>4, <2>5 DEF Step
<1> QED BY <1>1, <1>2, <1>3 DEF TxNext

\* Whatever is lost, late or given up, a transaction takes effect once or never,
\* and success is reported only of one that has.
THEOREM ScriptsDeliver == TxSpec => ImplementsDelivery
  BY DeliveryStarts, TxStepDelivers, TxTypeCorrect, PTL
  DEF TxSpec, ImplementsDelivery, DeliveryOfRuns!DeliverySpec
=============================================================================
