------------------------- MODULE ExecutionRouter_proofs ------------------------
(***************************************************************************)
(* For every set of hashes and environments and any number of cycles: the   *)
(* types of ExecutionRouter, that it implements CanonFlow, that only a      *)
(* cleared leg is broadcast and at most once a cycle, and that the state C2 *)
(* is shown includes C1's trade only when that trade is mined.  The         *)
(* invariant of the invoker (ContractInvoker_proofs) is kept by every step  *)
(* of the router, each of which is a step of the invoker or a stutter.      *)
(***************************************************************************)
EXTENDS ExecutionRouter, ContractInvoker_proofs, FiniteSetTheorems

BeforeC2 == c2Plan = "none" /\ c2Sim = "none" /\ c2Result = "none"

ToC1    == {"planC1", "simC1", "execC1"}
AfterC1 == {"planC2", "simC2", "execC2", "awaitC2"}

\* How far the cycle has got, stage by stage.
Progress ==
  /\ rpc \notin {"awaitC1", "awaitC2"} => pc \in AtRest
  /\ rpc = "awaitC1" => leg = "C1" /\ c1Plan = "STRIKE"
  /\ rpc = "awaitC2" => leg = "C2" /\ c2Plan = "EXECUTE" /\ c2Sim = "pass"
  /\ rpc \in {"planC1", "simC1"} => c1Sim = "none"
  /\ rpc \in ToC1 => c1Result = "none"
  /\ rpc \in ToC1 \cup {"awaitC1", "reload"} => view = "none" /\ BeforeC2
  /\ rpc \in {"execC1", "awaitC1", "reload"} \cup AfterC1 => c1Sim = "pass"
  /\ rpc \in {"awaitC1", "reload"} \cup AfterC1 => c1Result # "none"
  /\ rpc \in AfterC1 => view # "none"
  /\ rpc = "planC2" => BeforeC2
  /\ rpc = "simC2" => c2Plan # "none" /\ c2Sim = "none"
  /\ rpc \in {"simC2", "execC2"} => c2Result = "none"
  /\ rpc = "awaitC2" => c2Result # "none"
  /\ view = "mutated" => c1Result = "success"
  /\ view = "original" => c1Result = "failure"
  /\ rpc \in {"reload"} \cup AfterC1 => c1Result \in {"success", "failure"}
  /\ c1Result = "success" => c1Plan = "STRIKE"
  /\ c2Result # "none" => /\ view # "none" /\ c1Sim = "pass"
                          /\ c2Plan = "EXECUTE" /\ c2Sim = "pass"

\* A C1 that succeeded with its receipt awaited is in a block.
C1Mined ==
  (c1Result = "success" /\ mode.send /\ mode.wait)
    => c1Tx \in TxId /\ txs[c1Tx].st = "ok"

\* The leg may still be broadcast in this cycle.
Early == {"simulate", "nonce", "estimate", "send"}

MaySend(l) ==
  \/ l = "C1" /\ (rpc \in ToC1 \/ (rpc = "awaitC1" /\ pc \in Early))
  \/ l = "C2" /\ (\/ rpc \in ToC1 \cup {"awaitC1", "reload", "planC2", "simC2", "execC2"}
                  \/ (rpc = "awaitC2" /\ pc \in Early))

Sent(l) == {t \in TxId : txs[t].leg = l}

\* What a leg may still send is not yet on its account.
Budget ==
  \A l \in Leg : /\ IsFiniteSet(Sent(l))
                 /\ Cardinality(Sent(l)) <= cycles
                 /\ MaySend(l) => Cardinality(Sent(l)) < cycles

RInv == IInv /\ RouterTypeOK /\ Progress /\ C1Mined

---------------------------------------------------------------------------
(* The chain under one step of the invoker. *)

Node == [leg : Leg \cup {"none"}, nonce : Nat, st : TxState]

\* No hash reaches the node, no mined transaction changes.
ChainQuiet ==
  \A u \in TxId : /\ txs'[u].leg = txs[u].leg
                  /\ txs'[u].st = "unsent" <=> txs[u].st = "unsent"
                  /\ txs[u].st \in Mined => txs'[u] = txs[u]

Broadcast(t) ==
  /\ pc = "send" /\ pc' \in {"submitted", "returned", "raised"} /\ leg' = leg
  /\ NodeAccepts(t)

LEMMA BroadcastEffect ==
  ASSUME TypeOK, NEW t \in TxId, NodeAccepts(t)
  PROVE  /\ txs[t].st = "unsent" /\ txs'[t].leg = leg
         /\ \A u \in TxId \ {t} : /\ txs'[u].leg = txs[u].leg
                                  /\ txs[u].st = "unsent" => txs'[u].st = "unsent"
<1>1. \A u \in TxId : txs[u] \in Node
  BY DEF TypeOK, Node
<1>2. \A u \in TxId : /\ [txs[u] EXCEPT !.st = "dropped"].leg = txs[u].leg
  BY <1>1 DEF Node
<1> QED
  BY <1>2 DEF NodeAccepts

LEMMA InvokerEffect ==
  ASSUME TypeOK, [Next]_vars
  PROVE  mode' = mode /\ (ChainQuiet \/ \E t \in TxId : Broadcast(t))
<1>1. CASE ChainStep
  <2>1. PICK t \in TxId : Evict(t) \/ \E o \in Mined : Mine(t, o)
    BY <1>1 DEF ChainStep
  <2>2. PICK s \in {"ok", "reverted", "dropped"} :
          txs[t].st = "pending" /\ txs' = [txs EXCEPT ![t].st = s] /\ mode' = mode
    BY <2>1 DEF Evict, Mine, Mined, invokerVars
  <2>3. txs \in [TxId -> Node] /\ txs[t] \in Node
    BY DEF TypeOK, Node
  <2>4. [txs[t] EXCEPT !.st = s].leg = txs[t].leg /\ [txs[t] EXCEPT !.st = s].st = s
    BY <2>3 DEF Node
  <2>5. txs'[t] = [txs[t] EXCEPT !.st = s] /\ \A u \in TxId \ {t} : txs'[u] = txs[u]
    BY <2>2, <2>3
  <2> QED
    BY <2>2, <2>4, <2>5 DEF ChainQuiet, Mined
<1>2. CASE \E t \in TxId : SendAccepted(t)
  BY <1>2 DEF SendAccepted, Broadcast
<1>3. CASE SendRaises
  BY <1>3 DEF SendRaises, RecordAndReturn, Raise, Broadcast, ChainQuiet
<1>4. CASE \E l \in Leg : Invoke(l)
  BY <1>4 DEF Invoke, ChainQuiet
<1>5. CASE \/ SimulationFails \/ SimulationOnly \/ NoAccount \/ SimulationPasses
           \/ ReadNonce \/ EstimateGas \/ RpcRaises \/ RecordSubmitted \/ ReceiptArrives
           \/ ReceiptTimeout \/ Crash
  BY <1>5 DEF SimulationFails, SimulationOnly, NoAccount, SimulationPasses, ReadNonce,
     EstimateGas, RpcRaises, RecordSubmitted, ReceiptArrives, ReceiptTimeout, Crash, ChainQuiet
<1>6. CASE UNCHANGED vars
  BY <1>6 DEF vars, ChainQuiet
<1> QED
  BY <1>1, <1>2, <1>3, <1>4, <1>5, <1>6 DEF Next, CodeStep

\* A transaction that succeeded stays so.
LEMMA OkStays ==
  ASSUME TypeOK, [Next]_vars, NEW u \in TxId, txs[u].st = "ok"
  PROVE  txs'[u].st = "ok"
  BY InvokerEffect, NodeAcceptsType DEF ChainQuiet, Mined, Broadcast

\* Where an invocation may go in one step of its own.
LEMMA CodeEffect ==
  ASSUME CodeStep
  PROVE  /\ pc \notin AtRest /\ leg' = leg
         /\ pc' \in Early => pc \in Early
<1>1. CASE SimulationFails \/ SimulationOnly \/ NoAccount \/ SimulationPasses
  BY <1>1 DEF SimulationFails, SimulationOnly, NoAccount, SimulationPasses, RecordAndReturn,
     Raise, AtRest, Early
<1>2. CASE ReadNonce \/ EstimateGas \/ RpcRaises \/ (\E t \in TxId : SendAccepted(t))
  BY <1>2 DEF ReadNonce, EstimateGas, RpcRaises, SendAccepted, AtRest, Early
<1>3. CASE SendRaises \/ RecordSubmitted \/ ReceiptArrives \/ ReceiptTimeout
  BY <1>3 DEF SendRaises, RecordSubmitted, ReceiptArrives, ReceiptTimeout, RecordAndReturn,
     Raise, AtRest, Early
<1> QED
  BY <1>1, <1>2, <1>3 DEF CodeStep

---------------------------------------------------------------------------
(* The cycle. *)

\* A step of the router is a step of the invoker or leaves it alone.
LEMMA RouterStepsInvoker == [RouterNext]_allVars => [Next]_vars
<1>1. "C1" \in Leg /\ "C2" \in Leg
  BY RouterAssumption
<1>2. RouterStep => [Next]_vars
  BY <1>1 DEF RouterStep, PlanningRaises, PrepareC1, SimulateC1, StrikeC1, CalldataRaises,
     C1Answers, ReloadState, DecideC2, SimulateC2, StrikeC2, C2Answers, Next
<1>3. StartCycle \/ InvokerStep \/ ProcessCrash \/ ChainStep => [Next]_vars
  BY DEF StartCycle, InvokerStep, ProcessCrash, Next
<1> QED
  BY <1>2, <1>3 DEF RouterNext, allVars

LEMMA RInvInit == RouterInit => RInv
<1> SUFFICES ASSUME RouterInit PROVE RInv
  OBVIOUS
<1>1. IInv
  BY IInvInit DEF RouterInit
<1>2. RouterTypeOK
  BY DEF RouterInit, RouterTypeOK, CycleStage, AtRest, Outcome
<1>3. Progress /\ C1Mined
  BY DEF RouterInit, Init, Progress, C1Mined, AtRest, ToC1, AfterC1
<1> QED
  BY <1>1, <1>2, <1>3 DEF RInv

LEMMA RouterTypeStep ==
  ASSUME IInv, RouterTypeOK, [RouterNext]_allVars
  PROVE  RouterTypeOK'
<1>1. result.tx \in TxId \cup {NoTx}
  BY DEF IInv, TypeOK
<1> USE DEF RouterTypeOK, CycleStage, AtRest, Outcome
<1>2. CASE StartCycle \/ ProcessCrash
  BY <1>2 DEF StartCycle, ProcessCrash, ClearCycle
<1>3. CASE PlanningRaises \/ PrepareC1 \/ SimulateC1 \/ DecideC2 \/ SimulateC2
  BY <1>3 DEF PlanningRaises, PrepareC1, SimulateC1, DecideC2, SimulateC2
<1>4. CASE StrikeC1 \/ StrikeC2 \/ CalldataRaises
  BY <1>4 DEF StrikeC1, StrikeC2, CalldataRaises
<1>5. CASE C1Answers \/ C2Answers
  BY <1>1, <1>5 DEF C1Answers, C2Answers, Verdict
<1>6. CASE ReloadState
  BY <1>6 DEF ReloadState, PostC1
<1>7. CASE UNCHANGED routerVars
  BY <1>7 DEF routerVars
<1> QED
  BY <1>2, <1>3, <1>4, <1>5, <1>6, <1>7 DEF RouterNext, RouterStep, InvokerStep, allVars

LEMMA ProgressStep ==
  ASSUME RInv, [RouterNext]_allVars
  PROVE  Progress'
<1> USE DEF RInv, Progress, BeforeC2, ToC1, AfterC1
<1>1. CASE StartCycle
  BY <1>1 DEF StartCycle, ClearCycle, vars, AtRest
<1>2. CASE PlanningRaises \/ PrepareC1 \/ SimulateC1
  BY <1>2 DEF PlanningRaises, PrepareC1, SimulateC1, vars, AtRest
<1>3. CASE StrikeC1
  BY <1>3 DEF StrikeC1, Invoke, vars, AtRest
<1>4. CASE CalldataRaises
  BY <1>4 DEF CalldataRaises, vars, AtRest
<1>5. CASE C1Answers
  BY <1>5 DEF C1Answers, Verdict, vars, AtRest
<1>6. CASE ReloadState
  BY <1>6 DEF ReloadState, PostC1, vars, AtRest
<1>7. CASE DecideC2 \/ SimulateC2
  BY <1>7 DEF DecideC2, SimulateC2, vars, AtRest
<1>8. CASE StrikeC2
  BY <1>8 DEF StrikeC2, C2Cleared, Invoke, vars, AtRest
<1>9. CASE C2Answers
  BY <1>9 DEF C2Answers, vars, AtRest
<1>10. CASE InvokerStep
  BY <1>10, CodeEffect DEF InvokerStep, routerVars
<1>11. CASE ProcessCrash
  BY <1>11 DEF ProcessCrash, Crash, ClearCycle, vars, AtRest
<1>12. CASE ChainStep /\ UNCHANGED routerVars
  BY <1>12, ChainStepType DEF IInv, routerVars, invokerVars
<1>13. CASE UNCHANGED allVars
  BY <1>13 DEF allVars, vars, routerVars
<1> QED
  BY <1>1, <1>2, <1>3, <1>4, <1>5, <1>6, <1>7, <1>8, <1>9, <1>10, <1>11, <1>12, <1>13
     DEF RouterNext, RouterStep

LEMMA C1MinedStep ==
  ASSUME RInv, [RouterNext]_allVars
  PROVE  C1Mined'
<1>1. [Next]_vars /\ TypeOK /\ mode' = mode
  BY RouterStepsInvoker, InvokerEffect DEF RInv, IInv
<1>2. CASE c1Result' = c1Result /\ c1Tx' = c1Tx
  BY <1>1, <1>2, OkStays DEF RInv, C1Mined
<1>3. CASE c1Result' # "success"
  BY <1>3 DEF C1Mined
<1>4. CASE C1Answers
  BY <1>2, <1>4 DEF RInv, IInv, SuccessIsConfirmed, C1Mined, C1Answers, Verdict, vars
<1>5. CASE StartCycle \/ ProcessCrash
  BY <1>3, <1>5 DEF StartCycle, ProcessCrash, ClearCycle
<1>6. CASE PlanningRaises \/ PrepareC1 \/ SimulateC1 \/ ReloadState \/ DecideC2 \/ SimulateC2
           \/ StrikeC2 \/ C2Answers
  BY <1>2, <1>6 DEF PlanningRaises, PrepareC1, SimulateC1, ReloadState, DecideC2, SimulateC2,
     StrikeC2, C2Answers
<1>7. CASE StrikeC1 \/ CalldataRaises
  BY <1>2, <1>3, <1>7 DEF StrikeC1, CalldataRaises
<1>8. CASE UNCHANGED routerVars
  BY <1>2, <1>8 DEF routerVars
<1> QED
  BY <1>4, <1>5, <1>6, <1>7, <1>8 DEF RouterNext, RouterStep, InvokerStep, allVars

LEMMA RInvNext == RInv /\ [RouterNext]_allVars => RInv'
<1> SUFFICES ASSUME RInv, [RouterNext]_allVars PROVE RInv'
  OBVIOUS
<1>1. IInv'
  BY RouterStepsInvoker, IInvNext DEF RInv
<1> QED
  BY <1>1, RouterTypeStep, ProgressStep, C1MinedStep DEF RInv

LEMMA RouterInvariance == RouterSpec => []RInv
  BY RInvInit, RInvNext, PTL DEF RouterSpec

---------------------------------------------------------------------------
(* The budget of broadcasts. *)

\* A step that starts no cycle allows no leg what it was not allowed before.
LEMMA BudgetShrinks ==
  ASSUME RInv, [RouterNext]_allVars, NEW l \in Leg, MaySend(l)'
  PROVE  StartCycle \/ MaySend(l)
<1> USE DEF MaySend, ToC1, Early
<1>1. CASE RouterStep
  BY <1>1 DEF RouterStep, PlanningRaises, PrepareC1, SimulateC1, StrikeC1, CalldataRaises,
     C1Answers, ReloadState, DecideC2, SimulateC2, StrikeC2, C2Answers
<1>2. CASE InvokerStep
  BY <1>2, CodeEffect DEF InvokerStep, routerVars
<1>3. CASE ProcessCrash
  BY <1>3 DEF ProcessCrash
<1>4. CASE ChainStep /\ UNCHANGED routerVars
  BY <1>4, ChainStepType DEF RInv, IInv, routerVars, invokerVars
<1>5. CASE UNCHANGED allVars
  BY <1>5 DEF allVars, vars, routerVars
<1> QED
  BY <1>1, <1>2, <1>3, <1>4, <1>5 DEF RouterNext

\* A broadcast is made by an invocation under way, for its own leg.
LEMMA BroadcastInCycle ==
  ASSUME RInv, [RouterNext]_allVars, NEW t \in TxId, Broadcast(t)
  PROVE  /\ UNCHANGED routerVars
         /\ \/ rpc = "awaitC1" /\ leg = "C1"
            \/ rpc = "awaitC2" /\ leg = "C2"
<1>1. rpc \in {"awaitC1", "awaitC2"}
  BY DEF RInv, Progress, Broadcast, AtRest
<1>2. pc' # pc /\ pc' # "idle"
  BY DEF Broadcast
<1>3. UNCHANGED routerVars
  <2>1. ~RouterStep
    BY <1>1, <1>2 DEF RouterStep, PlanningRaises, PrepareC1, SimulateC1, StrikeC1,
       CalldataRaises, C1Answers, ReloadState, DecideC2, SimulateC2, StrikeC2, C2Answers, vars
  <2>2. ~StartCycle /\ ~ProcessCrash
    BY <1>1, <1>2 DEF StartCycle, ProcessCrash, Crash, vars, AtRest
  <2> QED
    BY <2>1, <2>2 DEF RouterNext, InvokerStep, allVars
<1> QED
  BY <1>1, <1>3 DEF RInv, Progress

LEMMA CyclesCount ==
  ASSUME RInv, [RouterNext]_allVars
  PROVE  /\ cycles \in Nat /\ cycles' \in Nat /\ cycles' >= cycles
         /\ StartCycle => cycles' = cycles + 1 /\ txs' = txs
<1> USE DEF RInv, RouterTypeOK
<1>1. CASE StartCycle
  BY <1>1 DEF StartCycle, vars
<1>2. CASE RouterStep
  BY <1>2 DEF RouterStep, PlanningRaises, PrepareC1, SimulateC1, StrikeC1, CalldataRaises,
     C1Answers, ReloadState, DecideC2, SimulateC2, StrikeC2, C2Answers, StartCycle, ToC1, AtRest
<1>3. CASE InvokerStep \/ ProcessCrash \/ (ChainStep /\ UNCHANGED routerVars) \/ UNCHANGED allVars
  BY <1>3 DEF InvokerStep, ProcessCrash, routerVars, allVars, StartCycle, vars
<1> QED
  BY <1>1, <1>2, <1>3 DEF RouterNext

LEMMA BudgetInit == RouterInit => Budget
<1> SUFFICES ASSUME RouterInit, NEW l \in Leg
             PROVE  /\ IsFiniteSet(Sent(l)) /\ Cardinality(Sent(l)) <= cycles
                    /\ MaySend(l) => Cardinality(Sent(l)) < cycles
  BY DEF Budget
<1>1. Sent(l) = {}
  BY InvokerAssumption DEF RouterInit, Init, Sent
<1>2. ~MaySend(l) /\ cycles = 0
  BY DEF RouterInit, MaySend, ToC1
<1> QED
  BY <1>1, <1>2, FS_EmptySet

LEMMA BudgetNext == RInv /\ Budget /\ [RouterNext]_allVars => Budget'
<1> SUFFICES ASSUME RInv, Budget, [RouterNext]_allVars, NEW l \in Leg
             PROVE  /\ IsFiniteSet(Sent(l))' /\ (Cardinality(Sent(l)) <= cycles)'
                    /\ MaySend(l)' => (Cardinality(Sent(l)) < cycles)'
  BY DEF Budget
<1>1. TypeOK /\ [Next]_vars
  BY RouterStepsInvoker DEF RInv, IInv
<1>2. /\ IsFiniteSet(Sent(l)) /\ Cardinality(Sent(l)) \in Nat
      /\ Cardinality(Sent(l)) <= cycles
      /\ MaySend(l) => Cardinality(Sent(l)) < cycles
  BY FS_CardinalityType DEF Budget
<1>3. /\ cycles \in Nat /\ cycles' \in Nat /\ cycles' >= cycles
      /\ StartCycle => cycles' = cycles + 1 /\ txs' = txs
  BY CyclesCount
<1>4. CASE Sent(l)' \subseteq Sent(l)
  <2>1. IsFiniteSet(Sent(l)') /\ Cardinality(Sent(l)') <= Cardinality(Sent(l))
        /\ Cardinality(Sent(l)') \in Nat
    BY <1>2, <1>4, FS_Subset, FS_CardinalityType
  <2>2. MaySend(l)' => StartCycle \/ MaySend(l)
    BY BudgetShrinks
  <2> QED
    BY <1>2, <1>3, <2>1, <2>2
<1>5. ASSUME NEW t \in TxId, Broadcast(t), l = leg
      PROVE  /\ IsFiniteSet(Sent(l))' /\ (Cardinality(Sent(l)) <= cycles)'
             /\ MaySend(l)' => (Cardinality(Sent(l)) < cycles)'
  <2>1. UNCHANGED routerVars /\ ((rpc = "awaitC1" /\ l = "C1") \/ (rpc = "awaitC2" /\ l = "C2"))
    BY <1>5, BroadcastInCycle
  <2>2. MaySend(l) /\ ~MaySend(l)' /\ cycles' = cycles
    BY <1>5, <2>1 DEF MaySend, Broadcast, Early, ToC1, routerVars
  <2>3. Sent(l)' \subseteq Sent(l) \cup {t}
    BY <1>1, <1>5, BroadcastEffect DEF Broadcast, Sent
  <2>4. /\ IsFiniteSet(Sent(l) \cup {t})
        /\ Cardinality(Sent(l) \cup {t}) <= Cardinality(Sent(l)) + 1
    BY <1>2, FS_AddElement
  <2>5. IsFiniteSet(Sent(l)') /\ Cardinality(Sent(l)') <= Cardinality(Sent(l) \cup {t})
    BY <2>3, <2>4, FS_Subset
  <2>6. Cardinality(Sent(l) \cup {t}) \in Nat /\ Cardinality(Sent(l)') \in Nat
    BY <2>4, <2>5, FS_CardinalityType
  <2> QED
    BY <1>2, <1>3, <2>2, <2>4, <2>5, <2>6
<1>6. ASSUME NEW t \in TxId, Broadcast(t), l # leg
      PROVE  Sent(l)' \subseteq Sent(l)
  BY <1>1, <1>6, BroadcastEffect DEF Broadcast, Sent
<1>7. ASSUME ChainQuiet
      PROVE  Sent(l)' \subseteq Sent(l)
  BY <1>7 DEF ChainQuiet, Sent
<1> QED
  BY <1>1, <1>4, <1>5, <1>6, <1>7, InvokerEffect

---------------------------------------------------------------------------
\* The variables of the router keep the shape the code gives them.
THEOREM RouterTypeCorrect == RouterSpec => []RouterTypeOK
<1>1. RInv => RouterTypeOK
  BY DEF RInv
<1> QED
  BY <1>1, RouterInvariance, PTL

\* C2 is shown a state with C1's trade only when that trade is in a block, for
\* any number of cycles, replacements, late blocks and crashes.
THEOREM MutatedView == RouterSpec => []MutatedViewIsMined
<1>1. RInv => MutatedViewIsMined
  BY DEF RInv, Progress, C1Mined, MutatedViewIsMined
<1> QED
  BY <1>1, RouterInvariance, PTL

\* No leg is sent more often than there were cycles, crashes and lost replies
\* included.
THEOREM OneBroadcast == RouterSpec => []OneBroadcastPerLeg
<1>1. Budget => OneBroadcastPerLeg
  BY DEF Budget, Sent, OneBroadcastPerLeg
<1> QED
  BY <1>1, BudgetInit, BudgetNext, RouterInvariance, PTL DEF RouterSpec

\* A hash reaches the node only for a leg cleared in this very cycle.
THEOREM Cleared == RouterSpec => BroadcastsAreCleared
<1>1. ASSUME RInv, [RouterNext]_allVars, NEW t \in TxId,
             txs[t].st = "unsent", txs'[t].st # "unsent"
      PROVE  /\ c1Sim = "pass"
             /\ txs'[t].leg = "C1" => c1Plan = "STRIKE"
             /\ txs'[t].leg = "C2" =>
                  /\ c1Result \in {"success", "failure"}
                  /\ view = (IF c1Result = "success" THEN "mutated" ELSE "original")
                  /\ c2Plan = "EXECUTE" /\ c2Sim = "pass"
  <2>1. TypeOK /\ [Next]_vars
    BY <1>1, RouterStepsInvoker DEF RInv, IInv
  <2>2. PICK u \in TxId : Broadcast(u)
    BY <1>1, <2>1, InvokerEffect DEF ChainQuiet
  <2>3. txs'[t].leg = leg
    BY <1>1, <2>1, <2>2, BroadcastEffect DEF Broadcast
  <2>4. \/ rpc = "awaitC1" /\ leg = "C1"
        \/ rpc = "awaitC2" /\ leg = "C2"
    BY <1>1, <2>2, BroadcastInCycle
  <2> QED
    BY <1>1, <2>3, <2>4 DEF RInv, RouterTypeOK, Progress, AfterC1
<1>2. RInv /\ [RouterNext]_allVars =>
        [\A t \in TxId : (txs[t].st = "unsent" /\ txs'[t].st # "unsent") =>
           /\ c1Sim = "pass"
           /\ txs'[t].leg = "C1" => c1Plan = "STRIKE"
           /\ txs'[t].leg = "C2" =>
                /\ c1Result \in {"success", "failure"}
                /\ view = (IF c1Result = "success" THEN "mutated" ELSE "original")
                /\ c2Plan = "EXECUTE" /\ c2Sim = "pass"]_allVars
  BY <1>1
<1> QED
  BY <1>2, RouterInvariance, PTL DEF RouterSpec, BroadcastsAreCleared

\* Every step of the router is a step of the canon flow, or leaves it alone.
LEMMA CanonInit == RouterInit => Canon!Start
  BY DEF RouterInit, Canon!Start

LEMMA CanonStep ==
  ASSUME RInv, [RouterNext]_allVars
  PROVE  [Canon!Step]_(Canon!flow)
<1> USE DEF RInv, Progress, BeforeC2, ToC1, AfterC1, Canon!flow, Canon!Step
<1>1. CASE StartCycle \/ ProcessCrash
  BY <1>1 DEF StartCycle, ProcessCrash, ClearCycle, Canon!NextCycle, Canon!Start
<1>2. CASE PlanningRaises \/ PrepareC1
  BY <1>2 DEF PlanningRaises, PrepareC1
<1>3. CASE SimulateC1
  BY <1>3 DEF SimulateC1, Canon!SimulateC1
<1>4. CASE StrikeC1
  BY <1>4 DEF StrikeC1, Canon!ExecuteC1
<1>5. CASE CalldataRaises
  BY <1>5 DEF CalldataRaises, Canon!ExecuteC1, Canon!ExecuteC2
<1>6. CASE C1Answers
  BY <1>6 DEF C1Answers, Verdict
<1>7. CASE ReloadState
  BY <1>7 DEF ReloadState, PostC1, Canon!ReloadState
<1>8. CASE DecideC2
  BY <1>8 DEF DecideC2, Canon!PlanC2
<1>9. CASE SimulateC2
  BY <1>9 DEF SimulateC2, RouterTypeOK, Canon!SimulateC2
<1>10. CASE StrikeC2
  BY <1>10 DEF StrikeC2, C2Cleared, Canon!ExecuteC2
<1>11. CASE C2Answers
  BY <1>11 DEF C2Answers, Verdict
<1>12. CASE UNCHANGED routerVars
  BY <1>12 DEF routerVars
<1> QED
  BY <1>1, <1>2, <1>3, <1>4, <1>5, <1>6, <1>7, <1>8, <1>9, <1>10, <1>11, <1>12
     DEF RouterNext, RouterStep, InvokerStep, allVars

\* The router implements the canon flow.
THEOREM RouterRefinement == RouterSpec => RefinesCanonFlow
<1>1. RInv /\ [RouterNext]_allVars => [Canon!Step]_(Canon!flow)
  BY CanonStep
<1> QED
  BY <1>1, CanonInit, RouterInvariance, PTL DEF RouterSpec, RefinesCanonFlow, Canon!Spec

\* C2 is handed to execution only when the step of C1 is over and behind both
\* simulations, and then on a state that counts C1's trade exactly when C1 was
\* reported a success; an aborted or failed C1 does not hold it up.
THEOREM RouterC2Justified == RouterSpec => []C2RestsOnOutcome
<1>1. RInv => C2RestsOnOutcome
  BY DEF RInv, RouterTypeOK, Progress, C2RestsOnOutcome
<1> QED
  BY <1>1, RouterInvariance, PTL
================================================================================
