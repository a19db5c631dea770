---------------------------- MODULE ExecutionRouter ----------------------------
(***************************************************************************)
(* ExecutionRouter.process_discovery_pipeline (strategies/                  *)
(* execution_router.py) with the two strategies it drives, C1Aggressor and  *)
(* C2Surgeon: plan C1, simulate it, execute it through ContractInvoker,     *)
(* reload the state, plan C2 on it, simulate and execute C2.  The router,   *)
(* its strategies and the invoker run in one process; the chain moves       *)
(* between any two of their steps.                                          *)
(***************************************************************************)
EXTENDS ContractInvoker, FiniteSets

CONSTANTS
  MappingResults,  \* the strategies answer with dicts ({'success': ...},
                   \* {'action': ...}), as the router reads them; FALSE: with
                   \* an ExecutionResult and {'decision': ...}, as C1Aggressor
                   \* and C2Surgeon do
  Faults,          \* planning or deriving the post-C1 state may raise
  MaxCycles        \* bound on the cycles

ASSUME RouterAssumption ==
  /\ MappingResults \in BOOLEAN /\ Faults \in BOOLEAN
  /\ MaxCycles \in Nat
  /\ 2 * MaxCycles <= MaxCalls
  /\ {"C1", "C2"} \subseteq Leg

VARIABLES
  rpc,       \* where the cycle is
  c1Plan,    \* c1['action']
  c1Sim,     \* c1_fork_sim['status']
  c1Result,  \* c1_execution: its success, "pending" while the strategy runs
  c1Tx,      \* the transaction behind it
  view,      \* post_c1_route: the route, or the route after C1's trade
  c2Plan,    \* c2.get('action')
  c2Sim,     \* c2_fork_sim['status']
  c2Result,  \* c2_execution
  cycles     \* cycles started

routerVars == <<rpc, c1Plan, c1Sim, c1Result, c1Tx, view, c2Plan, c2Sim, c2Result, cycles>>
allVars    == <<vars, routerVars>>

CycleStage == AtRest \cup {"planC1", "simC1", "execC1", "awaitC1", "reload",
                           "planC2", "simC2", "execC2", "awaitC2"}
Outcome == {"none", "pending", "success", "failure"}

RouterInit ==
  /\ Init
  /\ rpc = "idle" /\ cycles = 0
  /\ c1Plan = "none" /\ c1Sim = "none" /\ c1Result = "none" /\ c1Tx = NoTx
  /\ view = "none"
  /\ c2Plan = "none" /\ c2Sim = "none" /\ c2Result = "none"

ClearCycle ==
  /\ c1Plan' = "none" /\ c1Sim' = "none" /\ c1Result' = "none" /\ c1Tx' = NoTx
  /\ view' = "none"
  /\ c2Plan' = "none" /\ c2Sim' = "none" /\ c2Result' = "none"

---------------------------------------------------------------------------
(* The cycle, call by call. *)

StartCycle ==
  /\ rpc \in AtRest
  /\ pc \in AtRest
  /\ cycles < MaxCycles
  /\ cycles' = cycles + 1
  /\ rpc' = "planC1"
  /\ ClearCycle
  /\ UNCHANGED vars

\* The optimizer, the mempool check or a simulator outside a try raises.
PlanningRaises ==
  /\ Faults
  /\ rpc \in {"planC1", "planC2"}
  /\ rpc' = "raised"
  /\ UNCHANGED <<vars, c1Plan, c1Sim, c1Result, c1Tx, view, c2Plan, c2Sim, c2Result, cycles>>

\* prepare_contract_strike: STRIKE when the profitability gate and the mempool
\* check pass.
PrepareC1 ==
  /\ rpc = "planC1"
  /\ c1Plan' \in {"STRIKE", "ABORT"}
  /\ rpc' = "simC1"
  /\ UNCHANGED <<vars, c1Sim, c1Result, c1Tx, view, c2Plan, c2Sim, c2Result, cycles>>

\* (A fault: only a strike is held up by its simulation.)
SimulateC1Advisory ==
  /\ rpc = "simC1"
  /\ c1Sim' \in {"pass", "fail"}
  /\ rpc' = IF c1Sim' = "pass" \/ c1Plan = "ABORT" THEN "execC1" ELSE "returned"
  /\ UNCHANGED <<vars, c1Plan, c1Result, c1Tx, view, c2Plan, c2Sim, c2Result, cycles>>
\* The plan is simulated whatever its action; PASS is needed to go on.
SimulateC1 ==
  /\ rpc = "simC1"
  /\ c1Sim' \in {"pass", "fail"}
  /\ rpc' = IF c1Sim' = "pass" THEN "execC1" ELSE "returned"
  /\ UNCHANGED <<vars, c1Plan, c1Result, c1Tx, view, c2Plan, c2Sim, c2Result, cycles>>

\* execute_contract_strike: an aborted plan fails without an invocation.
StrikeC1 ==
  /\ rpc = "execC1"
  /\ \/ c1Plan = "STRIKE" /\ Invoke("C1") /\ rpc' = "awaitC1" /\ c1Result' = "pending"
     \/ c1Plan = "ABORT" /\ UNCHANGED vars /\ rpc' = "reload" /\ c1Result' = "failure"
  /\ UNCHANGED <<c1Plan, c1Sim, c1Tx, view, c2Plan, c2Sim, c2Result, cycles>>

\* build_c1_calldata refuses the plan: ValueError, nothing is sent.
CalldataRaises ==
  /\ Faults
  /\ \/ rpc = "execC1" /\ c1Plan = "STRIKE" /\ c1Result' = "failure" /\ UNCHANGED c2Result
     \/ rpc = "execC2" /\ c2Plan = "EXECUTE" /\ c2Sim = "pass"
          /\ c2Result' = "failure" /\ UNCHANGED c1Result
  /\ rpc' = "raised"
  /\ UNCHANGED <<vars, c1Plan, c1Sim, c1Tx, view, c2Plan, c2Sim, cycles>>

\* (A fault: the status of the broadcast instead of the verdict.)
VerdictByStatus(res) == IF res.success THEN "confirmed" ELSE "failure"
Verdict(res)         == IF res.success THEN "success" ELSE "failure"

\* (Faults: a failed invocation is tried again; an error is waited out.)
C1AnswersRetrying ==
  /\ rpc = "awaitC1"
  /\ \/ pc = "returned" /\ c1Result' = Verdict(result) /\ c1Tx' = result.tx /\ rpc' = "reload"
     \/ pc = "raised" /\ rpc' = "execC1" /\ UNCHANGED <<c1Result, c1Tx>>
  /\ UNCHANGED <<vars, c1Plan, c1Sim, view, c2Plan, c2Sim, c2Result, cycles>>
C1AnswersOnlyOnReturn ==
  /\ rpc = "awaitC1"
  /\ pc = "returned" /\ c1Result' = Verdict(result) /\ c1Tx' = result.tx /\ rpc' = "reload"
  /\ UNCHANGED <<vars, c1Plan, c1Sim, view, c2Plan, c2Sim, c2Result, cycles>>
C1Answers ==
  /\ rpc = "awaitC1"
  /\ \/ pc = "returned" /\ c1Result' = Verdict(result) /\ c1Tx' = result.tx /\ rpc' = "reload"
     \/ pc = "raised" /\ rpc' = "raised" /\ UNCHANGED <<c1Result, c1Tx>>
  /\ UNCHANGED <<vars, c1Plan, c1Sim, view, c2Plan, c2Sim, c2Result, cycles>>

(***************************************************************************)
(* _reload_post_c1_state: the route is advanced by C1's trade when C1       *)
(* succeeded and copied otherwise.  It asks the result for .get, which an   *)
(* ExecutionResult does not have (AttributeError).                          *)
(***************************************************************************)
PostC1WhenStruck(outcome) == IF c1Plan = "STRIKE" THEN "mutated" ELSE "original"
PostC1(outcome)           == IF outcome = "success" THEN "mutated" ELSE "original"

ReloadState ==
  /\ rpc = "reload"
  /\ \/ MappingResults /\ view' = PostC1(c1Result) /\ rpc' = "planC2"
     \/ /\ ~MappingResults \/ (Faults /\ c1Result = "success")
        /\ rpc' = "raised"
        /\ UNCHANGED view
  /\ UNCHANGED <<vars, c1Plan, c1Sim, c1Result, c1Tx, c2Plan, c2Sim, c2Result, cycles>>

\* decide_contract_action; a plan that does not say EXECUTE is not executed.
DecideC2 ==
  /\ rpc = "planC2"
  /\ c2Plan' \in {"EXECUTE", "NO_OP"}
  /\ rpc' = "simC2"
  /\ UNCHANGED <<vars, c1Plan, c1Sim, c1Result, c1Tx, view, c2Sim, c2Result, cycles>>

SimulateC2 ==
  /\ rpc = "simC2"
  /\ c2Sim' \in {"pass", "fail"}
  /\ rpc' = "execC2"
  /\ UNCHANGED <<vars, c1Plan, c1Sim, c1Result, c1Tx, view, c2Plan, c2Result, cycles>>

\* (A fault: C2's simulation is reported and not enforced.)
C2ClearedByPlan == c2Plan = "EXECUTE"
C2Cleared       == c2Plan = "EXECUTE" /\ c2Sim = "pass"

\* execute_contract_decision: a decision that is no strike fails without an
\* invocation.  A plan that is not cleared is reported as NO_OP or blocked.
StrikeC2 ==
  /\ rpc = "execC2"
  /\ \/ C2Cleared /\ Invoke("C2") /\ rpc' = "awaitC2" /\ c2Result' = "pending"
     \/ C2Cleared /\ UNCHANGED vars /\ rpc' = "returned" /\ c2Result' = "failure"
     \/ ~C2Cleared /\ UNCHANGED <<vars, c2Result>> /\ rpc' = "returned"
  /\ UNCHANGED <<c1Plan, c1Sim, c1Result, c1Tx, view, c2Plan, c2Sim, cycles>>

C2Answers ==
  /\ rpc = "awaitC2"
  /\ pc \in {"returned", "raised"}
  /\ rpc' = pc
  /\ c2Result' = IF pc = "returned" THEN Verdict(result) ELSE "failure"
  /\ UNCHANGED <<vars, c1Plan, c1Sim, c1Result, c1Tx, view, c2Plan, c2Sim, cycles>>

\* The process dies: the cycle and the invocation in it are forgotten.
ProcessCrash ==
  /\ rpc \notin AtRest
  /\ Crash \/ (pc \in AtRest /\ UNCHANGED vars)
  /\ rpc' = "idle"
  /\ ClearCycle
  /\ UNCHANGED cycles

RouterStep ==
  \/ PlanningRaises \/ PrepareC1 \/ SimulateC1 \/ StrikeC1 \/ CalldataRaises \/ C1Answers
  \/ ReloadState \/ DecideC2 \/ SimulateC2 \/ StrikeC2 \/ C2Answers

InvokerStep == CodeStep /\ UNCHANGED routerVars

RouterNext ==
  \/ StartCycle \/ RouterStep \/ InvokerStep \/ ProcessCrash
  \/ ChainStep /\ UNCHANGED routerVars

RouterSpec == RouterInit /\ [][RouterNext]_allVars

\* The event loop runs the coroutine on; nothing is asked of the chain.
FairRouterSpec == RouterSpec /\ WF_allVars(RouterStep) /\ WF_allVars(InvokerStep)

---------------------------------------------------------------------------
RouterTypeOK ==
  /\ rpc \in CycleStage
  /\ c1Plan \in {"none", "STRIKE", "ABORT"}
  /\ c1Sim \in {"none", "pass", "fail"} /\ c2Sim \in {"none", "pass", "fail"}
  /\ c1Result \in Outcome /\ c2Result \in Outcome
  /\ c1Tx \in TxId \cup {NoTx}
  /\ view \in {"none", "original", "mutated"}
  /\ c2Plan \in {"none", "EXECUTE", "NO_OP"}
  /\ cycles \in Nat

\* The router implements the canon flow, whatever the chain, the RPC endpoint or
\* the process do in the middle of an invocation.  An aborted plan is handed to
\* execute_contract_strike as well, which answers with a failure.
Canon == INSTANCE CanonFlow WITH
  c1Exec <- c1Result # "none", reloaded <- view # "none", c2Exec <- c2Result # "none"
RefinesCanonFlow == Canon!Spec

\* A transaction reaches the node only for a leg whose own simulation passed in
\* this very cycle, and C2's only when C1's step is over, C2 said EXECUTE, and the
\* state it said so on counts C1's trade exactly when C1 was reported a success.
BroadcastsAreCleared ==
  [][\A t \in TxId : (txs[t].st = "unsent" /\ txs'[t].st # "unsent") =>
       /\ c1Sim = "pass"
       /\ txs'[t].leg = "C1" => c1Plan = "STRIKE"
       /\ txs'[t].leg = "C2" =>
            /\ c1Result \in {"success", "failure"}
            /\ view = IF c1Result = "success" THEN "mutated" ELSE "original"
            /\ c2Plan = "EXECUTE" /\ c2Sim = "pass"]_allVars

\* With receipts awaited, C2 is shown a state that includes C1's trade only when
\* C1's transaction is in a block and succeeded.
MutatedViewIsMined ==
  (view = "mutated" /\ mode.send /\ mode.wait)
    => c1Tx \in TxId /\ txs[c1Tx].st = "ok"

\* C2 is handed to execution only when C1's step is over, on a state that counts
\* C1's trade exactly when C1 was reported a success, and behind both simulations.
\* C1 need not have succeeded, nor have been sent.
C2RestsOnOutcome ==
  c2Result # "none" =>
    /\ c1Result \in {"success", "failure"}
    /\ c1Result = "success" => c1Plan = "STRIKE"
    /\ view = IF c1Result = "success" THEN "mutated" ELSE "original"
    /\ c1Sim = "pass" /\ c2Plan = "EXECUTE" /\ c2Sim = "pass"

\* No leg is sent twice for one cycle, crashes and lost replies included.
OneBroadcastPerLeg ==
  \A l \in Leg : Cardinality({t \in TxId : txs[t].leg = l}) <= cycles

\* A cycle comes to an end even if the chain never includes its transactions.
CycleEnds == [](rpc \notin AtRest => <>(rpc \in AtRest))

\* A cycle that executed C1 with success goes on to C2.
C1IsFollowedByC2 == (rpc \in AtRest /\ c1Result = "success") => c2Plan # "none"
================================================================================
