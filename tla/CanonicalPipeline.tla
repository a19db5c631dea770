--------------------------- MODULE CanonicalPipeline ---------------------------
(***************************************************************************)
(* canonical_execution_pipeline (execution/pre_execution_pipeline.py): one  *)
(* call drives C1, its fork validation, its execution, the reload, C2, its  *)
(* validation and its execution through functions the caller injects.  Any  *)
(* of them may raise, and no handler stands between it and the caller.      *)
(* The market is a version number, counted from 1: other actors move it     *)
(* between any two calls, and the executions move it too.  A state or a     *)
(* plan is the version it was computed from, 0 when there is none.          *)
(***************************************************************************)
EXTENDS Naturals

CONSTANTS
  Validator,   \* fork_validate_fn is given
  Executor2,   \* execute_c2_fn is given
  Logger,      \* log_fn is given
  MaxVersion,  \* bound on the market's version
  MaxCycles    \* bound on the number of calls

ASSUME PipelineAssumption ==
  /\ Validator \in BOOLEAN /\ Executor2 \in BOOLEAN /\ Logger \in BOOLEAN
  /\ MaxVersion \in Nat /\ MaxCycles \in Nat

VARIABLES
  pc,        \* the injected function to call next
  market,    \* version of the on-chain state
  c1Basis,   \* the candidate, and so the plan of C1
  c1Sim,     \* what fork_validate_fn said of C1 ("none": not asked)
  c1Left,    \* the version execute_c1_fn left (0: C1 not executed)
  post,      \* post_c1_state
  c2Plan,    \* c2_decision
  c2Basis,   \* the state c2_fn was given
  c2Sim,     \* what fork_validate_fn said of C2
  c2Left,    \* the version execute_c2_fn left (0: C2 not executed)
  report,    \* the CanonicalPipelineResult
  logged,    \* the report log_fn was given
  cycles     \* calls made

vars == <<pc, market, c1Basis, c1Sim, c1Left, post, c2Plan, c2Basis, c2Sim, c2Left,
          report, logged, cycles>>

AtRest   == {"idle", "returned", "raised"}
Stage    == AtRest \cup {"c1", "forkC1", "execC1", "reload", "c2", "forkC2", "execC2"}
Verdict  == {"none", "pass", "fail"}
Decision == {"none", "EXECUTE", "NO_OP", "INVALID"}
Accepted == {"C2_NO_OP", "C2_EXECUTE"}
Rejected == {"C1_FORK_SIM_FAILED", "C2_NON_CANONICAL_ACTION", "C2_FORK_SIM_FAILED"}
Report   == {"none"} \cup Accepted \cup Rejected

Init ==
  /\ pc = "idle" /\ market = 1 /\ cycles = 0
  /\ c1Basis = 0 /\ c1Sim = "none" /\ c1Left = 0 /\ post = 0
  /\ c2Plan = "none" /\ c2Basis = 0 /\ c2Sim = "none" /\ c2Left = 0
  /\ report = "none" /\ logged = "none"

\* External: an actor, this program among them, moves the market.
Moves == market' \in market..(market + 1) /\ market' <= MaxVersion

Goto(stage) == pc' = stage /\ UNCHANGED <<report, logged>>

\* Build the result, hand it to log_fn when there is one, return it.
Finish(terminal) ==
  \/ /\ report' = terminal
     /\ logged' = IF Logger THEN terminal ELSE "none"
     /\ pc' = "returned"
  \/ Logger /\ Goto("raised")

---------------------------------------------------------------------------
Call ==
  /\ pc \in AtRest
  /\ cycles < MaxCycles
  /\ cycles' = cycles + 1
  /\ pc' = "c1"
  /\ c1Basis' = 0 /\ c1Sim' = "none" /\ c1Left' = 0 /\ post' = 0
  /\ c2Plan' = "none" /\ c2Basis' = 0 /\ c2Sim' = "none" /\ c2Left' = 0
  /\ report' = "none" /\ logged' = "none"
  /\ UNCHANGED market

MarketMoves ==
  /\ market < MaxVersion
  /\ market' = market + 1
  /\ UNCHANGED <<pc, c1Basis, c1Sim, c1Left, post, c2Plan, c2Basis, c2Sim, c2Left,
                 report, logged, cycles>>

\* An injected function raises before it has done anything.
Raises ==
  /\ pc \notin AtRest
  /\ Goto("raised")
  /\ UNCHANGED <<market, c1Basis, c1Sim, c1Left, post, c2Plan, c2Basis, c2Sim,
                 c2Left, cycles>>

PlanC1 ==
  /\ pc = "c1"
  /\ c1Basis' = market
  /\ Goto("forkC1")
  /\ UNCHANGED <<market, c1Sim, c1Left, post, c2Plan, c2Basis, c2Sim, c2Left, cycles>>

(***************************************************************************)
(* _canon_fork_validate: the validator's verdict is its first component or  *)
(* its truth value; without a validator every plan passes.                  *)
(***************************************************************************)
Verdicts == IF Validator THEN {"pass", "fail"} ELSE {"none"}
PassedWhenAsked(verdict) == verdict # "none"
Passed(verdict)          == verdict # "fail"

ValidateC1 ==
  /\ pc = "forkC1"
  /\ c1Sim' \in Verdicts
  /\ IF Passed(c1Sim') THEN Goto("execC1") ELSE Finish("C1_FORK_SIM_FAILED")
  /\ UNCHANGED <<market, c1Basis, c1Left, post, c2Plan, c2Basis, c2Sim, c2Left, cycles>>

\* It may also raise with C1 already on its way to the chain.
ExecuteC1 ==
  /\ pc = "execC1"
  /\ Moves
  /\ c1Left' = market'
  /\ Goto("reload") \/ Goto("raised")
  /\ UNCHANGED <<c1Basis, c1Sim, post, c2Plan, c2Basis, c2Sim, c2Left, cycles>>

ReloadState ==
  /\ pc = "reload"
  /\ post' = market
  /\ Goto("c2")
  /\ UNCHANGED <<market, c1Basis, c1Sim, c1Left, c2Plan, c2Basis, c2Sim, c2Left, cycles>>

(***************************************************************************)
(* _canon_get_action and the DO_NOTHING rewrite.  No action at all is       *)
(* NO_OP; a name outside the canon is INVALID.                              *)
(***************************************************************************)
NamedAction == {"none", "EXECUTE", "NO_OP", "DO_NOTHING", "STRIKE"}
CanonicalAsIs(action) == action
Canonical(action) ==
  CASE action \in {"EXECUTE", "NO_OP"}   -> action
    [] action \in {"none", "DO_NOTHING"} -> "NO_OP"
    [] OTHER                             -> "INVALID"

\* (A fault: C2 is planned on the candidate C1 was planned on.)
PlanC2OnCandidate ==
  /\ pc = "c2"
  /\ c2Basis' = c1Basis
  /\ \E a \in NamedAction : c2Plan' = Canonical(a)
  /\ IF c2Plan' = "INVALID" THEN Finish("C2_NON_CANONICAL_ACTION") ELSE Goto("forkC2")
  /\ UNCHANGED <<market, c1Basis, c1Sim, c1Left, post, c2Sim, c2Left, cycles>>
\* (A fault: an action outside the canon is passed on.)
PlanC2Unchecked ==
  /\ pc = "c2"
  /\ c2Basis' = post
  /\ \E a \in NamedAction : c2Plan' = Canonical(a)
  /\ Goto("forkC2")
  /\ UNCHANGED <<market, c1Basis, c1Sim, c1Left, post, c2Sim, c2Left, cycles>>
PlanC2 ==
  /\ pc = "c2"
  /\ c2Basis' = post
  /\ \E a \in NamedAction : c2Plan' = Canonical(a)
  /\ IF c2Plan' = "INVALID" THEN Finish("C2_NON_CANONICAL_ACTION") ELSE Goto("forkC2")
  /\ UNCHANGED <<market, c1Basis, c1Sim, c1Left, post, c2Sim, c2Left, cycles>>

\* Asked for NO_OP as well as for EXECUTE.
ValidateC2 ==
  /\ pc = "forkC2"
  /\ c2Sim' \in Verdicts
  /\ IF ~Passed(c2Sim') THEN Finish("C2_FORK_SIM_FAILED")
     ELSE IF c2Plan = "NO_OP" THEN Finish("C2_NO_OP")
     ELSE Goto("execC2")
  /\ UNCHANGED <<market, c1Basis, c1Sim, c1Left, post, c2Plan, c2Basis, c2Left, cycles>>

\* Without an executor C2 is only reported (a shadow execution).
ExecuteC2 ==
  /\ pc = "execC2"
  /\ IF Executor2 THEN Moves /\ c2Left' = market' ELSE UNCHANGED <<market, c2Left>>
  /\ Finish("C2_EXECUTE") \/ (Executor2 /\ Goto("raised"))
  /\ UNCHANGED <<c1Basis, c1Sim, c1Left, post, c2Plan, c2Basis, c2Sim, cycles>>

Next ==
  \/ Call \/ MarketMoves \/ Raises
  \/ PlanC1 \/ ValidateC1 \/ ExecuteC1 \/ ReloadState
  \/ PlanC2 \/ ValidateC2 \/ ExecuteC2

Spec == Init /\ [][Next]_vars

---------------------------------------------------------------------------
TypeOK ==
  /\ pc \in Stage
  /\ market \in Nat /\ c1Basis \in Nat /\ c1Left \in Nat
  /\ post \in Nat /\ c2Basis \in Nat /\ c2Left \in Nat /\ cycles \in Nat
  /\ c1Sim \in Verdict /\ c2Sim \in Verdict
  /\ c2Plan \in Decision
  /\ report \in Report /\ logged \in Report

\* The pipeline implements the canon flow when a validator is injected: each
\* leg executes after its own passed simulation only, C2 is planned on a state
\* reloaded after C1's execution, and a non-canonical action is never simulated
\* or executed.
Canon == INSTANCE CanonFlow WITH
  c1Exec <- c1Left # 0, reloaded <- post # 0, c2Exec <- c2Left # 0
RefinesCanonFlow == Canon!Spec

\* C2's plan includes what C1's execution did to the market, however the market
\* moves in between.
C2PlannedOnPostC1 ==
  c2Plan # "none" => c1Left # 0 /\ c2Basis >= c1Left

\* The report a caller gets agrees with what was executed: accepted means both
\* legs were let through, C1_FORK_SIM_FAILED that nothing was executed, and a
\* call that executed C2 is reported as C2_EXECUTE.
ReportAgrees ==
  pc = "returned" =>
    /\ report # "none"
    /\ report = "C1_FORK_SIM_FAILED" <=> c1Left = 0
    /\ report \in Accepted => "fail" \notin {c1Sim, c2Sim} /\ c2Basis # 0
    /\ c2Left # 0 => report = "C2_EXECUTE"
    /\ (report = "C2_EXECUTE" /\ Executor2) => c2Left # 0
================================================================================
