------------------------------- MODULE CanonFlow -------------------------------
(***************************************************************************)
(* What every two-punch cycle promises (APEX_CANON_FLOW_PATCH.md): gate ->  *)
(* C1 -> fork simulation -> execute C1 -> reload state -> C2 -> fork        *)
(* simulation -> execute C2 or not.  CanonicalPipeline and ExecutionRouter  *)
(* are shown to implement it.                                               *)
(***************************************************************************)

VARIABLES
  c1Sim,     \* verdict of C1's own fork simulation
  c1Exec,    \* C1 has been handed to execution, which may refuse it or fail
  reloaded,  \* the state C2 sees was read after that
  c2Plan,    \* C2's decision
  c2Sim,     \* verdict of C2's own fork simulation
  c2Exec     \* C2 has been handed to execution

flow == <<c1Sim, c1Exec, reloaded, c2Plan, c2Sim, c2Exec>>

Start ==
  /\ c1Sim = "none" /\ c1Exec = FALSE /\ reloaded = FALSE
  /\ c2Plan = "none" /\ c2Sim = "none" /\ c2Exec = FALSE

SimulateC1 ==
  /\ c1Sim = "none"
  /\ c1Sim' \in {"pass", "fail"}
  /\ UNCHANGED <<c1Exec, reloaded, c2Plan, c2Sim, c2Exec>>

ExecuteC1 ==
  /\ c1Sim = "pass"
  /\ ~c1Exec
  /\ c1Exec' = TRUE
  /\ UNCHANGED <<c1Sim, reloaded, c2Plan, c2Sim, c2Exec>>

ReloadState ==
  /\ c1Exec
  /\ ~reloaded
  /\ reloaded' = TRUE
  /\ UNCHANGED <<c1Sim, c1Exec, c2Plan, c2Sim, c2Exec>>

PlanC2 ==
  /\ reloaded
  /\ c2Plan = "none"
  /\ c2Plan' \in {"EXECUTE", "NO_OP", "INVALID"}
  /\ UNCHANGED <<c1Sim, c1Exec, reloaded, c2Sim, c2Exec>>

SimulateC2 ==
  /\ c2Plan \in {"EXECUTE", "NO_OP"}
  /\ c2Sim = "none"
  /\ c2Sim' \in {"pass", "fail"}
  /\ UNCHANGED <<c1Sim, c1Exec, reloaded, c2Plan, c2Exec>>

ExecuteC2 ==
  /\ c2Plan = "EXECUTE"
  /\ c2Sim = "pass"
  /\ ~c2Exec
  /\ c2Exec' = TRUE
  /\ UNCHANGED <<c1Sim, c1Exec, reloaded, c2Plan, c2Sim>>

\* A cycle may stop anywhere (a rejection, an error, a crash); the next one
\* starts from nothing.
NextCycle == Start'

Step ==
  \/ SimulateC1 \/ ExecuteC1 \/ ReloadState
  \/ PlanC2 \/ SimulateC2 \/ ExecuteC2
  \/ NextCycle

Spec == Start /\ [][Step]_flow

---------------------------------------------------------------------------
\* Each step of the cycle rests on the whole chain of steps before it.
Chained ==
  /\ c1Exec => c1Sim = "pass"
  /\ reloaded => c1Exec
  /\ c2Plan # "none" => reloaded
  /\ c2Sim # "none" => c2Plan \in {"EXECUTE", "NO_OP"}
  /\ c2Exec => c2Plan = "EXECUTE" /\ c2Sim = "pass"

\* What the canon flow is for: a second punch that is executed was planned on a
\* state read after the first punch was handed to execution, whatever came of it,
\* and both passed their simulation.
C2RestsOnC1 == c2Exec => /\ c1Exec /\ reloaded
                         /\ c1Sim = "pass" /\ c2Sim = "pass"
================================================================================
