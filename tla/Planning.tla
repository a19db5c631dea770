-------------------------------- MODULE Planning --------------------------------
(***************************************************************************)
(* What decides whether and how to strike: the canonical pipeline, the SSOT *)
(* finalizer, the dual punch and the route search.  No code of the          *)
(* repository joins them, so that a behaviour belongs to the one that       *)
(* `part` names and the others stay in their initial states.                *)
(***************************************************************************)
EXTENDS CanonicalPipeline

CONSTANTS
  SizeCount, Profits, MaxGas, BatchRuns, NaN,  \* SsotFinalizer
  Nets, Params, Scale, MaxAlternates,          \* DualPunch
  Symbol, StartToken, Hops                     \* RouteGraph

VARIABLES
  part,
  build, gross, gas, fills, feesValid, ranked, best, bestNet, progress, verdict,
  runs, profitable, total,
  punch, q1, q2, v2Routes, variants, net1, nets, choice, evCycle,
  edges, minHops, maxHops, stack, found, searching

Ssot  == INSTANCE SsotFinalizer
Punch == INSTANCE DualPunch
Graph == INSTANCE RouteGraph

ASSUME PlanningAssumption ==
  Ssot!SsotAssumption /\ Punch!PunchAssumption /\ Graph!RouteAssumption

ssotVars  == <<build, gross, gas, fills, feesValid, ranked, best, bestNet, progress,
               verdict, runs, profitable, total>>
punchVars == <<punch, q1, q2, v2Routes, variants, net1, nets, choice, evCycle>>
graphVars == <<edges, minHops, maxHops, stack, found, searching>>
planningVars == <<part, vars, ssotVars, punchVars, graphVars>>

PlanningInit ==
  /\ part \in {"pipeline", "ssot", "punch", "graph"}
  /\ Init /\ Ssot!Init /\ Punch!Init /\ Graph!Init

PipelineStep ==
  /\ part = "pipeline" /\ Next
  /\ UNCHANGED <<part, ssotVars, punchVars, graphVars>>

SsotStep ==
  /\ part = "ssot" /\ Ssot!Next
  /\ UNCHANGED <<part, vars, punchVars, graphVars>>

PunchStep ==
  /\ part = "punch" /\ Punch!Next
  /\ UNCHANGED <<part, vars, ssotVars, graphVars>>

GraphStep ==
  /\ part = "graph" /\ Graph!Next
  /\ UNCHANGED <<part, vars, ssotVars, punchVars>>

PlanningNext == PipelineStep \/ SsotStep \/ PunchStep \/ GraphStep

PlanningSpec == PlanningInit /\ [][PlanningNext]_planningVars

---------------------------------------------------------------------------
\* The shape of every part's state.
PlanningTypeOK == TypeOK /\ Ssot!TypeOK /\ Punch!TypeOK /\ Graph!TypeOK

\* The size chosen is the best one to within the gas (SsotFinalizer).
BestWithinGas == Ssot!BestWithinGas

\* Punch 2 strikes exactly when some variant may (DualPunch).
NoStrikeIsMissed == Punch!NoStrikeIsMissed

\* The search returns the simple cycles in the bounds, each once (RouteGraph).
EachCycleOnce == Graph!EachCycleOnce
================================================================================
