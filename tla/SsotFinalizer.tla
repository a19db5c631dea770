------------------------------ MODULE SsotFinalizer -----------------------------
(***************************************************************************)
(* One run of SSOTPipelineFinalizer: rank the candidate sizes one after the *)
(* other, audit the best, decide, simulate a batch of executions, and hand  *)
(* an approved plan to the executor boundary.  The Python package           *)
(* (python/ssot_pipeline, core/ssot_pipeline.py) and the Rust crate         *)
(* (rust/ssot_pipeline) are two builds of it that differ in what p_net is:  *)
(* Rust has taken the gas off it, Python has not.  The pool mathematics are *)
(* abstracted to the gross profit of each size, any function of the size.   *)
(***************************************************************************)
EXTENDS Integers

CONSTANTS
  SizeCount,  \* len(sizes_to_test), equal sizes counted once
  Profits,    \* bound: the gross profits considered
  MaxGas,     \* bound on c_total, the owner's gas
  BatchRuns,  \* n_batch_runs
  NaN         \* the profit where the mathematics have no number (inf / inf)

SsotAssumption ==
  /\ SizeCount \in Nat \ {0} /\ MaxGas \in Nat /\ BatchRuns \in Nat
  /\ Profits \subseteq Int /\ NaN \notin Int

VARIABLES
  build,      \* which of the two runs
  gross,      \* p_gross of each size
  gas,        \* c_total
  fills,      \* p_fill > 0
  feesValid,  \* both fees are in [0, 1)
  ranked,     \* how many sizes the loop has ranked
  best,       \* best_size, 0 for None
  bestNet,    \* best_p_net, once there is a best size
  progress,   \* where the run is
  verdict,    \* c2_decision
  runs,       \* simulated executions
  profitable, \* n_profitable_strikes
  total       \* total_actual_profit

vars == <<build, gross, gas, fills, feesValid, ranked, best, bestNet, progress,
          verdict, runs, profitable, total>>

Size == 1..SizeCount
Progress == {"idle", "ranking", "failed", "batch", "done", "approved", "refused"}

Init ==
  /\ build = "python" /\ gross = [s \in Size |-> NaN] /\ gas = 0
  /\ fills = FALSE /\ feesValid = FALSE
  /\ ranked = 0 /\ best = 0 /\ bestNet = 0
  /\ progress = "idle" /\ verdict = "DO_NOTHING"
  /\ runs = 0 /\ profitable = 0 /\ total = 0

\* run is called; nothing of an earlier call is kept.
Run ==
  /\ progress = "idle" /\ progress' = "ranking"
  /\ build' \in {"python", "rust"}
  /\ gross' \in [Size -> Profits \cup {NaN}]
  /\ gas' \in 0..MaxGas /\ fills' \in BOOLEAN /\ feesValid' \in BOOLEAN
  /\ UNCHANGED <<ranked, best, bestNet, verdict, runs, profitable, total>>

\* two_leg_arb_profit: owner_submission_edge and p_net.
Edge(s) == gross[s] - gas
Net(s)  == IF build = "rust" THEN Edge(s) ELSE gross[s]

\* `if ranking_edge > best_p_net`; no comparison with NaN holds.  (A fault: >= 0.)
BeatsZero(s) == gross[s] # NaN /\ (best = 0 \/ Edge(s) >= 0)
Beats(s)     == gross[s] # NaN /\ (best = 0 \/ Edge(s) > bestNet)

RankSize ==
  /\ progress = "ranking" /\ ranked < SizeCount
  /\ LET s == ranked + 1 IN
       /\ ranked' = s
       /\ best' = IF Beats(s) THEN s ELSE best
       /\ bestNet' = IF Beats(s) THEN Net(s) ELSE bestNet
  /\ UNCHANGED <<build, gross, gas, fills, feesValid, progress, verdict, runs,
                 profitable, total>>

\* ValueError, and Err in Rust.
NoValidSize ==
  /\ progress = "ranking" /\ ranked = SizeCount /\ best = 0
  /\ progress' = "failed"
  /\ UNCHANGED <<build, gross, gas, fills, feesValid, ranked, best, bestNet,
                 verdict, runs, profitable, total>>

\* _profitability_gate: Python asks the edge, Rust its p_net, which is the edge.
Gate == Edge(best) > 0 /\ fills

Decide ==
  /\ progress = "ranking" /\ ranked = SizeCount /\ best # 0
  /\ verdict' = IF Gate THEN "STRIKE" ELSE "DO_NOTHING"
  /\ progress' = "batch"
  /\ UNCHANGED <<build, gross, gas, fills, feesValid, ranked, best, bestNet, runs,
                 profitable, total>>

\* simulate_one_run: a degradation factor, never negative (here 0, 1 or 2).
SimulateRun ==
  /\ progress = "batch" /\ runs < BatchRuns
  /\ runs' = runs + 1
  /\ \E f \in (IF verdict = "STRIKE" THEN 0..2 ELSE {0}) :
       /\ total' = total + Net(best) * f
       /\ profitable' = IF Net(best) * f > 0 THEN profitable + 1 ELSE profitable
  /\ UNCHANGED <<build, gross, gas, fills, feesValid, ranked, best, bestNet,
                 progress, verdict>>

Finish ==
  /\ progress = "batch" /\ runs = BatchRuns
  /\ progress' = "done"
  /\ UNCHANGED <<build, gross, gas, fills, feesValid, ranked, best, bestNet,
                 verdict, runs, profitable, total>>

\* audit_two_leg_route_envelope: the finalizer hands it its own numbers, whose
\* identities hold, so that the fees decide.
AuditPasses == feesValid

\* extract_approved_plan, which only Rust has.
ExtractPlan ==
  /\ progress = "done" /\ build = "rust"
  /\ progress' = IF AuditPasses /\ verdict = "STRIKE" THEN "approved" ELSE "refused"
  /\ UNCHANGED <<build, gross, gas, fills, feesValid, ranked, best, bestNet,
                 verdict, runs, profitable, total>>

Next ==
  Run \/ RankSize \/ NoValidSize \/ Decide \/ SimulateRun \/ Finish \/ ExtractPlan

Spec == Init /\ [][Next]_vars

---------------------------------------------------------------------------
TypeOK ==
  /\ build \in {"python", "rust"} /\ gross \in [Size -> Int \cup {NaN}]
  /\ gas \in Nat /\ fills \in BOOLEAN /\ feesValid \in BOOLEAN
  /\ ranked \in 0..SizeCount /\ best \in 0..ranked /\ bestNet \in Int
  /\ progress \in Progress /\ verdict \in {"STRIKE", "DO_NOTHING"}
  /\ runs \in 0..BatchRuns /\ profitable \in 0..runs /\ total \in Int

\* The size chosen is, to within the gas, the best that has been ranked: no size
\* leaves the owner more than the gas above what it leaves, and in Rust none leaves
\* more at all.  A plan that crosses the executor boundary pays for its gas, and its
\* batch counted a profit exactly when it reports one.
BestWithinGas ==
  /\ \A s \in 1..ranked : gross[s] # NaN =>
       /\ best # 0 /\ gross[best] # NaN
       /\ Edge(s) <= Edge(best) + (IF build = "python" THEN gas ELSE 0)
  /\ progress = "approved" => Edge(best) > 0 /\ (total > 0 <=> profitable > 0)

\* What the documentation of the finalizer says: the size with the highest net
\* profit is selected.
BestSizeIsBest ==
  progress \notin {"idle", "ranking"} /\ best # 0 =>
    \A s \in Size : gross[s] # NaN => Edge(s) <= Edge(best)
================================================================================
