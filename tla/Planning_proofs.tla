----------------------------- MODULE Planning_proofs ---------------------------
(***************************************************************************)
(* For every value of the constants: what is said of the parts that decide  *)
(* whether and how to strike.  Each is proved about from its own Init and   *)
(* its own steps (Ssot!..., Punch!..., Graph!..., the pipeline without a    *)
(* name), and the theorems of the whole follow because every step of the    *)
(* whole is a step of one part and leaves the others alone.                 *)
(***************************************************************************)
EXTENDS Planning, FiniteSetTheorems, SequenceTheorems, TLAPS

---------------------------------------------------------------------------
(***************************************************************************)
(* CanonicalPipeline, for every bound on the market and on the calls.       *)
(***************************************************************************)
\* How far a call has got, stage by stage.
BeforeC2 == c2Plan = "none" /\ c2Basis = 0 /\ c2Sim = "none" /\ c2Left = 0

CallProgress ==
  /\ market > 0
  /\ pc \in {"idle", "c1", "forkC1"} => c1Sim = "none" /\ c1Left = 0 /\ post = 0 /\ BeforeC2
  /\ pc = "execC1" => Passed(c1Sim) /\ c1Left = 0 /\ post = 0 /\ BeforeC2
  /\ pc = "reload" => c1Left > 0 /\ c1Left <= market /\ post = 0 /\ BeforeC2
  /\ pc = "c2" => c1Left > 0 /\ post >= c1Left /\ BeforeC2
  /\ pc = "forkC2" => c2Plan \in {"EXECUTE", "NO_OP"} /\ c2Sim = "none" /\ c2Left = 0
  /\ pc = "execC2" => c2Plan = "EXECUTE" /\ Passed(c2Sim) /\ c2Left = 0
  /\ c1Left # 0 => Passed(c1Sim)
  /\ c2Left # 0 => Executor2
  /\ Validator /\ c1Left # 0 => c1Sim = "pass"
  /\ Validator /\ pc \in {"execC1", "execC2"} => c1Sim = "pass"
  /\ Validator /\ pc = "execC2" => c2Sim = "pass"
  /\ pc \notin AtRest => report = "none"

PipelineIInv == TypeOK /\ CallProgress /\ C2PlannedOnPostC1 /\ ReportAgrees

---------------------------------------------------------------------------
LEMMA PipelineInit == Init => PipelineIInv
  BY DEF Init, PipelineIInv, TypeOK, CallProgress, C2PlannedOnPostC1, ReportAgrees, BeforeC2, Passed,
     Stage, AtRest, Verdict, Decision, Report

LEMMA CanonicalType ==
  ASSUME NEW a \in NamedAction
  PROVE  Canonical(a) \in {"EXECUTE", "NO_OP", "INVALID"}
  BY DEF NamedAction, Canonical

LEMMA PipelineTypeStep == TypeOK /\ [Next]_vars => TypeOK'
<1> SUFFICES ASSUME TypeOK, [Next]_vars PROVE TypeOK'
  OBVIOUS
<1> USE PipelineAssumption DEF TypeOK, Stage, AtRest, Verdict, Decision, Report, Accepted, Rejected,
        Goto, Finish
<1>1. CASE Call
  BY <1>1 DEF Call
<1>2. CASE MarketMoves \/ Raises \/ PlanC1 \/ ReloadState
  BY <1>2 DEF MarketMoves, Raises, PlanC1, ReloadState
<1>3. CASE ValidateC1
  BY <1>3 DEF ValidateC1, Verdicts
<1>4. CASE ExecuteC1
  BY <1>4 DEF ExecuteC1, Moves
<1>5. CASE PlanC2
  BY <1>5, CanonicalType DEF PlanC2
<1>6. CASE ValidateC2
  BY <1>6 DEF ValidateC2, Verdicts
<1>7. CASE ExecuteC2
  BY <1>7 DEF ExecuteC2, Moves
<1>8. CASE UNCHANGED vars
  BY <1>8 DEF vars
<1> QED
  BY <1>1, <1>2, <1>3, <1>4, <1>5, <1>6, <1>7, <1>8 DEF Next

LEMMA CallStep == PipelineIInv /\ [Next]_vars => CallProgress' /\ C2PlannedOnPostC1'
<1> SUFFICES ASSUME PipelineIInv, [Next]_vars PROVE CallProgress' /\ C2PlannedOnPostC1'
  OBVIOUS
<1> USE DEF PipelineIInv, TypeOK, CallProgress, C2PlannedOnPostC1, BeforeC2, Passed, AtRest, Goto, Finish
<1>1. CASE Call
  BY <1>1 DEF Call
<1>2. CASE MarketMoves
  BY <1>2 DEF MarketMoves
<1>3. CASE Raises
  BY <1>3 DEF Raises
<1>4. CASE PlanC1
  BY <1>4 DEF PlanC1
<1>5. CASE ValidateC1
  BY <1>5 DEF ValidateC1, Verdicts
<1>6. CASE ExecuteC1
  BY <1>6 DEF ExecuteC1, Moves
<1>7. CASE ReloadState
  BY <1>7 DEF ReloadState
<1>8. CASE PlanC2
  BY <1>8, CanonicalType DEF PlanC2
<1>9. CASE ValidateC2
  BY <1>9 DEF ValidateC2, Verdicts
<1>10. CASE ExecuteC2
  BY <1>10 DEF ExecuteC2, Moves
<1>11. CASE UNCHANGED vars
  BY <1>11 DEF vars
<1> QED
  BY <1>1, <1>2, <1>3, <1>4, <1>5, <1>6, <1>7, <1>8, <1>9, <1>10, <1>11 DEF Next

LEMMA ReportStep == PipelineIInv /\ [Next]_vars => ReportAgrees'
<1> SUFFICES ASSUME PipelineIInv, [Next]_vars PROVE ReportAgrees'
  OBVIOUS
<1> USE DEF PipelineIInv, TypeOK, CallProgress, C2PlannedOnPostC1, ReportAgrees, BeforeC2, Passed, AtRest,
        Accepted, Goto, Finish
<1>1. CASE Call \/ MarketMoves \/ Raises \/ PlanC1 \/ ExecuteC1 \/ ReloadState
  BY <1>1 DEF Call, MarketMoves, Raises, PlanC1, ExecuteC1, ReloadState
<1>2. CASE ValidateC1
  BY <1>2 DEF ValidateC1, Verdicts
<1>3. CASE PlanC2
  BY <1>3, CanonicalType DEF PlanC2
<1>4. CASE ValidateC2
  BY <1>4 DEF ValidateC2, Verdicts
<1>5. CASE ExecuteC2
  BY <1>5 DEF ExecuteC2, Moves
<1>6. CASE UNCHANGED vars
  BY <1>6 DEF vars
<1> QED
  BY <1>1, <1>2, <1>3, <1>4, <1>5, <1>6 DEF Next

LEMMA PipelineInvariance == Spec => []PipelineIInv
<1>1. PipelineIInv /\ [Next]_vars => PipelineIInv'
  BY PipelineTypeStep, CallStep, ReportStep DEF PipelineIInv
<1> QED
  BY <1>1, PipelineInit, PTL DEF Spec

\* With a validator every step of the pipeline is a step of the canon flow, or
\* leaves it alone.
LEMMA CanonInit == Init => Canon!Start
  BY DEF Init, Canon!Start

LEMMA CanonStep ==
  ASSUME Validator, PipelineIInv, PipelineIInv', [Next]_vars
  PROVE  [Canon!Step]_(Canon!flow)
<1> USE DEF PipelineIInv, CallProgress, BeforeC2, Goto, Finish, Canon!flow, Canon!Step
<1>1. CASE Call
  BY <1>1 DEF Call, Canon!NextCycle, Canon!Start
<1>2. CASE MarketMoves \/ Raises \/ PlanC1
  BY <1>2 DEF MarketMoves, Raises, PlanC1
<1>3. CASE ValidateC1
  BY <1>3 DEF ValidateC1, Verdicts, Canon!SimulateC1
<1>4. CASE ExecuteC1
  BY <1>4 DEF ExecuteC1, Moves, TypeOK, Canon!ExecuteC1
<1>5. CASE ReloadState
  BY <1>5 DEF ReloadState, Canon!ReloadState
<1>6. CASE PlanC2
  BY <1>6, CanonicalType DEF PlanC2, TypeOK, Canon!PlanC2
<1>7. CASE ValidateC2
  BY <1>7 DEF ValidateC2, Verdicts, Canon!SimulateC2
<1>8. CASE ExecuteC2
  BY <1>8 DEF ExecuteC2, Moves, TypeOK, Canon!ExecuteC2
<1>9. CASE UNCHANGED vars
  BY <1>9 DEF vars
<1> QED
  BY <1>1, <1>2, <1>3, <1>4, <1>5, <1>6, <1>7, <1>8, <1>9 DEF Next

\* Each step of the canon flow rests on the whole chain of steps before it.
LEMMA ChainedStart == Canon!Start => Canon!Chained
  BY DEF Canon!Start, Canon!Chained

LEMMA ChainedStep == Canon!Chained /\ [Canon!Step]_(Canon!flow) => Canon!Chained'
<1> SUFFICES ASSUME Canon!Chained, [Canon!Step]_(Canon!flow) PROVE Canon!Chained'
  OBVIOUS
<1> USE DEF Canon!Chained
<1>1. CASE Canon!SimulateC1 \/ Canon!ExecuteC1 \/ Canon!ReloadState
  BY <1>1 DEF Canon!SimulateC1, Canon!ExecuteC1, Canon!ReloadState
<1>2. CASE Canon!PlanC2 \/ Canon!SimulateC2 \/ Canon!ExecuteC2
  BY <1>2 DEF Canon!PlanC2, Canon!SimulateC2, Canon!ExecuteC2
<1>3. CASE Canon!NextCycle
  BY <1>3 DEF Canon!NextCycle, Canon!Start
<1>4. CASE UNCHANGED Canon!flow
  BY <1>4 DEF Canon!flow
<1> QED
  BY <1>1, <1>2, <1>3, <1>4 DEF Canon!Step

LEMMA CanonInvariance == Canon!Spec => []Canon!C2RestsOnC1
<1>1. Canon!Chained => Canon!C2RestsOnC1
  BY DEF Canon!Chained, Canon!C2RestsOnC1
<1> QED
  BY <1>1, ChainedStart, ChainedStep, PTL DEF Canon!Spec

---------------------------------------------------------------------------
(***************************************************************************)
(* SsotFinalizer, for every number of sizes, every profit and every batch.  *)
(***************************************************************************)
LEMMA SsotConstants ==
  /\ SizeCount \in Nat \ {0} /\ MaxGas \in Nat /\ BatchRuns \in Nat
  /\ Profits \subseteq Int /\ NaN \notin Int
  BY PlanningAssumption DEF Ssot!SsotAssumption

\* The best size is the best of those ranked to within the gas, and best_p_net is its own.
BestOfRanked ==
  /\ best # 0 => gross[best] # NaN /\ bestNet = Ssot!Net(best)
  /\ \A s \in 1..ranked : gross[s] # NaN =>
       /\ best # 0 /\ gross[best] # NaN
       /\ Ssot!Edge(s) <= Ssot!Edge(best) + (IF build = "python" THEN gas ELSE 0)

\* Ranking ends before the batch begins, and an approved plan is one of Rust's.
SsotStages ==
  /\ progress = "idle" => ranked = 0
  /\ progress \in {"idle", "ranking"} => runs = 0 /\ profitable = 0 /\ total = 0
  /\ progress \in {"batch", "done", "approved"} => best # 0
  /\ progress \in {"batch", "done", "approved"} /\ verdict = "STRIKE" => Ssot!Edge(best) > 0
  /\ progress \in {"batch", "done", "approved"} /\ verdict # "STRIKE" => total = 0 /\ profitable = 0
  /\ progress = "approved" => build = "rust" /\ verdict = "STRIKE"
  /\ progress \in {"idle", "ranking"} => verdict = "DO_NOTHING"

\* A strike worth its gas never simulates a loss.
BatchAddsUp ==
  build = "rust" => total >= 0 /\ (total > 0 <=> profitable > 0)

SsotIInv == Ssot!TypeOK /\ BestOfRanked /\ SsotStages /\ BatchAddsUp

LEMMA SsotInit == Ssot!Init => SsotIInv
<1> SUFFICES ASSUME Ssot!Init PROVE SsotIInv
  OBVIOUS
<1> USE SsotConstants DEF Ssot!Init
<1>1. gross \in [Ssot!Size -> Int \cup {NaN}] /\ gas \in Nat /\ runs \in 0..BatchRuns
      /\ ranked \in 0..SizeCount /\ bestNet \in Int /\ total \in Int
  OBVIOUS
<1>2. best \in 0..ranked /\ profitable \in 0..runs
  OBVIOUS
<1>3. progress \in Ssot!Progress /\ fills \in BOOLEAN /\ feesValid \in BOOLEAN
  BY DEF Ssot!Progress
<1>4. Ssot!TypeOK
  BY <1>1, <1>2, <1>3 DEF Ssot!TypeOK
<1> QED
  BY <1>4 DEF SsotIInv, BestOfRanked, SsotStages, BatchAddsUp

LEMMA RankSizeStep == ASSUME SsotIInv, Ssot!RankSize PROVE SsotIInv'
<1> DEFINE s == ranked + 1
           Off == IF build = "python" THEN gas ELSE 0
<1>1. /\ gross \in [1..SizeCount -> Int \cup {NaN}] /\ gas \in Nat /\ ranked \in 0..SizeCount
      /\ best \in 0..ranked /\ bestNet \in Int /\ build \in {"python", "rust"} /\ SizeCount \in Nat
      /\ NaN \notin Int
  BY SsotConstants DEF SsotIInv, Ssot!TypeOK, Ssot!Size
<1>2. /\ progress = "ranking" /\ ranked < SizeCount /\ ranked' = s
      /\ best' = IF Ssot!Beats(s) THEN s ELSE best
      /\ bestNet' = IF Ssot!Beats(s) THEN Ssot!Net(s) ELSE bestNet
      /\ UNCHANGED <<build, gross, gas, fills, feesValid, progress, verdict, runs, profitable, total>>
  BY DEF Ssot!RankSize
<1>3. s \in 1..SizeCount /\ s \in Int
  BY <1>1, <1>2
<1>4. \A r \in 1..SizeCount : gross[r] # NaN => gross[r] \in Int
  BY <1>1
<1>5. /\ best # 0 => gross[best] \in Int /\ bestNet = IF build = "rust" THEN gross[best] - gas ELSE gross[best]
      /\ \A r \in 1..ranked : gross[r] # NaN =>
           best # 0 /\ gross[r] - gas <= gross[best] - gas + Off
  BY <1>1, <1>4 DEF SsotIInv, BestOfRanked, Ssot!Net, Ssot!Edge
<1>6. /\ \A r \in 1..ranked' : r \in 1..ranked \/ r = s
      /\ best' \in 0..ranked' /\ (best' # 0 => gross[best'] \in Int)
  BY <1>1, <1>2, <1>3, <1>4, <1>5 DEF Ssot!Beats
<1>7. \A r \in 1..ranked' : gross[r] # NaN =>
        best' # 0 /\ gross[r] - gas <= gross[best'] - gas + Off
  <2>1. CASE Ssot!Beats(s)
    <3>1. best' = s /\ s # 0 /\ gross[s] \in Int /\ (best = 0 \/ gross[s] - gas > bestNet)
      BY <1>1, <1>2, <1>3, <1>4, <2>1 DEF Ssot!Beats, Ssot!Edge
    <3>2. ASSUME NEW r \in 1..ranked, gross[r] # NaN PROVE gross[r] - gas <= gross[s] - gas + Off
      <4>1. r \in 1..SizeCount /\ gross[r] \in Int
        BY <1>1, <1>4, <3>2
      <4>2. gross[best] \in Int /\ gross[s] - gas > bestNet /\ gross[r] - gas <= gross[best] - gas + Off
        BY <1>5, <3>1, <3>2
      <4> QED
        BY <1>1, <1>5, <3>1, <4>1, <4>2
    <3> QED
      BY <1>1, <1>6, <3>1, <3>2
  <2>2. CASE ~Ssot!Beats(s)
    <3>1. best' = best /\ (gross[s] # NaN => best # 0 /\ ~(gross[s] - gas > bestNet))
      BY <1>2, <2>2 DEF Ssot!Beats, Ssot!Edge
    <3>2. ASSUME gross[s] # NaN PROVE gross[s] - gas <= gross[best] - gas + Off
      BY <1>1, <1>3, <1>4, <1>5, <3>1, <3>2
    <3> QED
      BY <1>5, <1>6, <3>1, <3>2
  <2> QED
    BY <2>1, <2>2
<1>8. BestOfRanked'
  <2>1. best' # 0 => bestNet' = IF build = "rust" THEN gross[best'] - gas ELSE gross[best']
    BY <1>2, <1>5 DEF Ssot!Net, Ssot!Edge
  <2> QED
    BY <1>1, <1>2, <1>6, <1>7, <2>1 DEF BestOfRanked, Ssot!Net, Ssot!Edge
<1>9. Ssot!TypeOK'
  <2>1. bestNet' \in Int
    BY <1>1, <1>2, <1>3, <1>4 DEF Ssot!Beats, Ssot!Net, Ssot!Edge
  <2> QED
    BY <1>1, <1>2, <1>6, <2>1 DEF SsotIInv, Ssot!TypeOK, Ssot!Size
<1> QED
  BY <1>2, <1>8, <1>9 DEF SsotIInv, SsotStages, BatchAddsUp

LEMMA SimulateRunStep == ASSUME SsotIInv, Ssot!SimulateRun PROVE SsotIInv'
<1>1. /\ gross \in [1..SizeCount -> Int \cup {NaN}] /\ gas \in Nat /\ ranked \in 0..SizeCount
      /\ best \in 1..SizeCount /\ gross[best] # NaN /\ total \in Int /\ runs \in 0..BatchRuns
      /\ profitable \in 0..runs /\ SizeCount \in Nat /\ BatchRuns \in Nat
      /\ build \in {"python", "rust"}
  BY SsotConstants DEF SsotIInv, Ssot!TypeOK, Ssot!Size, SsotStages, BestOfRanked, Ssot!SimulateRun
<1> DEFINE net == Ssot!Net(best)
<1>2. net \in Int
  BY <1>1 DEF Ssot!Net, Ssot!Edge
<1> HIDE DEF net
<1>3. PICK f \in (IF verdict = "STRIKE" THEN 0..2 ELSE {0}) :
        /\ total' = total + net * f
        /\ profitable' = IF net * f > 0 THEN profitable + 1 ELSE profitable
  BY DEF Ssot!SimulateRun, net
<1>4. /\ progress = "batch" /\ runs < BatchRuns /\ runs' = runs + 1
      /\ UNCHANGED <<build, gross, gas, fills, feesValid, ranked, best, bestNet, progress, verdict>>
  BY DEF Ssot!SimulateRun
<1>5. PICK gain \in {0, net, net + net} :
        /\ total' = total + gain
        /\ profitable' = IF gain > 0 THEN profitable + 1 ELSE profitable
        /\ verdict # "STRIKE" => gain = 0
  <2>1. f = 0 \/ f = 1 \/ f = 2
    BY <1>3
  <2>2. net * f \in {0, net, net + net} /\ (verdict # "STRIKE" => net * f = 0)
    BY <1>2, <1>3, <2>1
  <2> QED
    BY <1>3, <2>2
<1>6. gain \in Int /\ total' \in Int /\ profitable' \in 0..runs' /\ runs' \in 0..BatchRuns
  BY <1>1, <1>2, <1>4, <1>5
<1>7. build = "rust" => gain >= 0
  <2>1. build = "rust" /\ verdict = "STRIKE" => net > 0
    BY <1>4 DEF SsotIInv, SsotStages, net, Ssot!Net
  <2> QED
    BY <1>2, <1>5, <2>1
<1>8. BatchAddsUp'
  BY <1>1, <1>4, <1>5, <1>6, <1>7 DEF SsotIInv, BatchAddsUp
<1>9. SsotStages'
  BY <1>1, <1>4, <1>5 DEF SsotIInv, SsotStages, Ssot!Edge
<1>10. BestOfRanked'
  BY <1>4 DEF SsotIInv, BestOfRanked, Ssot!Edge, Ssot!Net
<1>11. Ssot!TypeOK'
  BY <1>4, <1>6 DEF SsotIInv, Ssot!TypeOK
<1> QED
  BY <1>8, <1>9, <1>10, <1>11 DEF SsotIInv

LEMMA SsotInvariance == Ssot!Spec => []SsotIInv
<1>1. SsotIInv /\ [Ssot!Next]_(Ssot!vars) => SsotIInv'
  <2> SUFFICES ASSUME SsotIInv, [Ssot!Next]_(Ssot!vars) PROVE SsotIInv'
    OBVIOUS
  <2> USE DEF SsotIInv, BestOfRanked, SsotStages, BatchAddsUp, Ssot!TypeOK, Ssot!Edge, Ssot!Net, Ssot!Progress
  <2>1. CASE Ssot!Run
    <3>1. /\ gross' \in [Ssot!Size -> Int \cup {NaN}] /\ gas' \in Nat
      <4>1. gross' \in [Ssot!Size -> Profits \cup {NaN}] /\ gas' \in 0..MaxGas
        BY <2>1 DEF Ssot!Run
      <4>2. \A s \in Ssot!Size : gross'[s] \in Int \cup {NaN}
        BY <4>1, SsotConstants
      <4> QED
        BY <4>1, <4>2, SsotConstants
    <3>2. ranked = 0 /\ best = 0
      BY <2>1 DEF Ssot!Run
    <3> QED
      BY <2>1, <3>1, <3>2 DEF Ssot!Run
  <2>2. CASE Ssot!RankSize
    BY <2>2, RankSizeStep
  <2>3. CASE Ssot!NoValidSize
    BY <2>3 DEF Ssot!NoValidSize
  <2>4. CASE Ssot!Decide
    BY <2>4 DEF Ssot!Decide, Ssot!Gate
  <2>5. CASE Ssot!SimulateRun
    BY <2>5, SimulateRunStep
  <2>6. CASE Ssot!Finish \/ Ssot!ExtractPlan
    BY <2>6 DEF Ssot!Finish, Ssot!ExtractPlan
  <2>7. CASE UNCHANGED Ssot!vars
    BY <2>7 DEF Ssot!vars
  <2> QED
    BY <2>1, <2>2, <2>3, <2>4, <2>5, <2>6, <2>7 DEF Ssot!Next
<1> QED
  BY <1>1, SsotInit, PTL DEF Ssot!Spec

LEMMA ChosenWithinGas == SsotIInv => Ssot!BestWithinGas
  BY DEF SsotIInv, BestOfRanked, SsotStages, BatchAddsUp, Ssot!BestWithinGas

---------------------------------------------------------------------------
(***************************************************************************)
(* DualPunch, for every probability, gas, loss and profit and any number of *)
(* variants.                                                                *)
(***************************************************************************)
Loss(q)   == IF q.loss > 0 THEN q.loss ELSE 0
Chance(q) == Punch!Clamp(q.p, Scale)

LEMMA PunchConstants ==
  /\ Scale \in Nat \ {0} /\ MaxAlternates \in Nat
  /\ Nets \subseteq Int /\ \A q \in Params : Punch!IsParams(q)
  BY PlanningAssumption DEF Punch!PunchAssumption

LEMMA ParamsTyped ==
  ASSUME NEW q, Punch!IsParams(q)
  PROVE  /\ Chance(q) \in 0..Scale /\ Loss(q) \in Nat
         /\ q.p \in Int /\ q.pMin \in Int /\ q.gas \in Int /\ q.least \in Int
  BY PunchConstants DEF Punch!IsParams, Chance, Loss, Punch!Clamp

LEMMA EVIs ==
  ASSUME NEW q, Punch!IsParams(q), NEW net \in Int
  PROVE  /\ Punch!EV(q, net) = Chance(q) * (net - q.gas) - (Scale - Chance(q)) * Loss(q)
         /\ Punch!EV(q, net) \in Int
<1>1. Punch!EV(q, net) = Chance(q) * (net - q.gas) - (Scale - Chance(q)) * Loss(q)
  BY DEF Punch!EV, Chance, Loss
<1>2. /\ Chance(q) \in Int /\ net - q.gas \in Int /\ Scale - Chance(q) \in Int /\ Loss(q) \in Int
  BY ParamsTyped, PunchConstants
<1> DEFINE won == Chance(q) * (net - q.gas)
           lost == (Scale - Chance(q)) * Loss(q)
<1>3. won \in Int /\ lost \in Int
  BY <1>2
<1> QED
  BY <1>1, <1>3

LEMMA Products ==
  ASSUME NEW p \in Nat, NEW a \in Int, NEW b \in Int
  PROVE  /\ p = 0 => p * a = 0
         /\ a <= b => p * a <= p * b
         /\ p > 0 /\ a < b => p * a < p * b
  OBVIOUS

\* The expected value grows with the net profit, and strictly when there is a chance of it.
LEMMA EVGrows ==
  ASSUME NEW q, Punch!IsParams(q), NEW a \in Int, NEW b \in Int
  PROVE  /\ a <= b => Punch!EV(q, a) <= Punch!EV(q, b)
         /\ Chance(q) > 0 /\ a < b => Punch!EV(q, a) < Punch!EV(q, b)
<1> DEFINE p == Chance(q)
           x == a - q.gas
           y == b - q.gas
           lost == (Scale - Chance(q)) * Loss(q)
<1>1. /\ p \in Nat /\ x \in Int /\ y \in Int /\ Scale - Chance(q) \in Int /\ Loss(q) \in Int
      /\ (a <= b => x <= y) /\ (a < b => x < y)
  BY ParamsTyped, PunchConstants
<1>2. lost \in Int
  BY <1>1
<1>3. Punch!EV(q, a) = p * x - lost /\ Punch!EV(q, b) = p * y - lost
  BY EVIs
<1> HIDE DEF p, x, y, lost
<1>4. /\ x <= y => p * x <= p * y
      /\ p > 0 /\ x < y => p * x < p * y
  BY <1>1, Products
<1>5. p * x \in Int /\ p * y \in Int
  BY <1>1
<1>6. /\ x <= y => p * x - lost <= p * y - lost
      /\ p > 0 /\ x < y => p * x - lost < p * y - lost
  BY <1>2, <1>4, <1>5
<1> QED
  BY <1>1, <1>3, <1>6 DEF p

\* Without a chance of success nothing strikes.
LEMMA StrikeHasChance ==
  ASSUME NEW q, Punch!IsParams(q), NEW net \in Int, Punch!Strikes(q, net)
  PROVE  Chance(q) > 0
<1> SUFFICES ASSUME Chance(q) = 0 PROVE FALSE
  BY ParamsTyped, PunchConstants
<1>1. Punch!EV(q, net) = 0 * (net - q.gas) - (Scale - 0) * Loss(q) /\ Punch!EV(q, net) > 0
  BY EVIs DEF Punch!Strikes
<1>2. /\ net - q.gas \in Int /\ Scale \in Nat /\ Loss(q) \in Nat
  BY ParamsTyped, PunchConstants
<1>3. 0 * (net - q.gas) = 0 /\ Scale - 0 = Scale /\ Scale * Loss(q) \in Nat
  BY <1>2
<1> QED
  BY <1>1, <1>3

\* What strikes, strikes with a higher net profit as well.
LEMMA StrikesGrow ==
  ASSUME NEW q, Punch!IsParams(q), NEW a \in Int, NEW b \in Int, a <= b, Punch!Strikes(q, a)
  PROVE  Punch!Strikes(q, b)
<1>1. /\ q.p >= q.pMin /\ a > q.least /\ Punch!EV(q, a) > 0
      /\ Punch!EV(q, a) <= Punch!EV(q, b) /\ q.least \in Int
      /\ Punch!EV(q, a) \in Int /\ Punch!EV(q, b) \in Int
  BY EVGrows, EVIs, ParamsTyped DEF Punch!Strikes
<1> QED
  BY <1>1 DEF Punch!Strikes

\* Until the strike rules are asked, the choice is the variant of the highest EV.
ChoiceIsBest ==
  punch # "done" =>
    /\ nets = <<>> => choice = 0
    /\ nets # <<>> =>
         /\ choice \in 1..Len(nets)
         /\ \A n \in 1..Len(nets) : Punch!EV(q2, nets[n]) <= Punch!EV(q2, nets[choice])

\* Punch 2 begins after a strike of Punch 1 and with no variant evaluated.
PunchStages ==
  /\ punch \in {"idle", "punch1", "mutate"} => nets = <<>>
  /\ punch \in {"mutate", "punch2"} => Punch!Strikes(q1, net1)

PunchIInv == Punch!TypeOK /\ ChoiceIsBest /\ PunchStages /\ Punch!NoStrikeIsMissed

LEMMA PunchInit == Punch!Init => PunchIInv
<1> SUFFICES ASSUME Punch!Init PROVE PunchIInv
  OBVIOUS
<1> USE PunchConstants DEF Punch!Init
<1>1. Punch!TypeOK
  <2>1. Punch!IsParams(q1) /\ Punch!IsParams(q2)
    BY DEF Punch!IsParams, Punch!NoParams
  <2> QED
    BY <2>1 DEF Punch!TypeOK, Punch!Ends
<1> QED
  BY <1>1 DEF PunchIInv, ChoiceIsBest, PunchStages, Punch!NoStrikeIsMissed

LEMMA EvaluateVariantStep == ASSUME PunchIInv, Punch!EvaluateVariant PROVE PunchIInv'
<1>1. PICK net \in Nets : /\ nets' = Append(nets, net)
                          /\ choice' = IF Punch!Better(net) THEN Len(nets') ELSE choice
  BY DEF Punch!EvaluateVariant
<1>2. /\ punch = "punch2" /\ Len(nets) < variants
      /\ UNCHANGED <<punch, q1, q2, v2Routes, variants, net1, evCycle>>
  BY DEF Punch!EvaluateVariant
<1>3. /\ net \in Int /\ nets \in Seq(Int) /\ Len(nets) \in Nat /\ variants \in Nat /\ choice \in 0..Len(nets)
      /\ Punch!IsParams(q2)
  BY PunchConstants DEF PunchIInv, Punch!TypeOK
<1>4. /\ nets' \in Seq(Int) /\ Len(nets') = Len(nets) + 1 /\ nets'[Len(nets) + 1] = net
      /\ \A n \in 1..Len(nets) : nets'[n] = nets[n]
      /\ nets' # <<>>
  BY <1>1, <1>3
<1>5. Punch!EV(q2, net) \in Int /\ \A n \in 1..Len(nets) : Punch!EV(q2, nets[n]) \in Int
  <2>1. \A n \in 1..Len(nets) : nets[n] \in Int
    BY <1>3
  <2> QED
    BY <1>3, <2>1, EVIs
<1>6. /\ choice = 0 => Len(nets) = 0
      /\ choice # 0 => choice \in 1..Len(nets) /\
           \A n \in 1..Len(nets) : Punch!EV(q2, nets[n]) <= Punch!EV(q2, nets[choice])
  BY <1>2, <1>3 DEF PunchIInv, ChoiceIsBest
<1>7. choice' \in 1..Len(nets')
  BY <1>1, <1>3, <1>4, <1>6 DEF Punch!Better
<1>8. ASSUME NEW n \in 1..Len(nets')
      PROVE  Punch!EV(q2, nets'[n]) <= Punch!EV(q2, nets'[choice'])
  <2>1. n \in 1..Len(nets) \/ n = Len(nets) + 1
    BY <1>3, <1>4
  <2>2. CASE Punch!Better(net)
    <3>1. choice' = Len(nets) + 1 /\ nets'[choice'] = net
      BY <1>1, <1>4, <2>2
    <3>2. choice = 0 \/ Punch!EV(q2, net) > Punch!EV(q2, nets[choice])
      BY <2>2 DEF Punch!Better
    <3>3. ASSUME n \in 1..Len(nets) PROVE Punch!EV(q2, nets[n]) <= Punch!EV(q2, net)
      <4>1. choice # 0 /\ choice \in 1..Len(nets)
        BY <1>3, <1>6, <3>3
      <4> QED
        BY <1>5, <1>6, <3>2, <3>3, <4>1
    <3> QED
      BY <1>4, <1>5, <2>1, <3>1, <3>3
  <2>3. CASE ~Punch!Better(net)
    <3>1. choice' = choice /\ choice # 0 /\ ~(Punch!EV(q2, net) > Punch!EV(q2, nets[choice]))
      BY <1>1, <2>3 DEF Punch!Better
    <3>2. choice \in 1..Len(nets) /\ nets'[choice'] = nets[choice]
      BY <1>3, <1>4, <1>6, <3>1
    <3>3. Punch!EV(q2, net) <= Punch!EV(q2, nets[choice])
      BY <1>5, <3>1, <3>2
    <3> QED
      BY <1>4, <1>6, <2>1, <3>1, <3>2, <3>3
  <2> QED
    BY <2>2, <2>3
<1>9. ChoiceIsBest'
  BY <1>2, <1>4, <1>7, <1>8 DEF ChoiceIsBest
<1>10. Punch!TypeOK'
  BY <1>2, <1>3, <1>4, <1>7 DEF PunchIInv, Punch!TypeOK
<1> QED
  BY <1>2, <1>9, <1>10 DEF PunchIInv, PunchStages, Punch!NoStrikeIsMissed

LEMMA ClosePunch2Step == ASSUME PunchIInv, Punch!ClosePunch2 PROVE PunchIInv'
<1>1. /\ punch = "punch2" /\ Len(nets) = variants /\ punch' = "done"
      /\ UNCHANGED <<q1, q2, v2Routes, variants, net1, nets>>
  BY DEF Punch!ClosePunch2
<1>2. /\ Punch!IsParams(q1) /\ Punch!IsParams(q2) /\ net1 \in Int /\ nets \in Seq(Int) /\ Len(nets) \in Nat
      /\ variants \in Nat /\ variants > 1
  BY PunchConstants DEF PunchIInv, Punch!TypeOK
<1>3. /\ choice \in 1..Len(nets)
      /\ \A n \in 1..Len(nets) : Punch!EV(q2, nets[n]) <= Punch!EV(q2, nets[choice])
  BY <1>1, <1>2 DEF PunchIInv, ChoiceIsBest
<1>4. DOMAIN nets = 1..Len(nets) /\ \A n \in 1..Len(nets) : nets[n] \in Int
  BY <1>2
<1>5. /\ Punch!EV(q1, net1) \in Int /\ Punch!EV(q1, net1) > 0
      /\ \A n \in 1..Len(nets) : Punch!EV(q2, nets[n]) \in Int
  BY <1>1, <1>2, <1>4, EVIs DEF PunchIInv, PunchStages, Punch!Strikes
<1>6. ASSUME NEW n \in 1..Len(nets), Chance(q2) > 0 PROVE nets[n] <= nets[choice]
  \* Otherwise its EV would be the higher one.
  <2>1. nets[choice] < nets[n] => Punch!EV(q2, nets[choice]) < Punch!EV(q2, nets[n])
    BY <1>2, <1>3, <1>4, <1>6, EVGrows
  <2> QED
    BY <1>3, <1>4, <1>5, <2>1
<1>7. CASE Punch!Strikes(q2, nets[choice])
  <2>1. evCycle' = Punch!EV(q1, net1) + Punch!EV(q2, nets[choice]) /\ choice' = choice
    BY <1>7 DEF Punch!ClosePunch2
  <2>2. Punch!EV(q2, nets[choice]) > 0 /\ Chance(q2) > 0
    BY <1>2, <1>3, <1>4, <1>7, StrikeHasChance DEF Punch!Strikes
  <2>3. evCycle' \in Int /\ evCycle' > 0
    BY <1>3, <1>5, <2>1, <2>2
  <2>4. Punch!NoStrikeIsMissed'
    BY <1>1, <1>3, <1>4, <1>6, <1>7, <2>1, <2>2, <2>3 DEF Punch!NoStrikeIsMissed
  <2> QED
    BY <1>1, <1>2, <1>3, <2>1, <2>3, <2>4 DEF PunchIInv, ChoiceIsBest, PunchStages, Punch!TypeOK, Punch!Ends
<1>8. CASE ~Punch!Strikes(q2, nets[choice])
  <2>1. evCycle' = Punch!EV(q1, net1) /\ choice' = 0
    BY <1>8 DEF Punch!ClosePunch2
  <2>2. ASSUME NEW n \in 1..Len(nets), Punch!Strikes(q2, nets[n]) PROVE FALSE
    <3>1. nets[n] <= nets[choice]
      BY <1>2, <1>4, <1>6, <2>2, StrikeHasChance
    <3> QED
      BY <1>2, <1>3, <1>4, <1>8, <2>2, <3>1, StrikesGrow
  <2>3. Punch!NoStrikeIsMissed'
    BY <1>1, <1>4, <1>5, <2>1, <2>2 DEF Punch!NoStrikeIsMissed
  <2> QED
    BY <1>1, <1>2, <1>5, <2>1, <2>3 DEF PunchIInv, ChoiceIsBest, PunchStages, Punch!TypeOK, Punch!Ends
<1> QED
  BY <1>7, <1>8

LEMMA PunchInvariance == Punch!Spec => []PunchIInv
<1>1. PunchIInv /\ [Punch!Next]_(Punch!vars) => PunchIInv'
  <2> SUFFICES ASSUME PunchIInv, [Punch!Next]_(Punch!vars) PROVE PunchIInv'
    OBVIOUS
  <2> USE DEF PunchIInv, ChoiceIsBest, PunchStages, Punch!NoStrikeIsMissed, Punch!TypeOK, Punch!Ends
  <2>1. CASE Punch!RunCycle
    BY <2>1, PunchConstants DEF Punch!RunCycle
  <2>2. CASE Punch!NotV2 \/ Punch!MutateState
    BY <2>2 DEF Punch!NotV2, Punch!MutateState
  <2>3. CASE Punch!EvaluatePunch1
    <3>1. net1' \in Int /\ Punch!IsParams(q1)
      BY <2>3, PunchConstants DEF Punch!EvaluatePunch1
    <3>2. Punch!EV(q1, net1') \in Int
      BY <3>1, EVIs
    <3> QED
      BY <2>3, <3>1, <3>2 DEF Punch!EvaluatePunch1
  <2>4. CASE Punch!EvaluateVariant
    BY <2>4, EvaluateVariantStep
  <2>5. CASE Punch!ClosePunch2
    BY <2>5, ClosePunch2Step
  <2>6. CASE UNCHANGED Punch!vars
    BY <2>6 DEF Punch!vars
  <2> QED
    BY <2>1, <2>2, <2>3, <2>4, <2>5, <2>6 DEF Punch!Next
<1> QED
  BY <1>1, PunchInit, PTL DEF Punch!Spec

---------------------------------------------------------------------------
(***************************************************************************)
(* RouteGraph, for every finite graph and all bounds on the hops: the stack *)
(* holds paths none of which begins another, so that each cycle is found    *)
(* from one path only.                                                      *)
(***************************************************************************)
LEMMA GraphConstants ==
  IsFiniteSet(Symbol) /\ StartToken \in Symbol /\ Hops \subseteq Nat
<1>1. Graph!IsFiniteSet(Symbol) = IsFiniteSet(Symbol)
  BY DEF Graph!IsFiniteSet, IsFiniteSet
<1> QED
  BY <1>1, PlanningAssumption DEF Graph!RouteAssumption

Begins(p, c) == Len(p) <= Len(c) /\ \A n \in 1..Len(p) : p[n] = c[n]

\* A simple path from the start along the pools.
IsPath(p) ==
  /\ p \in Seq(Symbol) /\ Len(p) > 0 /\ p[1] = StartToken
  /\ \A m, n \in 1..Len(p) : m # n => p[m] # p[n]
  /\ \A n \in 1..(Len(p) - 1) : {p[n], p[n + 1]} \in edges

IsCycle(c) ==
  /\ c \in Seq(Symbol) /\ Len(c) - 1 \in minHops..maxHops
  /\ c[1] = StartToken /\ c[Len(c)] = StartToken
  /\ \A m, n \in 1..(Len(c) - 1) : m # n => c[m] # c[n]
  /\ \A n \in 1..(Len(c) - 1) : {c[n], c[n + 1]} \in edges

Cycles == UNION {Graph!SimpleCycles(k) : k \in minHops..maxHops}

LEMMA CyclesAre ==
  ASSUME minHops \in Nat, maxHops \in Nat, NEW c
  PROVE  c \in Cycles <=> IsCycle(c)
<1>1. ASSUME c \in Cycles PROVE IsCycle(c)
  <2>1. PICK k \in minHops..maxHops : c \in Graph!SimpleCycles(k)
    BY <1>1 DEF Cycles
  <2>2. k \in Nat /\ k + 1 \in Nat /\ c \in [1 .. k + 1 -> Symbol]
    BY <2>1 DEF Graph!SimpleCycles
  <2>3. c \in Seq(Symbol) /\ Len(c) = k + 1
    BY <2>2
  <2>4. Len(c) - 1 = k
    BY <2>2, <2>3
  <2> QED
    BY <2>1, <2>3, <2>4 DEF Graph!SimpleCycles, IsCycle
<1>2. ASSUME IsCycle(c) PROVE c \in Cycles
  <2> DEFINE k == Len(c) - 1
  <2>1. k \in minHops..maxHops /\ Len(c) = k + 1 /\ c \in Seq(Symbol)
    BY <1>2 DEF IsCycle
  <2>2. c \in [1 .. k + 1 -> Symbol]
    BY <2>1
  <2>3. c \in Graph!SimpleCycles(k)
    BY <1>2, <2>1, <2>2 DEF Graph!SimpleCycles, IsCycle
  <2> QED
    BY <2>1, <2>3 DEF Cycles
<1> QED
  BY <1>1, <1>2

\* What begins an extended path begins it, or goes on from it.
LEMMA BeginsExtended ==
  ASSUME NEW p \in Seq(Symbol), NEW q \in Seq(Symbol), NEW t \in Symbol,
         Begins(q, Append(p, t))
  PROVE  Begins(q, p) \/ Begins(p, q)
<1>1. /\ Len(p) \in Nat /\ Len(q) \in Nat /\ Len(Append(p, t)) = Len(p) + 1
      /\ \A n \in 1..Len(p) : Append(p, t)[n] = p[n]
  OBVIOUS
<1>2. CASE Len(q) <= Len(p)
  BY <1>1, <1>2 DEF Begins
<1>3. CASE Len(q) = Len(p) + 1
  BY <1>1, <1>3 DEF Begins
<1> QED
  BY <1>1, <1>2, <1>3 DEF Begins

LEMMA ExtendedBegins ==
  ASSUME NEW p \in Seq(Symbol), NEW q \in Seq(Symbol), NEW t \in Symbol,
         Begins(Append(p, t), q)
  PROVE  Begins(p, q) /\ q[Len(p) + 1] = t
<1>1. /\ Len(p) \in Nat /\ Len(q) \in Nat /\ Len(Append(p, t)) = Len(p) + 1
      /\ \A n \in 1..Len(p) : Append(p, t)[n] = p[n]
      /\ Append(p, t)[Len(p) + 1] = t
  OBVIOUS
<1> QED
  BY <1>1 DEF Begins

\* SetToSeq puts every element of a finite set at one place.
LEMMA SequenceOf ==
  ASSUME NEW S, IsFiniteSet(S)
  PROVE  /\ Graph!SetToSeq(S) \in Seq(S)
         /\ \A j, k \in 1..Len(Graph!SetToSeq(S)) :
              Graph!SetToSeq(S)[j] = Graph!SetToSeq(S)[k] => j = k
         /\ \A x \in S : \E k \in 1..Len(Graph!SetToSeq(S)) : Graph!SetToSeq(S)[k] = x
<1> DEFINE n == Cardinality(S)
           Good(f) == \A a, b \in DOMAIN f : f[a] = f[b] => a = b
<1>1. n \in Nat /\ ExistsBijection(1..n, S)
  BY FS_CardinalityType
<1>2. PICK g \in Bijection(1..n, S) : TRUE
  BY <1>1 DEF ExistsBijection
<1>3. g \in [1..n -> S] /\ Good(g)
  BY <1>2 DEF Bijection, Injection, IsInjective
<1>4. Graph!Cardinality(S) = Cardinality(S)
  BY DEF Graph!Cardinality, Cardinality
<1>5. Graph!SetToSeq(S) = CHOOSE f \in [1..n -> S] : Good(f)
  BY <1>4 DEF Graph!SetToSeq, Graph!IsInjective
<1> DEFINE s == Graph!SetToSeq(S)
<1>6. s \in [1..n -> S] /\ Good(s)
  BY <1>3, <1>5
<1>7. s \in Seq(S) /\ Len(s) = n
  BY <1>1, <1>6
<1>8. s \in Injection(1..n, S)
  BY <1>6 DEF Injection, IsInjective
<1>9. IsFiniteSet(1..n) /\ Cardinality(1..n) = n
  BY <1>1, FS_Interval
<1>10. s \in Surjection(1..n, S)
  BY <1>8, <1>9, FS_Injection
<1>11. \A x \in S : \E k \in 1..n : s[k] = x
  BY <1>10 DEF Surjection
<1> QED
  BY <1>6, <1>7, <1>11

LEMMA ExtensionsAre ==
  ASSUME NEW p \in Seq(Symbol), NEW tokens \in SUBSET Symbol
  PROVE  /\ Graph!Extensions(p, tokens) \in Seq(Seq(Symbol))
         /\ \A k \in 1..Len(Graph!Extensions(p, tokens)) :
              \E t \in tokens : Graph!Extensions(p, tokens)[k] = Append(p, t)
         /\ \A t \in tokens : \E k \in 1..Len(Graph!Extensions(p, tokens)) :
              Graph!Extensions(p, tokens)[k] = Append(p, t)
         /\ \A j, k \in 1..Len(Graph!Extensions(p, tokens)) :
              Graph!Extensions(p, tokens)[j] = Graph!Extensions(p, tokens)[k] => j = k
<1> DEFINE nexts == Graph!SetToSeq(tokens)
           e == Graph!Extensions(p, tokens)
<1>1. IsFiniteSet(tokens)
  BY GraphConstants, FS_Subset
<1>2. /\ nexts \in Seq(tokens)
      /\ \A j, k \in 1..Len(nexts) : nexts[j] = nexts[k] => j = k
      /\ \A t \in tokens : \E k \in 1..Len(nexts) : nexts[k] = t
  BY <1>1, SequenceOf
<1> HIDE DEF nexts
<1>3. e = [n \in 1..Len(nexts) |-> Append(p, nexts[n])]
  BY DEF Graph!Extensions, nexts
<1> HIDE DEF e
<1>4. /\ Len(nexts) \in Nat /\ \A n \in 1..Len(nexts) : nexts[n] \in tokens /\ nexts[n] \in Symbol
  BY <1>2
<1>5. \A n \in 1..Len(nexts) : Append(p, nexts[n]) \in Seq(Symbol)
  BY <1>4
<1>6. e \in Seq(Seq(Symbol)) /\ Len(e) = Len(nexts) /\ \A n \in 1..Len(nexts) : e[n] = Append(p, nexts[n])
  BY <1>3, <1>4, <1>5
<1>7. \A j, k \in 1..Len(e) : e[j] = e[k] => j = k
  <2> SUFFICES ASSUME NEW j \in 1..Len(e), NEW k \in 1..Len(e), e[j] = e[k] PROVE j = k
    OBVIOUS
  <2>1. Append(p, nexts[j]) = Append(p, nexts[k]) /\ nexts[j] \in Symbol /\ nexts[k] \in Symbol
    BY <1>4, <1>6
  <2>2. nexts[j] = nexts[k]
    BY <2>1
  <2> QED
    BY <1>2, <1>6, <2>2
<1> QED
  BY <1>2, <1>4, <1>6, <1>7 DEF e

\* The paths still to extend are simple, and none begins another or a cycle found.
StackApart ==
  /\ \A k \in 1..Len(stack) : IsPath(stack[k])
  /\ \A j, k \in 1..Len(stack) : j # k => ~Begins(stack[j], stack[k])
  /\ \A k \in 1..Len(stack), f \in 1..Len(found) : ~Begins(stack[k], found[f])

FoundOnce ==
  /\ \A f \in 1..Len(found) : IsCycle(found[f])
  /\ \A f, g \in 1..Len(found) : f # g => found[f] # found[g]

\* A cycle that is not found yet goes on from a path on the stack.
NoneLost ==
  \A c \in Seq(Symbol) : IsCycle(c) =>
    \/ \E f \in 1..Len(found) : found[f] = c
    \/ \E k \in 1..Len(stack) : Begins(stack[k], c)

GraphIInv ==
  /\ Graph!TypeOK
  /\ searching = "idle" => stack = <<>> /\ found = <<>>
  /\ searching # "idle" => minHops >= 2 /\ StackApart /\ FoundOnce /\ NoneLost
  /\ searching = "done" => stack = <<>>

LEMMA GraphInit == Graph!Init => GraphIInv
<1> SUFFICES ASSUME Graph!Init PROVE GraphIInv
  OBVIOUS
<1>1. Graph!TypeOK
  BY DEF Graph!Init, Graph!TypeOK
<1> QED
  BY <1>1 DEF Graph!Init, GraphIInv

LEMMA EnumerateStep == ASSUME GraphIInv, Graph!Enumerate PROVE GraphIInv'
<1>1. /\ searching = "idle" /\ stack = <<>> /\ found = <<>> /\ found' = <<>>
      /\ edges' \in SUBSET {e \in SUBSET Symbol : Graph!Cardinality(e) = 2}
  BY DEF GraphIInv, Graph!Enumerate
<1>2. edges' \subseteq SUBSET Symbol
  BY <1>1
<1>3. minHops' \in Nat /\ maxHops' \in Nat /\ minHops' >= 2
  BY GraphConstants DEF Graph!Enumerate, Graph!Larger
<1>4. FoundOnce'
  BY <1>1 DEF FoundOnce
\* A cycle has two hops or more, of which the first is at a pool of the start token.
<1>5. ASSUME NEW c \in Seq(Symbol), IsCycle(c)'
      PROVE  /\ Len(c) \in Nat /\ Len(c) > 0 /\ c[1] = StartToken /\ StartToken \in UNION edges'
  <2>1. Len(c) \in Nat /\ Len(c) - 1 >= 2
    BY <1>3, <1>5 DEF IsCycle
  <2>2. c[1] = StartToken /\ {c[1], c[1 + 1]} \in edges'
    BY <1>5, <2>1 DEF IsCycle
  <2> QED
    BY <2>1, <2>2
<1>6. CASE StartToken \in UNION edges'
  <2>1. stack' = <<<<StartToken>>>> /\ searching' = "yes"
    BY <1>6 DEF Graph!Enumerate
  <2>2. <<StartToken>> \in Seq(Symbol) /\ Len(<<StartToken>>) = 1 /\ <<StartToken>>[1] = StartToken
    BY GraphConstants
  <2>3. stack' \in Seq(Seq(Symbol)) /\ Len(stack') = 1 /\ stack'[1] = <<StartToken>>
    BY <2>1, <2>2
  <2>4. IsPath(<<StartToken>>)'
    BY <2>2 DEF IsPath
  <2>5. StackApart'
    BY <1>1, <2>3, <2>4 DEF StackApart
  <2>6. NoneLost'
    <3> SUFFICES ASSUME NEW c \in Seq(Symbol), IsCycle(c)' PROVE Begins(stack'[1], c)
      BY <2>3 DEF NoneLost, Begins
    <3> QED
      BY <1>5, <2>2, <2>3 DEF Begins
  <2> QED
    BY <1>1, <1>2, <1>3, <1>4, <2>1, <2>3, <2>5, <2>6 DEF GraphIInv, Graph!TypeOK
<1>7. CASE StartToken \notin UNION edges'
  <2>1. stack' = <<>> /\ searching' = "done"
    BY <1>7 DEF Graph!Enumerate
  <2>2. StackApart'
    BY <2>1 DEF StackApart
  <2>3. NoneLost'
    BY <1>5, <1>7 DEF NoneLost
  <2> QED
    BY <1>1, <1>2, <1>3, <1>4, <2>1, <2>2, <2>3 DEF GraphIInv, Graph!TypeOK
<1> QED
  BY <1>6, <1>7

LEMMA VisitStep == ASSUME GraphIInv, Graph!Visit PROVE GraphIInv'
<1> DEFINE path == stack[Len(stack)]
           full == Len(path) > maxHops
           room == Len(stack) - 1
           nexts == Graph!Unvisited(path)
           more == IF full THEN <<>> ELSE Graph!Extensions(path, nexts)
           back == Append(path, StartToken)
<1>1. /\ searching = "yes" /\ stack # <<>>
      /\ UNCHANGED <<edges, minHops, maxHops, searching>>
      /\ found' = IF ~full /\ Graph!Closes(path) THEN Append(found, back) ELSE found
      /\ stack' = SubSeq(stack, 1, room) \o more
  BY DEF Graph!Visit, Graph!Last, Graph!Front
<1>2. /\ stack \in Seq(Seq(Symbol)) /\ found \in Seq(Seq(Symbol)) /\ edges \subseteq SUBSET Symbol
      /\ minHops \in Nat /\ maxHops \in Nat /\ minHops >= 2
      /\ StackApart /\ FoundOnce /\ NoneLost
  BY <1>1 DEF GraphIInv, Graph!TypeOK
<1>3. /\ Len(stack) \in Nat /\ room \in Nat /\ Len(stack) = room + 1 /\ Len(stack) \in 1..Len(stack)
      /\ Len(found) \in Nat
  BY <1>1, <1>2
<1>4. path \in Seq(Symbol) /\ IsPath(path) /\ Len(path) \in Nat /\ Len(path) > 0
  <2>1. IsPath(path)
    BY <1>2, <1>3 DEF StackApart
  <2>2. path \in Seq(Symbol) /\ Len(path) > 0
    BY <2>1 DEF IsPath
  <2> QED
    BY <2>1, <2>2
<1>5. nexts \in SUBSET Symbol
  BY DEF Graph!Unvisited, Graph!Neighbours
<1>6. \A t \in nexts : /\ t \in Symbol /\ t # StartToken /\ {path[Len(path)], t} \in edges
                       /\ \A n \in 1..Len(path) : path[n] # t
  <2> SUFFICES ASSUME NEW t \in nexts
               PROVE  /\ t \in Symbol /\ t # StartToken /\ {path[Len(path)], t} \in edges
                      /\ \A n \in 1..Len(path) : path[n] # t
    OBVIOUS
  <2>1. t \in Symbol /\ t # StartToken /\ {t, path[Len(path)]} \in edges
    BY DEF Graph!Unvisited, Graph!Neighbours, Graph!Last
  <2>2. {path[Len(path)], t} = {t, path[Len(path)]}
    OBVIOUS
  <2>3. \A n \in DOMAIN path : path[n] # t
    BY DEF Graph!Unvisited, Graph!ToSet
  <2>4. DOMAIN path = 1..Len(path)
    BY <1>4
  <2> QED
    BY <2>1, <2>2, <2>3, <2>4
<1>7. /\ more \in Seq(Seq(Symbol)) /\ Len(more) \in Nat
      /\ \A k \in 1..Len(more) : \E t \in nexts : more[k] = Append(path, t)
      /\ \A j, k \in 1..Len(more) : more[j] = more[k] => j = k
      /\ ~full => \A t \in nexts : \E k \in 1..Len(more) : more[k] = Append(path, t)
  <2>1. CASE full
    BY <2>1
  <2>2. CASE ~full
    <3>1. more = Graph!Extensions(path, nexts)
      BY <2>2
    <3> HIDE DEF more, nexts, path, full
    <3>2. more \in Seq(Seq(Symbol))
      BY <1>4, <1>5, <3>1, ExtensionsAre
    <3>3. \A k \in 1..Len(more) : \E t \in nexts : more[k] = Append(path, t)
      BY <1>4, <1>5, <3>1, ExtensionsAre
    <3>4. \A j, k \in 1..Len(more) : more[j] = more[k] => j = k
      BY <1>4, <1>5, <3>1, ExtensionsAre
    <3>5. \A t \in nexts : \E k \in 1..Len(more) : more[k] = Append(path, t)
      <4>1. \A t \in nexts : \E k \in 1..Len(Graph!Extensions(path, nexts)) :
               Graph!Extensions(path, nexts)[k] = Append(path, t)
        BY <1>4, <1>5, ExtensionsAre
      <4> QED
        BY <3>1, <4>1, Zenon
    <3>6. Len(more) \in Nat
      BY <3>2
    <3> QED
      BY <3>2, <3>3, <3>4, <3>5, <3>6
  <2> QED
    BY <2>1, <2>2
<1> HIDE DEF more, nexts, path, full, room
<1>8. /\ stack' \in Seq(Seq(Symbol)) /\ Len(stack') = room + Len(more)
      /\ \A k \in 1..room : stack'[k] = stack[k]
      /\ \A k \in 1..Len(more) : stack'[room + k] = more[k]
  <2> DEFINE front == SubSeq(stack, 1, room)
  <2>1. front \in Seq(Seq(Symbol)) /\ Len(front) = room /\ \A k \in 1..room : front[k] = stack[k]
    BY <1>2, <1>3
  <2>2. stack' = front \o more
    BY <1>1
  <2> HIDE DEF front
  <2>3. /\ front \o more \in Seq(Seq(Symbol)) /\ Len(front \o more) = Len(front) + Len(more)
        /\ \A k \in 1..(Len(front) + Len(more)) :
             (front \o more)[k] = IF k <= Len(front) THEN front[k] ELSE more[k - Len(front)]
    BY <1>7, <2>1, ConcatProperties
  <2>4. /\ stack' \in Seq(Seq(Symbol)) /\ Len(stack') = room + Len(more)
        /\ \A k \in 1..(room + Len(more)) :
             stack'[k] = IF k <= room THEN front[k] ELSE more[k - room]
    BY <2>1, <2>2, <2>3
  <2>5. ASSUME NEW k \in 1..room PROVE stack'[k] = stack[k]
    <3>1. k \in 1..(room + Len(more)) /\ k <= room
      BY <1>3, <1>7
    <3> QED
      BY <2>1, <2>4, <3>1
  <2>6. ASSUME NEW k \in 1..Len(more) PROVE stack'[room + k] = more[k]
    <3>1. room + k \in 1..(room + Len(more)) /\ ~(room + k <= room) /\ (room + k) - room = k
      BY <1>3, <1>7
    <3> QED
      BY <2>4, <3>1
  <2> QED
    BY <2>4, <2>5, <2>6
\* What is on the stack is what was, but for the path, and the path's extensions.
<1>9. ASSUME NEW k \in 1..Len(stack')
      PROVE  \/ k \in 1..room /\ stack'[k] = stack[k]
             \/ k > room /\ \E t \in nexts : stack'[k] = Append(path, t)
  <2>1. CASE k \in 1..room
    BY <1>8, <2>1
  <2>2. CASE k \notin 1..room
    <3>1. k - room \in 1..Len(more) /\ room + (k - room) = k /\ k > room
      BY <1>3, <1>7, <1>8, <2>2
    <3>2. stack'[room + (k - room)] = more[k - room]
      BY <1>8, <3>1
    <3>3. \E t \in nexts : more[k - room] = Append(path, t)
      BY <1>7, <3>1
    <3> QED
      BY <3>1, <3>2, <3>3
  <2> QED
    BY <2>1, <2>2
<1>10. ASSUME NEW k \in 1..room
       PROVE  /\ k \in 1..Len(stack) /\ k # Len(stack) /\ stack[k] \in Seq(Symbol) /\ IsPath(stack[k])
              /\ ~Begins(stack[k], path) /\ ~Begins(path, stack[k])
  <2>1. k \in 1..Len(stack) /\ k # Len(stack)
    BY <1>3
  <2> QED
    BY <1>2, <1>3, <2>1 DEF StackApart, IsPath, path
<1>11. ASSUME NEW t \in nexts PROVE Append(path, t) \in Seq(Symbol) /\ IsPath(Append(path, t))
  <2> DEFINE p == Append(path, t)
  <2>1. /\ p \in Seq(Symbol) /\ Len(p) = Len(path) + 1 /\ p[Len(path) + 1] = t
        /\ \A n \in 1..Len(path) : p[n] = path[n]
    <3>1. t \in Symbol /\ path \in Seq(Symbol)
      BY <1>4, <1>6
    <3> QED
      BY <3>1, AppendProperties
  <2> HIDE DEF p
  <2>2. p[1] = StartToken /\ Len(p) > 0
    BY <1>4, <2>1 DEF IsPath
  <2>3. ASSUME NEW m \in 1..Len(p), NEW n \in 1..Len(p), m # n PROVE p[m] # p[n]
    <3>1. m \in 1..Len(path) \/ m = Len(path) + 1
      BY <1>4, <2>1
    <3>2. n \in 1..Len(path) \/ n = Len(path) + 1
      BY <1>4, <2>1
    <3> QED
      BY <1>4, <1>6, <2>1, <2>3, <3>1, <3>2 DEF IsPath
  <2>4. ASSUME NEW n \in 1..(Len(p) - 1) PROVE {p[n], p[n + 1]} \in edges
    <3>1. CASE n = Len(path)
      BY <1>4, <1>6, <2>1, <3>1
    <3>2. CASE n # Len(path)
      <4>1. n \in 1..(Len(path) - 1) /\ n \in 1..Len(path) /\ n + 1 \in 1..Len(path)
        BY <1>4, <2>1, <3>2
      <4> QED
        BY <1>4, <2>1, <4>1 DEF IsPath
    <3> QED
      BY <3>1, <3>2
  <2>5. IsPath(p)
    BY <2>1, <2>2, <2>3, <2>4 DEF IsPath
  <2> QED
    BY <2>1, <2>5 DEF p
<1>12. ASSUME NEW f \in 1..Len(found)
       PROVE  found[f] \in Seq(Symbol) /\ IsCycle(found[f]) /\ ~Begins(path, found[f])
  BY <1>2, <1>3 DEF StackApart, FoundOnce, path
<1>13. StackApart'
  <2>1. \A k \in 1..Len(stack') : IsPath(stack'[k])
    BY <1>9, <1>10, <1>11
  <2>2. ASSUME NEW j \in 1..Len(stack'), NEW k \in 1..Len(stack'), j # k, Begins(stack'[j], stack'[k])
        PROVE  FALSE
    <3>1. CASE j \in 1..room /\ k \in 1..room
      <4>1. stack'[j] = stack[j] /\ stack'[k] = stack[k] /\ j \in 1..Len(stack) /\ k \in 1..Len(stack)
        BY <1>8, <1>10, <3>1
      <4> QED
        BY <1>2, <2>2, <4>1 DEF StackApart
    <3>2. CASE j \in 1..room /\ k \notin 1..room
      <4>1. PICK t \in nexts : stack'[k] = Append(path, t)
        BY <1>9, <3>2
      <4>2. stack'[j] = stack[j] /\ stack[j] \in Seq(Symbol)
        BY <1>8, <1>10, <3>2
      <4>3. Begins(stack[j], path) \/ Begins(path, stack[j])
        BY <1>4, <1>6, <2>2, <4>1, <4>2, BeginsExtended
      <4> QED
        BY <1>10, <3>2, <4>3
    <3>3. CASE j \notin 1..room /\ k \in 1..room
      <4>1. PICK t \in nexts : stack'[j] = Append(path, t)
        BY <1>9, <3>3
      <4>2. stack'[k] = stack[k] /\ stack[k] \in Seq(Symbol)
        BY <1>8, <1>10, <3>3
      <4>3. Begins(path, stack[k])
        <5>1. t \in Symbol /\ path \in Seq(Symbol) /\ Begins(Append(path, t), stack[k])
          BY <1>4, <1>6, <2>2, <4>1, <4>2
        <5> QED
          BY <4>2, <5>1, ExtendedBegins
      <4> QED
        BY <1>10, <3>3, <4>3
    <3>4. CASE j \notin 1..room /\ k \notin 1..room
      <4>1. PICK t \in nexts : stack'[j] = Append(path, t)
        BY <1>9, <3>4
      <4>2. PICK u \in nexts : stack'[k] = Append(path, u)
        BY <1>9, <3>4
      <4>a. t \in Symbol /\ u \in Symbol /\ path \in Seq(Symbol)
        BY <1>4, <1>6
      <4>3. Append(path, u) \in Seq(Symbol) /\ Append(path, u)[Len(path) + 1] = u
        BY <4>a, AppendProperties
      <4>b. Begins(Append(path, t), Append(path, u))
        BY <2>2, <4>1, <4>2
      <4>4. Append(path, u)[Len(path) + 1] = t
        BY <4>a, <4>3, <4>b, ExtendedBegins
      <4>5. stack'[j] = stack'[k]
        BY <4>1, <4>2, <4>3, <4>4
      <4>6. /\ j - room \in 1..Len(more) /\ k - room \in 1..Len(more)
            /\ room + (j - room) = j /\ room + (k - room) = k
        BY <1>3, <1>7, <1>8, <3>4
      <4>c. stack'[room + (j - room)] = more[j - room] /\ stack'[room + (k - room)] = more[k - room]
        BY <1>8, <4>6
      <4>d. more[j - room] = more[k - room]
        BY <4>5, <4>6, <4>c
      <4>7. j - room = k - room
        BY <1>7, <4>6, <4>d
      <4> QED
        BY <1>3, <2>2, <4>6, <4>7
    <3> QED
      BY <3>1, <3>2, <3>3, <3>4
  <2>3. ASSUME NEW k \in 1..Len(stack'), NEW f \in 1..Len(found'), Begins(stack'[k], found'[f])
        PROVE  FALSE
    <3>1. CASE f \in 1..Len(found) /\ found'[f] = found[f]
      <4>1. CASE k \in 1..room
        BY <1>2, <1>8, <1>10, <2>3, <3>1, <4>1 DEF StackApart
      <4>2. CASE k \notin 1..room
        <5>1. PICK t \in nexts : stack'[k] = Append(path, t)
          BY <1>9, <4>2
        <5>a. /\ t \in Symbol /\ path \in Seq(Symbol) /\ found[f] \in Seq(Symbol)
              /\ Begins(Append(path, t), found[f])
          BY <1>4, <1>6, <1>12, <2>3, <3>1, <5>1
        <5>2. Begins(path, found[f])
          BY <5>a, ExtendedBegins
        <5> QED
          BY <1>12, <3>1, <5>2
      <4> QED
        BY <4>1, <4>2
    <3>2. CASE found'[f] = back
      <4>1. CASE k \in 1..room
        <5>1. Begins(stack[k], path) \/ Begins(path, stack[k])
          BY <1>4, <1>8, <1>10, <2>3, <3>2, <4>1, BeginsExtended, GraphConstants
        <5> QED
          BY <1>10, <4>1, <5>1
      <4>2. CASE k \notin 1..room
        <5>1. PICK t \in nexts : stack'[k] = Append(path, t)
          BY <1>9, <4>2
        <5>2. back \in Seq(Symbol) /\ back[Len(path) + 1] = StartToken
          BY <1>4, GraphConstants
        <5>a. t \in Symbol /\ path \in Seq(Symbol) /\ Begins(Append(path, t), back)
          BY <1>4, <1>6, <2>3, <3>2, <5>1
        <5>3. back[Len(path) + 1] = t
          BY <5>2, <5>a, ExtendedBegins
        <5> QED
          BY <1>6, <5>2, <5>3
      <4> QED
        BY <4>1, <4>2
    <3>3. (f \in 1..Len(found) /\ found'[f] = found[f]) \/ found'[f] = back
      <4>1. back \in Seq(Symbol)
        BY <1>4, GraphConstants
      <4> HIDE DEF back
      <4>2. CASE found' = found
        BY <4>2
      <4>3. CASE found' = Append(found, back)
        BY <1>2, <1>3, <4>1, <4>3
      <4> QED
        BY <1>1, <4>2, <4>3
    <3> QED
      BY <3>1, <3>2, <3>3
  <2>4. \A p : IsPath(p)' <=> IsPath(p)
    BY <1>1 DEF IsPath
  <2>5. \A k \in 1..Len(stack') : IsPath(stack[k])'
    BY <2>1, <2>4
  <2> QED
    BY <2>2, <2>3, <2>5 DEF StackApart
\* A path that closes is a cycle, and one that was not found before.
<1>14. ASSUME ~full, Graph!Closes(path)
       PROVE  back \in Seq(Symbol) /\ IsCycle(back) /\ \A f \in 1..Len(found) : found[f] # back
  <2>1. /\ back \in Seq(Symbol) /\ Len(back) = Len(path) + 1 /\ back[Len(path) + 1] = StartToken
        /\ \A n \in 1..Len(path) : back[n] = path[n]
    BY <1>4, GraphConstants
  <2>2. Len(path) \in minHops..maxHops
    BY <1>2, <1>4, <1>14 DEF Graph!Closes, full
  <2>3. {path[Len(path)], StartToken} \in edges
    <3>1. {StartToken, path[Len(path)]} \in edges
      BY <1>14 DEF Graph!Closes, Graph!Neighbours, Graph!Last
    <3>2. {path[Len(path)], StartToken} = {StartToken, path[Len(path)]}
      OBVIOUS
    <3> QED
      BY <3>1, <3>2
  <2> HIDE DEF back
  <2>4. ASSUME NEW n \in 1..Len(path) PROVE {back[n], back[n + 1]} \in edges
    <3>1. CASE n = Len(path)
      BY <1>4, <2>1, <2>3, <3>1
    <3>2. CASE n # Len(path)
      <4>1. n \in 1..(Len(path) - 1) /\ n + 1 \in 1..Len(path)
        BY <1>4, <3>2
      <4> QED
        BY <1>4, <2>1, <4>1 DEF IsPath
    <3> QED
      BY <3>1, <3>2
  <2>5. IsCycle(back)
    <3>1. Len(back) - 1 = Len(path) /\ back[1] = StartToken
      BY <1>4, <2>1 DEF IsPath
    <3>2. \A m, n \in 1..Len(path) : m # n => back[m] # back[n]
      BY <1>4, <2>1 DEF IsPath
    <3> QED
      BY <2>1, <2>2, <2>4, <3>1, <3>2 DEF IsCycle
  <2>6. Begins(path, back)
    BY <1>4, <2>1 DEF Begins
  <2> QED
    BY <1>12, <2>1, <2>5, <2>6
<1>15. FoundOnce' /\ found' \in Seq(Seq(Symbol))
  <2>1. \A c : IsCycle(c)' <=> IsCycle(c)
    BY <1>1 DEF IsCycle
  <2>2. CASE ~full /\ Graph!Closes(path)
    <3>1. /\ found' = Append(found, back) /\ back \in Seq(Symbol) /\ IsCycle(back)
          /\ \A f \in 1..Len(found) : found[f] # back
      BY <1>1, <1>14, <2>2
    <3> HIDE DEF back
    <3>2. /\ found' \in Seq(Seq(Symbol)) /\ Len(found') = Len(found) + 1 /\ found'[Len(found) + 1] = back
          /\ \A f \in 1..Len(found) : found'[f] = found[f]
      BY <1>2, <3>1
    <3>3. \A f \in 1..Len(found') : f \in 1..Len(found) \/ f = Len(found) + 1
      BY <1>3, <3>2
    <3>4. \A f \in 1..Len(found') : IsCycle(found'[f])
      BY <1>12, <3>1, <3>2, <3>3
    <3>5. \A f, g \in 1..Len(found') : f # g => found'[f] # found'[g]
      BY <1>2, <3>1, <3>2, <3>3 DEF FoundOnce
    <3> QED
      BY <2>1, <3>2, <3>4, <3>5 DEF FoundOnce
  <2>3. CASE ~(~full /\ Graph!Closes(path))
    <3>1. found' = found
      BY <1>1, <2>3
    <3> QED
      BY <1>2, <2>1, <3>1 DEF FoundOnce
  <2> QED
    BY <2>2, <2>3
<1>16. NoneLost'
  <2> SUFFICES ASSUME NEW c \in Seq(Symbol), IsCycle(c)
               PROVE  \/ \E f \in 1..Len(found') : found'[f] = c
                      \/ \E k \in 1..Len(stack') : Begins(stack'[k], c)
    BY <1>1 DEF NoneLost, IsCycle
  <2> DEFINE hops == Len(c) - 1
  <2>1. /\ Len(c) \in Nat /\ hops \in Nat /\ Len(c) = hops + 1 /\ hops >= 2 /\ hops <= maxHops /\ hops >= minHops
        /\ c[1] = StartToken /\ c[Len(c)] = StartToken
        /\ \A m, n \in 1..hops : m # n => c[m] # c[n]
        /\ \A n \in 1..hops : {c[n], c[n + 1]} \in edges
    <3>1. Len(c) \in Nat /\ Len(c) - 1 \in minHops..maxHops
      BY DEF IsCycle
    <3>2. hops \in Nat /\ Len(c) = hops + 1 /\ hops >= 2 /\ hops <= maxHops /\ hops >= minHops
      BY <1>2, <3>1
    <3> QED
      BY <3>1, <3>2 DEF IsCycle
  <2> HIDE DEF hops
  <2>2. ASSUME NEW f \in 1..Len(found), found[f] = c
        PROVE  \E g \in 1..Len(found') : found'[g] = c
    <3>1. CASE found' = found
      BY <2>2, <3>1
    <3>2. CASE found' = Append(found, back)
      <4>1. back \in Seq(Symbol)
        BY <1>4, GraphConstants
      <4> HIDE DEF back
      <4>2. found \in Seq(Seq(Symbol))
        BY <1>2
      <4>3. f \in 1..Len(found') /\ found'[f] = found[f]
        BY <3>2, <4>1, <4>2
      <4> QED
        BY <2>2, <4>3
    <3> QED
      BY <1>1, <3>1, <3>2
  <2>3. ASSUME NEW k \in 1..Len(stack), k # Len(stack), Begins(stack[k], c)
        PROVE  \E j \in 1..Len(stack') : Begins(stack'[j], c)
    <3>1. k \in 1..room /\ k \in 1..Len(stack')
      BY <1>3, <1>7, <1>8, <2>3
    <3> QED
      BY <1>8, <2>3, <3>1
  <2>4. ASSUME Begins(path, c)
        PROVE  \/ \E f \in 1..Len(found') : found'[f] = c
               \/ \E k \in 1..Len(stack') : Begins(stack'[k], c)
    <3>1. Len(path) <= Len(c) /\ \A n \in 1..Len(path) : path[n] = c[n]
      BY <2>4 DEF Begins
    <3>2. Len(path) # Len(c)
      <4> SUFFICES ASSUME Len(path) = Len(c) PROVE FALSE
        OBVIOUS
      <4>1. path[1] = path[Len(path)] /\ 1 \in 1..Len(path) /\ Len(path) \in 1..Len(path) /\ Len(path) # 1
        BY <1>4, <2>1, <3>1
      <4> QED
        BY <1>4, <4>1 DEF IsPath
    <3>3. Len(path) <= hops /\ ~full
      BY <1>2, <1>4, <2>1, <3>1, <3>2 DEF full
    <3>4. path[Len(path)] = c[Len(path)] /\ Len(path) \in 1..hops
      BY <1>4, <2>1, <3>1, <3>3
    <3>5. /\ {c[Len(path)], c[Len(path) + 1]} \in edges
          /\ {c[Len(path) + 1], path[Len(path)]} \in edges
      <4>1. {c[Len(path)], c[Len(path) + 1]} \in edges
        BY <2>1, <3>4
      <4>2. {c[Len(path) + 1], path[Len(path)]} = {c[Len(path)], c[Len(path) + 1]}
        BY <3>4
      <4> QED
        BY <4>1, <4>2
    <3>6. CASE Len(path) = hops
      <4>1. c[Len(path) + 1] = StartToken /\ path[Len(path)] # StartToken
        <5>1. 1 \in 1..hops /\ hops \in 1..hops /\ hops # 1 /\ c[Len(path) + 1] = StartToken
          BY <2>1, <3>6
        <5> QED
          BY <2>1, <3>4, <3>6, <5>1
      <4>2. Graph!Closes(path)
        BY <1>4, <2>1, <3>5, <3>6, <4>1, GraphConstants DEF Graph!Closes, Graph!Neighbours, Graph!Last
      <4>3. found' = Append(found, back)
        BY <1>1, <3>3, <4>2
      <4>4. /\ back \in Seq(Symbol) /\ Len(back) = Len(path) + 1 /\ back[Len(path) + 1] = StartToken
            /\ \A n \in 1..Len(path) : back[n] = path[n]
        BY <1>4, GraphConstants
      <4> HIDE DEF back
      <4>5. \A n \in 1..Len(c) : n \in 1..Len(path) \/ n = Len(path) + 1
        BY <1>4, <2>1, <3>6
      <4>6. Len(back) = Len(c) /\ \A n \in 1..Len(c) : back[n] = c[n]
        BY <2>1, <3>1, <3>6, <4>1, <4>4, <4>5
      <4>7. back = c
        BY <4>4, <4>6, SeqEqual
      <4>8. Len(found) + 1 \in 1..Len(found') /\ found'[Len(found) + 1] = back
        BY <1>2, <1>3, <4>3, <4>4
      <4> QED
        BY <4>7, <4>8
    <3>7. CASE Len(path) # hops
      <4> DEFINE t == c[Len(path) + 1]
      <4>1. Len(path) + 1 \in 1..hops /\ Len(path) + 1 \in 1..Len(c) /\ Len(path) + 1 # 1 /\ 1 \in 1..hops
        BY <1>4, <2>1, <3>3, <3>7
      <4>2. t \in Symbol /\ t # StartToken /\ \A n \in 1..Len(path) : path[n] # t
        <5>1. t \in Symbol /\ t # StartToken
          BY <2>1, <4>1
        <5>2. \A n \in 1..Len(path) : n \in 1..hops /\ n # Len(path) + 1
          BY <1>4, <2>1, <3>3
        <5> QED
          BY <2>1, <3>1, <4>1, <5>1, <5>2
      <4>3. {t, path[Len(path)]} \in edges /\ t # path[Len(path)]
        BY <1>4, <3>5, <4>2
      <4> HIDE DEF t
      <4>4. t \in nexts
        <5>1. DOMAIN path = 1..Len(path)
          BY <1>4
        <5> QED
          BY <4>2, <4>3, <5>1 DEF nexts, Graph!Unvisited, Graph!Neighbours, Graph!Last, Graph!ToSet
      <4>5. PICK k \in 1..Len(more) : more[k] = Append(path, t)
        BY <1>7, <3>3, <4>4
      <4>a. stack'[room + k] = Append(path, t)
        BY <1>8, <4>5
      <4>6. room + k \in 1..Len(stack') /\ stack'[room + k] = Append(path, t)
        BY <1>3, <1>7, <1>8, <4>a
      <4>7. /\ Len(Append(path, t)) = Len(path) + 1 /\ Append(path, t)[Len(path) + 1] = t
            /\ \A n \in 1..Len(path) : Append(path, t)[n] = path[n]
        BY <1>4, <4>2
      <4>8. \A n \in 1..(Len(path) + 1) : n \in 1..Len(path) \/ n = Len(path) + 1
        BY <1>4
      <4>9. Begins(Append(path, t), c)
        BY <1>4, <2>1, <3>1, <4>1, <4>7, <4>8 DEF Begins, t
      <4> QED
        BY <4>6, <4>9
    <3> QED
      BY <3>6, <3>7
  <2>5. \/ \E f \in 1..Len(found) : found[f] = c
        \/ \E k \in 1..Len(stack) : Begins(stack[k], c)
    BY <1>2 DEF NoneLost
  <2> QED
    BY <2>2, <2>3, <2>4, <2>5 DEF path
<1> QED
  BY <1>1, <1>2, <1>8, <1>13, <1>15, <1>16 DEF GraphIInv, Graph!TypeOK

LEMMA GraphKeeps ==
  ASSUME UNCHANGED <<edges, minHops, maxHops, stack, found>>
  PROVE  UNCHANGED <<StackApart, FoundOnce, NoneLost>>
<1>1. /\ \A p : IsPath(p)' <=> IsPath(p)
      /\ \A c : IsCycle(c)' <=> IsCycle(c)
  BY DEF IsPath, IsCycle
<1>2. StackApart' <=> StackApart
  <2>1. \A k : IsPath(stack[k])' <=> IsPath(stack[k])
    BY <1>1
  <2> QED
    BY <2>1 DEF StackApart
<1>3. FoundOnce' <=> FoundOnce
  <2>1. \A f : IsCycle(found[f])' <=> IsCycle(found[f])
    BY <1>1
  <2> QED
    BY <2>1 DEF FoundOnce
<1>4. NoneLost' <=> NoneLost
  BY <1>1 DEF NoneLost
<1> QED
  BY <1>2, <1>3, <1>4

LEMMA GraphInvariance == Graph!Spec => []GraphIInv
<1>1. GraphIInv /\ [Graph!Next]_(Graph!vars) => GraphIInv'
  <2> SUFFICES ASSUME GraphIInv, [Graph!Next]_(Graph!vars) PROVE GraphIInv'
    OBVIOUS
  <2>1. CASE Graph!Return
    BY <2>1, GraphKeeps DEF Graph!Return, GraphIInv, Graph!TypeOK
  <2>2. CASE UNCHANGED Graph!vars
    BY <2>2, GraphKeeps DEF Graph!vars, GraphIInv, Graph!TypeOK
  <2> QED
    BY <2>1, <2>2, EnumerateStep, VisitStep DEF Graph!Next
<1> QED
  BY <1>1, GraphInit, PTL DEF Graph!Spec

LEMMA AllFoundOnce == GraphIInv => Graph!EachCycleOnce
<1> SUFFICES ASSUME GraphIInv, searching # "idle"
             PROVE  /\ Graph!ToSet(found) \subseteq Cycles
                    /\ searching = "done" =>
                         Graph!ToSet(found) = Cycles /\ Len(found) = Graph!Cardinality(Cycles)
  BY DEF Graph!EachCycleOnce, Cycles
<1>1. /\ minHops \in Nat /\ maxHops \in Nat /\ found \in Seq(Seq(Symbol)) /\ FoundOnce /\ NoneLost
      /\ searching = "done" => stack = <<>>
  BY DEF GraphIInv, Graph!TypeOK
<1>2. DOMAIN found = 1..Len(found) /\ Len(found) \in Nat
  BY <1>1
<1>3. \A f \in 1..Len(found) : found[f] \in Cycles
  BY <1>1, CyclesAre DEF FoundOnce
<1>4. Graph!ToSet(found) \subseteq Cycles
  BY <1>2, <1>3 DEF Graph!ToSet
<1>5. ASSUME searching = "done"
      PROVE  Graph!ToSet(found) = Cycles /\ Len(found) = Graph!Cardinality(Cycles)
  <2>1. ASSUME NEW c \in Cycles PROVE \E f \in 1..Len(found) : found[f] = c
    <3>1. c \in Seq(Symbol) /\ IsCycle(c)
      BY <1>1, CyclesAre DEF IsCycle
    <3>2. stack = <<>>
      BY <1>1, <1>5
    <3> QED
      BY <1>1, <3>1, <3>2 DEF NoneLost
  <2>2. Graph!ToSet(found) = Cycles
    BY <1>2, <1>4, <2>1 DEF Graph!ToSet
  <2>3. found \in [1..Len(found) -> Cycles]
    BY <1>1, <1>2, <1>3
  <2>4. \A f, g \in DOMAIN found : found[f] = found[g] => f = g
    BY <1>1, <1>2 DEF FoundOnce
  <2>5. found \in Injection(1..Len(found), Cycles)
    BY <2>3, <2>4 DEF Injection, IsInjective
  <2>6. found \in Surjection(1..Len(found), Cycles)
    BY <2>1, <2>3 DEF Surjection
  <2>7. ExistsBijection(1..Len(found), Cycles)
    BY <2>5, <2>6 DEF Bijection, ExistsBijection
  <2>8. Cardinality(Cycles) = Len(found)
    BY <1>2, <2>7, FS_CountingElements
  <2>9. Graph!Cardinality(Cycles) = Cardinality(Cycles)
    BY DEF Graph!Cardinality, Cardinality
  <2> QED
    BY <2>2, <2>8, <2>9
<1> QED
  BY <1>4, <1>5

---------------------------------------------------------------------------
(***************************************************************************)
(* The parts together: a step of the whole is a step of one of them.        *)
(***************************************************************************)
LEMMA StepsOfParts ==
  [PlanningNext]_planningVars =>
    /\ [Next]_vars
    /\ [Ssot!Next]_(Ssot!vars)
    /\ [Punch!Next]_(Punch!vars)
    /\ [Graph!Next]_(Graph!vars)
<1> SUFFICES ASSUME [PlanningNext]_planningVars
             PROVE  /\ [Next]_vars
                    /\ [Ssot!Next]_(Ssot!vars)
                    /\ [Punch!Next]_(Punch!vars)
                    /\ [Graph!Next]_(Graph!vars)
  OBVIOUS
<1>1. /\ UNCHANGED ssotVars => UNCHANGED Ssot!vars
      /\ UNCHANGED punchVars => UNCHANGED Punch!vars
      /\ UNCHANGED graphVars => UNCHANGED Graph!vars
  BY DEF ssotVars, punchVars, graphVars, Ssot!vars, Punch!vars, Graph!vars
<1> QED
  BY <1>1 DEF PlanningNext, PipelineStep, SsotStep, PunchStep, GraphStep, planningVars

LEMMA PartsBehave == PlanningSpec => Spec /\ Ssot!Spec /\ Punch!Spec /\ Graph!Spec
<1>1. PlanningInit => Init /\ Ssot!Init /\ Punch!Init /\ Graph!Init
  BY DEF PlanningInit
<1> QED
  BY <1>1, StepsOfParts, PTL DEF PlanningSpec, Spec, Ssot!Spec, Punch!Spec, Graph!Spec

\* Every part keeps the shape of its state; what the search holds are sequences of tokens,
\* and the batch of a finalizer never counts more profits than it has runs.
THEOREM PlanningTypes == PlanningSpec => []PlanningTypeOK
<1>1. PipelineIInv /\ SsotIInv /\ PunchIInv /\ GraphIInv => PlanningTypeOK
  BY DEF PlanningTypeOK, PipelineIInv, SsotIInv, PunchIInv, GraphIInv
<1> QED
  BY <1>1, PartsBehave, PipelineInvariance, SsotInvariance, PunchInvariance, GraphInvariance, PTL

\* The canonical pipeline plans C2 on a version of the market that includes C1's execution.
THEOREM PostC1Planning == PlanningSpec => []C2PlannedOnPostC1
<1>1. PipelineIInv => C2PlannedOnPostC1
  BY DEF PipelineIInv
<1> QED
  BY <1>1, PartsBehave, PipelineInvariance, PTL

\* The report the caller of the pipeline gets agrees with what was executed.
THEOREM ReportSound == PlanningSpec => []ReportAgrees
<1>1. PipelineIInv => ReportAgrees
  BY DEF PipelineIInv
<1> QED
  BY <1>1, PartsBehave, PipelineInvariance, PTL

\* With a validator the pipeline implements the canon flow.
THEOREM Refinement == ASSUME Validator PROVE PlanningSpec => RefinesCanonFlow
<1>1. PipelineIInv /\ PipelineIInv' /\ [Next]_vars => [Canon!Step]_(Canon!flow)
  BY CanonStep
<1>2. Spec => RefinesCanonFlow
  BY <1>1, CanonInit, PipelineInvariance, PTL DEF Spec, RefinesCanonFlow, Canon!Spec
<1> QED
  BY <1>2, PartsBehave, PTL

\* What the canon flow is for, and the pipeline inherits: with a validator, C2 is executed
\* only on a state reloaded after C1 executed, and each of the two after its own simulation.
THEOREM C2Justified == ASSUME Validator PROVE PlanningSpec => []Canon!C2RestsOnC1
<1> QED
  BY Refinement, CanonInvariance, PTL DEF RefinesCanonFlow

\* No size ranked so far leaves the owner more than the gas above what the chosen one does
\* (none more at all in Rust), and an approved plan pays for its gas.
THEOREM SizeWithinGas == PlanningSpec => []BestWithinGas
<1> QED
  BY ChosenWithinGas, PartsBehave, SsotInvariance, PTL DEF BestWithinGas

\* Whatever the probabilities, costs and profits, asking the variant of the highest EV for
\* a strike misses none that may strike, and the cycle's EV is then positive.
THEOREM StrikeFound == PlanningSpec => []NoStrikeIsMissed
<1>1. PunchIInv => NoStrikeIsMissed
  BY DEF PunchIInv, NoStrikeIsMissed
<1> QED
  BY <1>1, PartsBehave, PunchInvariance, PTL

\* On every finite graph and with any bounds on the hops the search returns the simple
\* cycles through the start whose hops are in the bounds, each once and nothing else.
THEOREM RoutesComplete == PlanningSpec => []EachCycleOnce
<1> QED
  BY AllFoundOnce, PartsBehave, GraphInvariance, PTL DEF EachCycleOnce
================================================================================
