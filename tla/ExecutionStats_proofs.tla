-------------------------- MODULE ExecutionStats_proofs ------------------------
(***************************************************************************)
(* For every size of the window and any number of invocations: with         *)
(* receipts awaited the statistics never count as included what the chain   *)
(* does not show.  The invoker and the chain under them behave as in        *)
(* ContractInvoker, whose invariant holds here as well.                     *)
(***************************************************************************)
EXTENDS ExecutionStats, ContractInvoker_proofs, FiniteSetTheorems

Outcome == [included : BOOLEAN, reverted : BOOLEAN, tx : TxId \cup {NoTx}]

\* A hash is counted once, and only when the node took it.
WindowDistinct ==
  /\ \A k \in 1..Len(window) : window[k].tx # NoTx => txs[window[k].tx].st # "unsent"
  /\ \A j, k \in 1..Len(window) : j # k /\ window[j].tx = window[k].tx => window[k].tx = NoTx
  /\ ~recorded => \A k \in 1..Len(window) : window[k].tx = result.tx => result.tx = NoTx

\* With receipts awaited what is called included succeeded in a block.
IncludedSucceeded ==
  mode.wait =>
    \A k \in 1..Len(window) :
      window[k].included => window[k].tx \in TxId /\ txs[window[k].tx].st = "ok"

\* So it is of the dict an invocation returns.
ResultBacked ==
  /\ result.tx # NoTx => result.tx \in TxId /\ txs[result.tx].st # "unsent"
  /\ mode.wait /\ result.onchain => result.tx \in TxId /\ txs[result.tx].st = "ok"

WindowShape == window \in Seq(Outcome) /\ recorded \in BOOLEAN

StatsIInv == WindowShape /\ WindowDistinct /\ IncludedSucceeded /\ ResultBacked

---------------------------------------------------------------------------
\* The invoker, the node and the chain behave as without the statistics.
LEMMA InvokerSteps == [StatsNext]_statsVars => [Next]_vars
  BY DEF StatsNext, InvokeNext, RecordOutcome, Restart, Next, statsVars

LEMMA InvokerBehaves == StatsSpec => Spec
<1>1. StatsInit => Init
  BY DEF StatsInit
<1> QED
  BY <1>1, InvokerSteps, PTL DEF StatsSpec, Spec

LEMMA StatsInitIInv == StatsInit => StatsIInv
<1> SUFFICES ASSUME StatsInit PROVE StatsIInv
  OBVIOUS
<1>1. window = <<>> /\ recorded = TRUE /\ result = Fresh
  BY DEF StatsInit, Init
<1>2. WindowShape
  BY <1>1 DEF WindowShape
<1>3. ResultBacked
  BY <1>1 DEF ResultBacked, Fresh
<1> QED
  BY <1>1, <1>2, <1>3 DEF StatsIInv, WindowDistinct, IncludedSucceeded

\* On the chain a success stays one, and what the node took it has taken.
LEMMA ChainGrows ==
  ASSUME IInv, [Next]_vars
  PROVE  /\ \A t \in TxId : txs[t].st = "ok" => txs'[t].st = "ok"
         /\ \A t \in TxId : txs[t].st # "unsent" => txs'[t].st # "unsent"
<1> USE DEF IInv, Mined
<1>1. CASE UNCHANGED txs
  BY <1>1
<1>2. ASSUME NEW t \in TxId, NodeAccepts(t)
      PROVE  /\ \A u \in TxId : txs[u].st = "ok" => txs'[u].st = "ok"
             /\ \A u \in TxId : txs[u].st # "unsent" => txs'[u].st # "unsent"
  BY <1>2, NodeAcceptsType
<1>3. CASE ChainStep
  BY <1>3, ChainStepType
<1>4. CASE \E l \in Leg : Invoke(l)
  BY <1>1, <1>4 DEF Invoke
<1>5. CASE Crash
  BY <1>1, <1>5 DEF Crash
<1>6. CASE CodeStep
  BY <1>1, <1>2, <1>6
     DEF CodeStep, SimulationFails, SimulationOnly, NoAccount, SimulationPasses, ReadNonce, EstimateGas,
         RpcRaises, SendAccepted, SendRaises, RecordSubmitted, ReceiptArrives, ReceiptTimeout
<1>7. CASE UNCHANGED vars
  BY <1>1, <1>7 DEF vars
<1> QED
  BY <1>3, <1>4, <1>5, <1>6, <1>7 DEF Next

\* A step of an invocation keeps the hash it returns, unless the node has just taken it.
LEMMA ResultStep ==
  ASSUME IInv, ResultBacked, CodeStep
  PROVE  /\ ResultBacked' /\ UNCHANGED mode
         /\ \/ result'.tx = result.tx
            \/ result'.tx \in TxId /\ txs[result'.tx].st = "unsent"
<1> USE DEF ResultBacked
<1>0. /\ result \in [success : BOOLEAN, onchain : BOOLEAN, simOnly : BOOLEAN, tx : TxId \cup {NoTx}]
      /\ \A t \in TxId : txs[t].st = "ok" => txs'[t].st = "ok"
      /\ \A t \in TxId : txs[t].st # "unsent" => txs'[t].st # "unsent"
  BY ChainGrows DEF IInv, TypeOK, Next
<1>1. CASE UNCHANGED <<result, mode>>
  BY <1>0, <1>1
<1>2. CASE SimulationFails \/ NoAccount \/ ReceiptTimeout \/ SendRaises
  BY <1>1, <1>2 DEF SimulationFails, NoAccount, ReceiptTimeout, SendRaises, RecordAndReturn, Raise
<1>3. CASE SimulationPasses \/ ReadNonce \/ EstimateGas \/ RpcRaises
  BY <1>1, <1>3 DEF SimulationPasses, ReadNonce, EstimateGas, RpcRaises
<1>4. CASE SimulationOnly
  BY <1>0, <1>1, <1>4 DEF SimulationOnly, Raise
<1>5. CASE \E t \in TxId : SendAccepted(t)
  <2>1. PICK t \in TxId : SendAccepted(t)
    BY <1>5
  <2>2. /\ result' = [result EXCEPT !.tx = t] /\ mode' = mode /\ txs[t].st = "unsent" /\ txs'[t].st = "pending"
        /\ result = Fresh
    BY <2>1, NodeAcceptsType DEF SendAccepted, NodeAccepts, IInv, InFlight
  <2>3. result'.tx = t /\ result'.onchain = FALSE
    BY <2>2 DEF Fresh
  <2> QED
    BY <2>2, <2>3
<1>6. CASE RecordSubmitted
  BY <1>0, <1>1, <1>6 DEF RecordSubmitted, Raise
<1>7. CASE ReceiptArrives
  <2>1. /\ UNCHANGED <<txs, mode>> /\ result.tx \in TxId
        /\ \/ result' = [result EXCEPT !.success = Succeeded(result.tx), !.onchain = Succeeded(result.tx)]
           \/ result' = [[result EXCEPT !.success = Succeeded(result.tx), !.onchain = Succeeded(result.tx)]
                           EXCEPT !.success = FALSE]
           \/ result' = result
    BY <1>7 DEF ReceiptArrives, RecordAndReturn, Raise, IInv, InFlight
  <2>2. result'.tx = result.tx /\ (result'.onchain => result.onchain \/ txs[result.tx].st = "ok")
    BY <1>0, <2>1 DEF Succeeded
  <2> QED
    BY <1>0, <2>1, <2>2
<1> QED
  BY <1>2, <1>3, <1>4, <1>5, <1>6, <1>7 DEF CodeStep

---------------------------------------------------------------------------
\* The window while the chain moves on and nothing is recorded.
LEMMA WindowKept ==
  ASSUME IInv, StatsIInv, [Next]_vars, UNCHANGED <<window, mode>>
  PROVE  /\ \A k \in 1..Len(window) : window[k].tx # NoTx => txs'[window[k].tx].st # "unsent"
         /\ \A j, k \in 1..Len(window) : j # k /\ window[j].tx = window[k].tx => window[k].tx = NoTx
         /\ IncludedSucceeded'
<1>1. ASSUME NEW k \in 1..Len(window) PROVE window[k].tx \in TxId \cup {NoTx}
  <2>1. window[k] \in Outcome
    BY DEF StatsIInv, WindowShape
  <2> QED
    BY <2>1 DEF Outcome
<1> QED
  BY <1>1, ChainGrows DEF StatsIInv, WindowDistinct, IncludedSucceeded

LEMMA CodeStepStats ==
  ASSUME IInv, StatsIInv, CodeStep \/ ChainStep, UNCHANGED <<window, recorded>>
  PROVE  StatsIInv'
<1>1. [Next]_vars
  BY DEF Next
<1>2. CASE CodeStep
  <2>1. ResultBacked' /\ UNCHANGED mode
        /\ (result'.tx = result.tx \/ (result'.tx \in TxId /\ txs[result'.tx].st = "unsent"))
    BY <1>2, ResultStep DEF StatsIInv
  <2>2. NoTx \notin TxId
    BY InvokerAssumption
  <2>3. WindowDistinct'
    <3>1. ~recorded => \A k \in 1..Len(window) : window[k].tx = result'.tx => result'.tx = NoTx
      BY <2>1, <2>2 DEF StatsIInv, WindowDistinct
    <3> QED
      BY <1>1, <2>1, <3>1, WindowKept DEF WindowDistinct
  <2> QED
    BY <1>1, <2>1, <2>3, WindowKept DEF StatsIInv, WindowShape
<1>3. CASE ChainStep
  <2>1. UNCHANGED <<result, mode>>
    BY <1>3, ChainStepType DEF IInv, invokerVars
  <2>2. ResultBacked'
    BY <1>1, <2>1, ChainGrows DEF StatsIInv, ResultBacked
  <2>3. WindowDistinct'
    BY <1>1, <2>1, WindowKept DEF StatsIInv, WindowDistinct
  <2> QED
    BY <1>1, <2>1, <2>2, <2>3, WindowKept DEF StatsIInv, WindowShape
<1> QED
  BY <1>2, <1>3

LEMMA InvokeStats == ASSUME IInv, StatsIInv, InvokeNext PROVE StatsIInv'
<1>1. /\ [Next]_vars /\ UNCHANGED <<window, mode, txs>> /\ result' = Fresh /\ recorded' = FALSE
  BY DEF InvokeNext, Invoke, Next
<1>2. ResultBacked'
  BY <1>1 DEF ResultBacked, Fresh
<1>3. WindowDistinct'
  BY <1>1, WindowKept DEF WindowDistinct, Fresh
<1> QED
  BY <1>1, <1>2, <1>3, WindowKept DEF StatsIInv, WindowShape

LEMMA RestartStats == ASSUME StatsIInv, Restart PROVE StatsIInv'
<1>1. window' = <<>> /\ recorded' = recorded /\ result' = Fresh
  BY DEF Restart, Crash
<1> QED
  BY <1>1 DEF StatsIInv, WindowShape, WindowDistinct, IncludedSucceeded, ResultBacked, Fresh

\* The new outcome at the end and, with a full window, the oldest one left out.
LEMMA RecordStats == ASSUME IInv, StatsIInv, RecordOutcome PROVE StatsIInv'
<1> DEFINE outcome == OutcomeOf(result)
           longer  == Append(window, outcome)
<1>1. /\ ~recorded /\ recorded' /\ recorded' \in BOOLEAN /\ UNCHANGED vars
      /\ window' = IF Len(longer) > WindowSize THEN Tail(longer) ELSE longer
  BY DEF RecordOutcome, Push
<1>2. UNCHANGED <<txs, mode, result>>
  BY <1>1 DEF vars
<1>3. /\ outcome \in Outcome /\ outcome.tx = result.tx /\ outcome.included = result.onchain
  BY DEF OutcomeOf, IInv, TypeOK, Outcome
<1>4. window \in Seq(Outcome) /\ Len(window) \in Nat
  BY DEF StatsIInv, WindowShape
<1> HIDE DEF outcome
<1>5. /\ longer \in Seq(Outcome) /\ Len(longer) = Len(window) + 1 /\ longer[Len(window) + 1] = outcome
      /\ \A k \in 1..Len(window) : longer[k] = window[k]
  BY <1>3, <1>4
<1> HIDE DEF longer
<1>6. \A k \in 1..Len(longer) : k \in 1..Len(window) \/ k = Len(window) + 1
  BY <1>4, <1>5
<1>7. /\ \A k \in 1..Len(longer) : longer[k].tx # NoTx => txs[longer[k].tx].st # "unsent"
      /\ \A j, k \in 1..Len(longer) : j # k /\ longer[j].tx = longer[k].tx => longer[k].tx = NoTx
      /\ mode.wait => \A k \in 1..Len(longer) :
           longer[k].included => longer[k].tx \in TxId /\ txs[longer[k].tx].st = "ok"
  BY <1>1, <1>3, <1>5, <1>6 DEF StatsIInv, WindowDistinct, IncludedSucceeded, ResultBacked
<1>8. PICK skip \in {0, 1} :
        /\ window' \in Seq(Outcome) /\ Len(window') = Len(longer) - skip
        /\ \A k \in 1..Len(window') : window'[k] = longer[k + skip]
  <2>1. CASE Len(longer) > WindowSize
    <3>1. longer # <<>>
      BY <1>4, <1>5
    <3>2. /\ window' = Tail(longer) /\ Tail(longer) \in Seq(Outcome) /\ Len(Tail(longer)) = Len(longer) - 1
          /\ \A k \in 1..Len(Tail(longer)) : Tail(longer)[k] = longer[k + 1]
      BY <1>1, <1>5, <2>1, <3>1, HeadTailProperties
    <3> QED
      BY <3>2
  <2>2. CASE ~(Len(longer) > WindowSize)
    <3>1. window' = longer /\ Len(longer) = Len(longer) - 0 /\ \A k \in 1..Len(longer) : k + 0 = k
      BY <1>1, <1>4, <1>5, <2>2
    <3> QED
      BY <1>5, <3>1
  <2> QED
    BY <2>1, <2>2
<1>9. \A k \in 1..Len(window') : k + skip \in 1..Len(longer) /\ window'[k] = longer[k + skip]
  BY <1>4, <1>5, <1>8
<1>10. \A j, k \in 1..Len(window') : j # k => j + skip # k + skip
  BY <1>8
<1>11. WindowDistinct'
  <2>1. \A k \in 1..Len(window') : window'[k].tx # NoTx => txs[window'[k].tx].st # "unsent"
    BY <1>7, <1>9
  <2>2. \A j, k \in 1..Len(window') : j # k /\ window'[j].tx = window'[k].tx => window'[k].tx = NoTx
    BY <1>7, <1>9, <1>10
  <2> QED
    BY <1>1, <1>2, <2>1, <2>2 DEF WindowDistinct
<1>12. IncludedSucceeded'
  BY <1>2, <1>7, <1>9 DEF IncludedSucceeded
<1> QED
  BY <1>1, <1>2, <1>8, <1>11, <1>12 DEF StatsIInv, WindowShape, ResultBacked

LEMMA StatsInvariance == StatsSpec => [](IInv /\ StatsIInv)
<1>1. IInv /\ StatsIInv /\ [StatsNext]_statsVars => StatsIInv'
  <2> SUFFICES ASSUME IInv, StatsIInv, [StatsNext]_statsVars PROVE StatsIInv'
    OBVIOUS
  <2>1. CASE UNCHANGED statsVars
    BY <2>1 DEF statsVars, vars, StatsIInv, WindowShape, WindowDistinct, IncludedSucceeded, ResultBacked
  <2> QED
    BY <2>1, CodeStepStats, InvokeStats, RestartStats, RecordStats DEF StatsNext
<1> QED
  BY <1>1, StatsInitIInv, InvokerBehaves, Invariance, PTL DEF StatsSpec

\* As many places of the window are counted as there are successes to count, at most.
LEMMA CountedOnce == IInv /\ StatsIInv => EstimateNotOptimistic
<1> SUFFICES ASSUME IInv, StatsIInv, mode.wait
             PROVE  /\ \A k \in 1..Len(window) :
                         window[k].included => window[k].tx \in {t \in TxId : txs[t].st \in Mined}
                    /\ IncludedCount - RevertedCount <= Cardinality({t \in TxId : txs[t].st = "ok"})
  BY DEF EstimateNotOptimistic
<1> DEFINE counted  == {k \in 1..Len(window) : window[k].included}
           reverted == {k \in 1..Len(window) : window[k].reverted}
           succeeded == {t \in TxId : txs[t].st = "ok"}
           hash == [k \in counted |-> window[k].tx]
<1>1. \A k \in counted : window[k].tx \in TxId /\ txs[window[k].tx].st = "ok"
  BY DEF StatsIInv, IncludedSucceeded
<1>2. Len(window) \in Nat
  BY DEF StatsIInv, WindowShape
<1>3. IsFiniteSet(1..Len(window)) /\ IsFiniteSet(succeeded)
  BY <1>2, FS_Interval, FS_Subset, WindowAssumption
<1>4. hash \in Injection(counted, succeeded)
  <2>1. hash \in [counted -> succeeded]
    BY <1>1
  <2>2. \A j, k \in counted : hash[j] = hash[k] => j = k
    BY <1>1, InvokerAssumption DEF StatsIInv, WindowDistinct
  <2> QED
    BY <2>1, <2>2 DEF Injection, IsInjective
<1>5. Cardinality(counted) <= Cardinality(succeeded)
  BY <1>3, <1>4, FS_Injection
<1>6. /\ Cardinality(counted) \in Nat /\ Cardinality(reverted) \in Nat
      /\ Cardinality(succeeded) \in Nat
  <2>1. IsFiniteSet(counted) /\ IsFiniteSet(reverted)
    BY <1>3, FS_Subset
  <2> QED
    BY <1>3, <2>1, FS_CardinalityType
<1>7. IncludedCount = Cardinality(counted) /\ RevertedCount = Cardinality(reverted)
  BY DEF IncludedCount, RevertedCount
<1> HIDE DEF counted, reverted, succeeded
<1>8. IncludedCount - RevertedCount <= Cardinality(succeeded)
  BY <1>5, <1>6, <1>7
<1> QED
  BY <1>1, <1>8 DEF counted, succeeded, Mined

\* Whatever is lost, replaced, mined late or restarted: with receipts awaited an outcome
\* counted as included is a transaction in a block, and the estimate's numerator counts
\* no more of them than succeeded.
THEOREM EstimateSound == StatsSpec => []EstimateNotOptimistic
<1> QED
  BY CountedOnce, StatsInvariance, PTL
================================================================================
