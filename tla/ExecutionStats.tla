----------------------------- MODULE ExecutionStats ----------------------------
(***************************************************************************)
(* ExecutionStatsAccumulator (core/execution_stats_accumulator.py) fed from *)
(* ContractInvoker: after every invocation record_from_invocation turns the *)
(* returned dict into an outcome in a window of the last WindowSize ones,   *)
(* and get_stats derives the inclusion and revert rates C1 and C2 are       *)
(* calibrated with.                                                         *)
(***************************************************************************)
EXTENDS ContractInvoker, FiniteSets

CONSTANT WindowSize   \* maxlen of the deque

\* A hash has 32 bytes: there are finitely many.
ASSUME WindowAssumption == WindowSize \in Nat \ {0} /\ IsFiniteSet(TxId)

VARIABLES
  window,   \* _outcomes, oldest first; tx is the hash the dict carried
  recorded  \* the returned dict has been recorded

statsVars == <<vars, window, recorded>>

StatsInit == Init /\ window = <<>> /\ recorded = TRUE

\* (A fault: a hash is taken for an inclusion.)
OutcomeOfAnyHash(res) ==
  [included |-> res.tx # NoTx, reverted |-> FALSE, tx |-> res.tx]
OutcomeOf(res) ==
  [included |-> res.onchain, reverted |-> res.onchain /\ ~res.success, tx |-> res.tx]

\* deque(maxlen = WindowSize).append
Push(outcome) ==
  LET longer == Append(window, outcome)
  IN IF Len(longer) > WindowSize THEN Tail(longer) ELSE longer

RecordOutcome ==
  /\ pc = "returned"
  /\ ~recorded
  /\ window' = Push(OutcomeOf(result))
  /\ recorded' = TRUE
  /\ UNCHANGED vars

\* The caller records a returned dict before it invokes again; an invocation
\* that raised left it none.
InvokeNext ==
  /\ pc # "returned" \/ recorded
  /\ \E l \in Leg : Invoke(l)
  /\ recorded' = FALSE
  /\ UNCHANGED window

\* The window is in memory: it is empty after a restart.
Restart ==
  /\ Crash
  /\ window' = <<>>
  /\ UNCHANGED recorded

StatsNext ==
  \/ InvokeNext \/ RecordOutcome \/ Restart
  \/ (CodeStep \/ ChainStep) /\ UNCHANGED <<window, recorded>>

StatsSpec == StatsInit /\ [][StatsNext]_statsVars

(***************************************************************************)
(* get_stats: with n outcomes the rates are IncludedCount / n and           *)
(* RevertedCount / IncludedCount, and p_exec_estimate is                    *)
(* (IncludedCount - RevertedCount) / n.                                     *)
(***************************************************************************)
IncludedCount == Cardinality({k \in 1..Len(window) : window[k].included})
RevertedCount == Cardinality({k \in 1..Len(window) : window[k].reverted})

---------------------------------------------------------------------------
\* With receipts awaited the estimate C1 and C2 scale their edge with never exceeds
\* what the chain shows: the outcomes it counts as included are transactions in a
\* block, and its numerator counts no more of them than succeeded.
EstimateNotOptimistic ==
  mode.wait =>
    /\ \A k \in 1..Len(window) :
         window[k].included => window[k].tx \in {t \in TxId : txs[t].st \in Mined}
    /\ IncludedCount - RevertedCount <= Cardinality({t \in TxId : txs[t].st = "ok"})

\* A transaction whose reverted receipt was seen is counted as reverted.
RevertsAreCounted ==
  \A k \in 1..Len(window) :
    ([status |-> "reverted", tx |-> window[k].tx] \in {store[j] : j \in 1..Len(store)})
      => window[k].reverted
================================================================================
