CONSTANTS
  t1 = t1
  t2 = t2
  t3 = t3
  TxId = {t1, t2, t3}
  NoTx = NoTx
  Leg = {"C1"}
  Mode <- AnyMode
  LossyRpc = TRUE
  StoreFaults = TRUE
  MaxCalls = 3
  WindowSize = 2
SPECIFICATION StatsSpec
SYMMETRY TxSymmetry
INVARIANTS
  SuccessIsConfirmed
  StoreAgreesWithChain
  OutcomeFollowsSubmission
  DryRunNeverBroadcasts
  EstimateNotOptimistic
CHECK_DEADLOCK FALSE
