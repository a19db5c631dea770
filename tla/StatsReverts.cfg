CONSTANTS
  t1 = t1
  t2 = t2
  TxId = {t1, t2}
  NoTx = NoTx
  Leg = {"C1"}
  Mode <- LiveMode
  LossyRpc = FALSE
  StoreFaults = FALSE
  MaxCalls = 3
  WindowSize = 2
SPECIFICATION StatsSpec
INVARIANT RevertsAreCounted
CHECK_DEADLOCK FALSE
