CONSTANTS
  t1 = t1
  t2 = t2
  TxId = {t1, t2}
  NoTx = NoTx
  Leg = {"C1"}
  Mode <- LiveMode
  LossyRpc = FALSE
  StoreFaults = FALSE
  MaxCalls = 2
  WindowSize = 1
SPECIFICATION StatsSpec
INVARIANT NonceReserved
CHECK_DEADLOCK FALSE
