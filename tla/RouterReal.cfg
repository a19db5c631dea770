CONSTANTS
  t1 = t1
  t2 = t2
  TxId = {t1, t2}
  NoTx = NoTx
  Leg = {"C1", "C2"}
  Mode <- WaitMode
  LossyRpc = FALSE
  StoreFaults = FALSE
  MaxCalls = 4
  MappingResults = FALSE
  Faults = FALSE
  MaxCycles = 1
SPECIFICATION RouterSpec
INVARIANT C1IsFollowedByC2
CHECK_DEADLOCK FALSE
