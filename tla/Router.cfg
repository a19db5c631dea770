CONSTANTS
  t1 = t1
  t2 = t2
  t3 = t3
  TxId = {t1, t2, t3}
  NoTx = NoTx
  Leg = {"C1", "C2"}
  Mode <- AnyMode
  LossyRpc = TRUE
  StoreFaults = TRUE
  MaxCalls = 4
  MappingResults = TRUE
  Faults = TRUE
  MaxCycles = 2
SPECIFICATION FairRouterSpec
INVARIANTS
  RouterTypeOK
  MutatedViewIsMined
  OneBroadcastPerLeg
PROPERTIES
  RefinesCanonFlow
  BroadcastsAreCleared
  CycleEnds
CHECK_DEADLOCK FALSE
