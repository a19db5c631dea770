CONSTANTS
  LaneCount = 3
  MaxNonce = 5
  TimeoutBlocks = 3
  RpcFaults = TRUE
  ChunkSize = 2
  MaxEvents = 4
  MaxCrashes = 2
  BufferSize = 2
  Ttl = 1
  BaseDelay = 1
  MaxDelay = 3
  MaxTime = 3
  MaxTxs = 3
  Process = {p1, p2}
  MaxBlock = 4
SPECIFICATION ServicesSpec
INVARIANTS
  ServicesTypeOK
  LanesDistinct
  SequenceUnbroken
  C2AfterC1Success
  TailIsWholeRead
  LossBoundedByCrashes
  BufferIsFreshWindow
PROPERTIES
  StopEnds
  MemoryNeverOlder
CHECK_DEADLOCK FALSE
