CONSTANTS
  p1 = p1
  p2 = p2
  v1 = v1
  v2 = v2
  t1 = t1
  t2 = t2
  Pool = {p1, p2}
  Venue = {v1, v2}
  VenueOf <- TwoVenues
  None = None
  Threshold = 0
  Token = {t1, t2}
  Surfaces <- AllSurfaces
  HasC2 = TRUE
  Block = {1, 2}
  Limits = {2}
  MaxRuns = 2
  Request = {r1, r2}
  Feed = {f1, f2}
  FeedTtl = 1
  StaleTtl = 2
  PollTime = 1
  MaxClock = 4
  Thread = {s1, s2}
  CardBlock = {1, 2}
  MaxCards = 3
  MaxRunners = 2
  RunLimits = {1, 2}
SPECIFICATION FairDashboardsSpec
INVARIANTS
  DashboardsTypeOK
  PairHasBothCards
  IntakeIsBestPair
  LayersAgree
  ServedIsRecent
  BlockTotals
  CompletedPasses
PROPERTIES
  RowsListPairs
  CoordinatorLoops
CHECK_DEADLOCK FALSE
