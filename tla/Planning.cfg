CONSTANTS
  Validator = TRUE
  Executor2 = TRUE
  Logger = TRUE
  MaxVersion = 5
  MaxCycles = 2
  SizeCount = 3
  Profits = {0, 1, 2, 3}
  MaxGas = 2
  BatchRuns = 2
  NaN = NaN
  Nets <- SomeNets
  Params <- SomeParams
  Scale = 2
  MaxAlternates = 1
  Symbol = {t0, t1, t2, t3}
  StartToken = t0
  Hops = {0, 2, 3, 5}
SPECIFICATION PlanningSpec
INVARIANTS
  PlanningTypeOK
  C2PlannedOnPostC1
  ReportAgrees
  BestWithinGas
  NoStrikeIsMissed
  EachCycleOnce
PROPERTY RefinesCanonFlow
CHECK_DEADLOCK FALSE
