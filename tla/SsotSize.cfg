CONSTANTS
  SizeCount = 2
  Profits = {0, 1, 2, 3}
  MaxGas = 2
  BatchRuns = 1
  NaN = NaN
SPECIFICATION Spec
INVARIANT BestSizeIsBest
CHECK_DEADLOCK FALSE
