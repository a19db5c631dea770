SPECIFICATION Spec
CONSTANTS
  Modes = {4}
  Amounts = {10}
  Profits = {1, 2}
  Routes <- SmallRoutes
  Gains = {0, 1, 4}
  FeeBps = {0, 1000}
  Liquidity <- Flush
  MaxTx = 1
PROPERTY ProfitIsRetained
