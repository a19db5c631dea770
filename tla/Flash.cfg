SPECIFICATION ContractsSpec
CONSTANTS
  Modes = {2, 3}
  Amounts = {10}
  Profits = {1, 2}
  Routes <- SmallRoutes
  Gains = {0, 1, 4}
  FeeBps = {0, 1000}
  Liquidity <- Rich
  MaxTx = 2
  Payloads <- SmallPayloads
  Premiums = {1}
  Returns = {0, 2}
  Funds <- SmallFunds
  MaxLoans = 2
INVARIANT TypeOK
PROPERTIES ProfitIsRetained RefinesFlashLoan InstitutionalRefines
