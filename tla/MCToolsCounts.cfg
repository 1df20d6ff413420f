\* Two positions of one account under one symbol.
CONSTANTS
  Accounts = {a1}
  Symbols = {UNKNOWN}
  MarketValues <- SignedValues
  Liquidations <- SignedLiquidations
  MaxHeld = 2
  Quantities <- SignedQuantities
  Averages = {1, 2}
  WorthNow <- SignedWorth
  NetAmounts <- SignedAmounts
  MaxPriced = 2
  MaxTrades = 2
  Exposures <- SignedExposures
  MaxExposed = 1
  TopNs = {1, 3, 50}
  Day = 3
  Cap = 2
  MaxMoment = 11
SPECIFICATION Spec
INVARIANTS CountsAccounts
\* The tool is called once.
CHECK_DEADLOCK FALSE
