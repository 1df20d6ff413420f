\* Up to two accounts with up to two positions each; seven positions are the
\* fewest that can be diversified.  A day of three moments, a cap of two days, and
\* a clock that passes one or two midnights within a call.
CONSTANTS
  Accounts = {a1, a2}
  Symbols = {x, UNKNOWN}
  MarketValues <- SignedValues
  Liquidations <- SignedLiquidations
  MaxHeld = 2
  Quantities <- SignedQuantities
  Averages = {1, 2}
  WorthNow <- SignedWorth
  NetAmounts <- SignedAmounts
  MaxPriced = 2
  MaxTrades = 2
  Exposures <- SignedExposures
  MaxExposed = 7
  TopNs = {1, 3, 50}
  Day = 3
  Cap = 2
  MaxMoment = 11
SPECIFICATION Spec
INVARIANTS
  TypeOK
  MarketValueAgrees EveryAccountReported SharesAddUp
  LabelNeedsPositions LabelMatchesLargest TopIsHeaviest
  PnlWindowAllowed RaisesOnlyOnFaults WindowsAsAccepted
\* The tool is called once.
CHECK_DEADLOCK FALSE
