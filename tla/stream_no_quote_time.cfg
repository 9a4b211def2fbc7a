CONSTANTS
  daily = daily
  Symbols = {daily}
  StatsSymbols = {daily}
  MaxTime = 2
  MaxFaults = 0
SPECIFICATION Spec
PROPERTY QuotesLand
