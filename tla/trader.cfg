CONSTANTS
  None = None
  future = future
  etf = etf
  levered = levered
  draft = draft
  thesis = thesis
  update = update
  trade = trade
  miner = miner
  fund = fund
  other = other
  i1 = i1
  i2 = i2
  i3 = i3
  Ideas = {i1, i2, i3}
  Menu <- MCMenu
  Snapshots <- MCSnapshots
  MaxDay = 1
  Symbols = {miner, fund, other}
  Buckets = {"metals"}
  NoBucket = "none"
  BucketOf <- MCBucketOf
  Structures = {"shares", "etf", "long_call"}
  OptionStructures = {"long_call"}
  ShareStructures = {"shares", "etf"}
  Allowed = {"shares", "etf", "long_call"}
  AllowShortShares = FALSE
  SettledCashOnly = TRUE
  TierPct <- MCTierPct
  ScalePct <- MCScalePct
  TotalPct = 8
  BucketPct = 5
  MaxSpread = 10
  MinInterest = 100
  TolerancePct = 1
  NetLiq = 100
  SettledCash = 50
  Combined = 100
  Cases <- MCCases
  Absent = Absent
  Futures = {future}
  Stocks = {other}
  Leverage <- MCLeverage
  Proxies <- MCProxies
  Permitted = {"shares", "etf", "levered_etf", "long_call", "long_put", "debit_spread"}
  Multiplier = 2
  Far <- MCFar
  MaxExpiries = 2
  MenuIdeas <- MCMenuIdeas
  Markets <- MCMarkets
  Levels = {5, 8, 9, 10, 11, 14}
  Artifacts = {draft, thesis, update, trade}
  Kind <- MCKind
  Of <- MCOf
  Drafts = {draft}
  Pathless = {}
  AfterClose = {update}
  Exact = {trade}
  Vetoed = {}
  Terms <- MCTerms
  Bar <- MCBar
  Date <- MCDate
  Horizons = {1}
  LinkWindow = 0
  Executions <- MCExecutions
  LastDay = 2
  MaxAside = 1
SPECIFICATION MCSpec
INVARIANTS
  PlannedOnce
  LargestThatFits
  LossCovers
  ShadowOnce
  LinkKept
PROPERTIES
  WithinTotal
  WithinBucket
  AllScored
