CONSTANTS
  u = u
  v = v
  g = g
  r1 = r1
  r2 = r2
  DayLen = 4
  TradingDays <- MCTradingDays
  SessionOpen = 1
  SessionClose <- MCSessionClose
  PreOpen = 0
  PostClose = 3
  BreakFrom = 2
  BreakTo = 3
  Held = {g}
  Tier1 = {}
  Universe = {u, v}
  Macro = {g}
  Markets <- MCMarkets
  Return <- MCReturn
  Records <- MCRecords
  Threads = 2
  QuoteMaxAge = 1
  NewsLookback = 2
  EarningsLookback = 4
  Form4Lookback = 4
  Cooldown = 1
  NewsCooldown = 8
  AtrMultiple <- MCAtrMultiple
  GapMultiple = 2
  GapWindow = 1
  RangeBound = 9
  PaceMultiple = 2
  PaceMinutes = 0
  RankCount = 1
  RankLeast = 9
  CloseAfter = 0
  Form4Cluster = 2
  EarningsAhead = 1
  EventRules = {"filing", "earnings", "volume", "move"}
  MaxPerDay = 1
  PromotionDays = 1
  Horizon = 2
  MaxScans = 3
  MaxMoves = 1
  StoreDelay = 0
  QueueDelay = 0
SPECIFICATION Spec
INVARIANTS
  OneTriggerPerCooldown
  PromotedOnce
  PromotionLimit
  EachFilingOnce
SYMMETRY Symmetry
CHECK_DEADLOCK FALSE
