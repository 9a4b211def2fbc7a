CONSTANTS
  trade = trade
  Artifacts = {trade}
  Kind <- MCKind
  Of <- MCOf
  Drafts = {}
  Pathless = {}
  AfterClose = {}
  Exact = {trade}
  Vetoed = {}
  Terms <- MCTerms
  Bar <- MCBar
  Date <- MCDate
  None = None
  Horizons = {1}
  LinkWindow = 1
  Executions <- MCExecutions
  LastDay = 2
  MaxAside = 0
SPECIFICATION ScoringSpec
INVARIANT HonoredInTime
CHECK_DEADLOCK FALSE
