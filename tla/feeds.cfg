CONSTANTS
  daily = daily
  Symbols = {daily}
  StatsSymbols = {daily}
  MaxTime = 3
  MaxFaults = 2
  Tasks <- MCTasks
  Service = "service"
  Batches <- MCBatches
  MaxRuns = 2
  MaxBreaks = 1
  Subjects <- MCSubjects
  Drafts <- MCDrafts
  ShiftDays <- MCShiftDays
  Window = 2
  MaxClaims = 3
  Batch = 1
  LastDate = 4
  MaxFailures = 1
  None = None
  Accounts <- MCAccounts
  Order <- MCOrder
  Funds <- MCFunds
  Portfolios <- MCPortfolios
  WarnShare = 2
  TrimShare = 3
  WarnDays = 1
  TrimDays = 1
  ExpiryWarn = 1
  ExpirySell = 0
  jons = jons
  desks = desks
  Chains <- MCChains
  Jons <- MCJons
  RedebateDays = 2
  LastDay = 3
  MaxTheses = 1
  MaxVersions = 4
SPECIFICATION MCSpec
INVARIANTS
  StatsKept
  NewestKept
  RunTellsStore
  FillsOnce
  ClosedOnce
  DossierTraced
  RetriedInWindow
  NeverMilder
  ArguedForCause
PROPERTY NeverBackwards
