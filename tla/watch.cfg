CONSTANTS
  s1 = s1
  s2 = s2
  Shifts = {s1}
  Workers = {w1, w2}
  None = None
  At <- OneAt
  ShiftTimeout <- OneShiftTimeout
  Grace = 1
  DayLen = 20
  PlanDays = 2
  JobTimeout = 1
  TriageEvery = 10
  ScanEvery = 20
  Prompt = TRUE
  Horizon = 4
  MaxChats = 1
  MaxFaults = 1
  MaxLate = 1
SPECIFICATION MCFairSpec
INVARIANTS
  OneModelJob
  ShiftRunsAtMostOnce
  JobRowsOwned
  ShiftRowsOwned
PROPERTIES
  KeepsLedger
  EveryShiftEnds
  EveryJobEnds
CHECK_DEADLOCK FALSE
