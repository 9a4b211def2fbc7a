CONSTANTS
  Triggers = {u1, u2, p1}
  Urgent = {u1, u2}
  News = {n1}
  MaxItems = 2
  TriggerLookback = 4
  NewsLookback = 2
  Enabled = TRUE
  MaxAge = 1
  WindowStart = 0
  WindowEnd = 3
  Hour = 1
  DayLen = 4
  MaxPerHour = 1
  MaxPerDay = 1
  RunTimeout = 1
  Horizon = 4
  MaxFaults = 1
SPECIFICATION Spec
INVARIANTS
  SentOnce
  SentInTime
  HourLimit
  DayLimit
SYMMETRY Symmetry
CHECK_DEADLOCK FALSE
