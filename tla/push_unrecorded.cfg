CONSTANTS
  Triggers = {u1, u2}
  Urgent = {u1, u2}
  News = {}
  MaxItems = 2
  TriggerLookback = 4
  NewsLookback = 2
  Enabled = TRUE
  MaxAge = 2
  WindowStart = 0
  WindowEnd = 3
  Hour = 2
  DayLen = 4
  MaxPerHour = 1
  MaxPerDay = 2
  RunTimeout = 2
  Horizon = 5
  MaxFaults = 0
SPECIFICATION Spec
INVARIANT ConfirmedRecorded
CHECK_DEADLOCK FALSE
