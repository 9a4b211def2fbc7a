CONSTANTS
  Ids = {v1, v2, v3, v4}
  None = None
  Symbols = {s1}
  Unknown = Unknown
  Levels = {1}
  Closes = {0, 1}
  Deadlines = {}
  Reviews = {1}
  MaxPending = 1
  MaxMessages = 2
  MaxDay = 2
SPECIFICATION Spec
INVARIANTS
  DraftedOnce
  OneHeir
  CoveredOnce
  NoneSurvives
SYMMETRY Symmetry
CHECK_DEADLOCK FALSE
