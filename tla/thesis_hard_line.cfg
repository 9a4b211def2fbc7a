CONSTANTS
  Ids = {v1, v2, v3, v4}
  None = None
  Symbols = {s1}
  Unknown = Unknown
  Levels = {1}
  Closes = {0, 1}
  Deadlines = {1}
  Reviews = {1}
  MaxPending = 1
  MaxMessages = 2
  MaxDay = 3
SPECIFICATION Spec
INVARIANT HardLineKept
SYMMETRY Symmetry
CHECK_DEADLOCK FALSE
