CONSTANTS
  Workers = {w1, w2}
  None = None
  MaxPending = 2
  Slow = {4}
  MaxMessages = 4
  MaxShifts = 1
  MaxFaults = 1
SPECIFICATION FairSpec
INVARIANTS
  AnsweredOnce
  AnsweredInTurn
PROPERTIES
  EveryAnswered
