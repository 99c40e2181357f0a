SPECIFICATION FairSpec
CONSTANTS
  e1 = e1
  e2 = e2
  e3 = e3
  Entry = {e1, e2, e3}
  Due <- MCDue
  Stored = {e1}
  MaxNow = 2
  MaxStarts = 2
  MaxPokes = 1
PROPERTIES StopReturns
CHECK_DEADLOCK FALSE
