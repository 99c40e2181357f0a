SPECIFICATION Spec
CONSTANTS
  Number <- MCNumber
  IntMax = 7
  Client = {c1, c2}
  Id = {"a1", "b2"}
  Objects <- MCObjects
  Local <- MCLocal
  Horizon = 3
  SharedTm = FALSE
  MaxCalls = 2
  MaxNow = 1
INVARIANTS StoredIsLegal
CHECK_DEADLOCK FALSE
