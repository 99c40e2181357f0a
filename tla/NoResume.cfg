SPECIFICATION HSpec
CONSTANTS
  j1 = j1
  j2 = j2
  Job = {j1, j2}
  Second = 2
  Kind <- MCKind
  Period <- MCPeriod
  RunAt <- MCRunAt
  MaxRetries <- MCMaxRetries
  RetryDelay <- MCRetryDelay
  Unparsable = {}
  MaxNow = 3
  MaxSpan = 2
  Client = {c1}
  Worker = {w1, w2}
  Loop = Loop
  NoJob = NoJob
  Pooled = TRUE
  Ops = {"create", "pause", "delete"}
  MaxCalls = 4
  MaxCrashes = 1
INVARIANTS OnePlace HeapAgreesWithTable RunsWhenDue RetryBudget RetryCountIsExact OneTimeOnce
PROPERTIES TerminalIsFinal ImplementsJobLife
CHECK_DEADLOCK FALSE
