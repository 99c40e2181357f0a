SPECIFICATION Spec
CONSTANTS
  j1 = j1
  j2 = j2
  Job = {j1, j2}
  Second = 1
  Kind <- MCKind
  Period <- MCPeriod
  RunAt <- MCRunAt
  MaxRetries <- MCMaxRetries
  RetryDelay <- MCRetryDelay
  Unparsable = {}
  MaxNow = 2
  MaxSpan = 1
  Client = {c1, c2}
  Worker = {w1}
  Loop = Loop
  NoJob = NoJob
  Pooled = FALSE
  Ops = {"create", "pause", "resume", "delete"}
  MaxCalls = 4
  MaxCrashes = 1
PROPERTIES PauseSticks
CHECK_DEADLOCK FALSE
