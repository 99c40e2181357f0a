SPECIFICATION FairSpec
CONSTANTS
  j1 = j1
  j2 = j2
  Job = {j1, j2}
  Second = 2
  Kind <- MCKindCron
  Period <- MCPeriod
  RunAt <- MCRunAt
  MaxRetries <- MCMaxRetries
  RetryDelay <- MCRetryDelay
  Unparsable = {}
  MaxNow = 3
  MaxSpan = 2
  Client = {c1}
  Worker = {w1}
  Loop = Loop
  NoJob = NoJob
  Pooled = FALSE
  Ops = {"create", "pause", "resume", "delete"}
  MaxCalls = 4
  MaxCrashes = 1
INVARIANTS TypeOK NoLostJob FailedMeansExhausted
PROPERTIES DueJobRuns
CHECK_DEADLOCK FALSE
