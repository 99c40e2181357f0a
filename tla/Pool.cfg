SPECIFICATION FairSpec
CONSTANTS
  j1 = j1
  j2 = j2
  Job = {j1, j2}
  Second = 2
  Kind <- MCKind
  Period <- MCPeriod
  RunAt <- MCRunAt
  MaxRetries <- MCMaxRetries
  RetryDelay <- MCRetryDelay
  Unparsable = {j2}
  MaxNow = 3
  MaxSpan = 2
  Client = {c1, c2}
  Worker = {w1, w2}
  Loop = Loop
  NoJob = NoJob
  Pooled = TRUE
  Ops = {"create", "pause", "resume", "delete"}
  MaxCalls = 3
  MaxCrashes = 1
INVARIANTS NoLostJob
PROPERTIES DeletedStaysDeleted DueEntryRuns LoopReturnsToHeap
CHECK_DEADLOCK FALSE
