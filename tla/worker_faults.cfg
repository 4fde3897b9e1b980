SPECIFICATION WorkerSpec
CONSTANTS
  Jobs = {2, 3}
  Workers = {w1}
  NoKey = NoKey
  NoJob = NoJob
  NoWorker = NoWorker
  NoClaim = NoClaim
  Queue <- MCQueue
  Priority <- MCPriority
  Key <- MCKey
  MaxAttempts <- MCMaxAttempts
  Serves <- MCServes
  PerQueue <- MCPerQueue
  OnTimeout <- MCOnTimeout
  Undecodable = {3}
  Concurrency = 2
  Limits = {1, 2}
  Tries = 2
  Crashes = {w1}
  LossyCalls = TRUE
  CallLag = 0
  Lease = 1
  Delays = {0}
  Lag = 1
  MaxTime = 1
  MaxLeases = 1
CHECK_DEADLOCK FALSE
INVARIANT RunsInBounds
PROPERTY ImplementsStore
