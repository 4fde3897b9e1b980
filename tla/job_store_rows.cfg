SPECIFICATION MCSpec
CONSTANTS
  Jobs = {1, 2, 3}
  Workers = {w1}
  NoKey = NoKey
  NoJob = NoJob
  NoWorker = NoWorker
  Queue <- MCQueue
  Priority <- MCPriority
  Key <- MCKey
  MaxAttempts <- MCMaxAttempts
  Serves <- MCServes
  Limits = {1, 2}
  Lease = 1
  Delays = {0}
  Lag = 0
  MaxTime = 1
  MaxLeases = 1
CHECK_DEADLOCK FALSE
INVARIANTS UniqIndexExact WellFormed
PROPERTIES NoOvertaking CancellationWins
