SPECIFICATION SqlSpec
CONSTANTS
  Jobs = {1, 2}
  Workers = {w1, w2}
  Conns = {s1, s2}
  Dialects = {"sqlite", "postgres", "mysql"}
  NoCall = NoCall
  NoKey = NoKey
  NoJob = NoJob
  NoWorker = NoWorker
  Queue <- MCQueue
  Priority <- MCPriority
  Key <- MCKey
  MaxAttempts <- MCMaxAttempts
  Serves <- MCServes
  Limits = {1}
  Lease = 1
  Delays = {0}
  Lag = 0
  MaxTime = 2
  MaxLeases = 2
  MaxCalls = 6
SYMMETRY Symmetry
CHECK_DEADLOCK FALSE
INVARIANT SqlLedgerExact
PROPERTY SqlLeasesEndOnce
