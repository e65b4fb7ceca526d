SPECIFICATION RunsSpec
CONSTANTS
  NoWorker = NoWorker
  Workers = {w1, w2}
  MaxRuns = 3
  MaxRunAttempts = 2
  MaxCrashes = 1
  MaxStalls = 1
INVARIANTS
  ExecutorHoldsRow
  ExclusiveSync
