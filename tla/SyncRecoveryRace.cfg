SPECIFICATION RunsSpec
CONSTANTS
  NoWorker = NoWorker
  Workers = {w1, w2}
  MaxRuns = 1
  MaxRunAttempts = 2
  MaxCrashes = 1
  MaxStalls = 0
INVARIANT ClaimedOnce
