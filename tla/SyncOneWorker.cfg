SPECIFICATION RunsFairSpec
CONSTANTS
  NoWorker = NoWorker
  Workers = {w1}
  MaxRuns = 3
  MaxRunAttempts = 2
  MaxCrashes = 2
  MaxStalls = 2
INVARIANTS
  RunsTypeOK
  RunsAccounted
PROPERTIES
  FinishedIsFinal
  EveryRunEnds
