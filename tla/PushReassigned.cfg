SPECIFICATION PushSpec
CONSTANTS
  Unkeyed = Unkeyed
  Devices = {d1}
  Riders = {r1, r2}
  PushMaxAttempts = 1
  BatchLimit = 1
  MaxChanges = 3
  MaxWorkerDeaths = 0
INVARIANT EveryChangeNotified
