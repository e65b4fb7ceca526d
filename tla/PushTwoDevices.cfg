SPECIFICATION FairPushSpec
CONSTANTS
  Unkeyed = Unkeyed
  Devices = {d1, d2}
  Riders = {r1, r2}
  PushMaxAttempts = 2
  BatchLimit = 1
  MaxChanges = 2
  MaxWorkerDeaths = 1
INVARIANTS
  PushTypeOK
  DeliveryRecorded
PROPERTIES
  SettledIsFinal
  EveryNoteSettles
