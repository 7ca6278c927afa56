SPECIFICATION ServerSpec
CONSTANTS
  Current = 3
  OneAdmin = 3
  Keep = 1
  MaxRestores = 2
  MaxCrashes = 2
  Alerts = {1, 2}
  Channels = {1}
  Combining = {1}
  Wants <- AllWanted
  MaxAttempts = 2
  BatchAt = 2
  MaxLosses = 1
INVARIANTS
  SchemaIsWhole
  OldDataIsKept
  SentOnceIfRecorded
PROPERTIES
  ComesUp
  SettledStaysSettled
  EveryAlertSettles
