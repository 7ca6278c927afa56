SPECIFICATION Spec
CONSTANTS
  Alerts = {1, 2}
  Channels = {1, 2}
  Combining = {1}
  Wants <- SecondTakesFirst
  MaxAttempts = 2
  BatchAt = 2
  MaxLosses = 1
VIEW WithoutArrivals
INVARIANTS
  FateIsTold
