SPECIFICATION Spec
CONSTANTS
  Devices = {"gw", "nas"}
  Below <- TheTree
  Alarms <- TheAlarms
  Kind <- TheKinds
  Owner <- TheOwners
  AtOnce = {"drive"}
  Monitored <- ThePairs
  Windows = {1, 2}
  Weekly = {2}
  WindowDevice <- TheWindows
  WithBelow = {1}
INVARIANTS
  HeldHasItsWindow
  ToldIsOnThePage
PROPERTIES
  RefinesAlarm
  NothingSaidWhileHeld
  LeftoversAreTold
