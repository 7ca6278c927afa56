SPECIFICATION Spec
CONSTANTS
  Devices = {1, 2, 3, 4, 5, 6}
  MaxDepth = 32
  Machines = {1, 2, 3, 4, 5}
  Cablings <- Few
  MacOf <- OneDeviceEach
  Polled = {1, 2, 3, 4}
  Bridges = {2, 3}
  Talkers = {3, 4}
  NameOf <- NoNames
  ManyOwn = {1}
  Roles = {"other"}
  Hands <- SomeHands
  Merges <- Duplicate
  MaxMoves = 1
  MaxHands = 2
INVARIANTS
  ReportIsTrue
  NoLoops
  PassFollows
CHECK_DEADLOCK FALSE
