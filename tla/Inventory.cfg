SPECIFICATION MCSpec
CONSTANTS
  Boxes = {"router", "box"}
  Router = "router"
  Serving = {"box"}
  Addresses = {1, 2}
  Attached = {1}
  MaxId = 3
  Sweeps = {"scheduled", "now"}
  Scopes <- Doings
  Settings <- Networks
  MaxMoves = 1
INVARIANTS
  OneRowPerMac
  NoTwins
  FindIsNeitherLostNorRepeated
PROPERTIES
  MergedIsRecorded
