SPECIFICATION Spec
CONSTANTS
  Targets = {1}
  IncidentIds = {1, 2}
  Runs = {r1, r2}
  Thresholds = {1}
  Cap = 1
  Above <- FlatAbove
  ManualChecks = TRUE
  Overlap = FALSE
  Removable = {1}
SYMMETRY RunSymmetry
VIEW WithoutHistory
INVARIANTS
  OneOpenIncident
  DownIsRecorded
PROPERTIES
  EndedStaysEnded
