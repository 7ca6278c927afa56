SPECIFICATION FairSpec
CONSTANTS
  Targets = {1}
  IncidentIds = {1, 2, 3}
  Runs = {r1}
  Thresholds = {1, 2}
  Cap = 2
  Above <- FlatAbove
  ManualChecks = FALSE
  Overlap = FALSE
  Removable = {}
INVARIANTS
  TypeOK
  JobsMatchDatabase
PROPERTIES
  DownIsEarned
  RecoveryIsEarned
  OutageIsDeclared
  RecoveryIsDeclared
