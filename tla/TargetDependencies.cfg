SPECIFICATION Spec
CONSTANTS
  Targets = {1, 2}
  IncidentIds = {1, 2}
  Runs = {r1}
  Thresholds = {1}
  Cap = 1
  Above <- StackAbove
  ManualChecks = FALSE
  Overlap = FALSE
  Removable = {}
VIEW WithoutStreak
INVARIANTS
  AlertsMatchIncidents
  NoAlertRefused
