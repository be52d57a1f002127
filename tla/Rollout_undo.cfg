SPECIFICATION Spec
CONSTANTS
  None = None
  Plans = {"r4a", "retrofit", "caddy", "repair"}
  MaxFaults = 6
  MaxCrashes = 3
INVARIANTS
  OriginalSurvives
  SaidIsTrue
  CleanUndoRestores
  ServicesInOrder
  RecordFollowsRoutes
CHECK_DEADLOCK FALSE
