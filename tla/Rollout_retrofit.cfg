SPECIFICATION Spec
CONSTANTS
  None = None
  Plans = {"retrofit"}
  MaxFaults = 2
  MaxCrashes = 1
INVARIANTS
  RetrofitOriginalSurvives
CHECK_DEADLOCK FALSE
