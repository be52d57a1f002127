SPECIFICATION FairSpec
CONSTANTS
  x = x
  Incidents = {i1, i2}
  Destinations = {x}
  Severities = {2, 3, 4}
  MinimumSeverity <- ErrorsAndWorse
  None = None
  Limits = {1, 2}
  Sizes = {4096, 4097}
  MaxPayload = 4096
  MaxRetained = 4
  MaxActive = 2
  MaxScoped = 3
  MaxReceipts = 8
  MaxHistory = 4
  MaxFound = 1
INVARIANTS CaughtUpIsCurrent RecoveryIsProved EpisodesAreReopenings SummaryIsHonest
PROPERTY ProblemsAreTold
CHECK_DEADLOCK FALSE
