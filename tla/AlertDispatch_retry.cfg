SPECIFICATION Spec
CONSTANTS
  d1 = d1
  d2 = d2
  Workers = {w1, w2}
  Deliveries = {d1, d2}
  Phase <- CriticalAndRecovery
  None = None
  Lifetime = 4
  MaxAttempts = 2
  MaxQueries = 1
  InFlightLimit = 1
  Backoff <- OneBackoff
  RetryAfters <- NoRetryAfter
  AuthorizeLimit = 0
  MaxTime = 4
  MaxSessions = 2
  MaxCrashes = 1
SYMMETRY Interchangeable
INVARIANTS RetryableNotAccepted AcceptedIsTrue SessionTellsState  
PROPERTIES SettledIsFinal PromiseKept
CHECK_DEADLOCK FALSE
