SPECIFICATION FairSpec
CONSTANTS
  d1 = d1
  d2 = d2
  Workers = {w1, w2}
  Deliveries = {d1}
  Phase <- OneProblem
  None = None
  Lifetime = 5
  MaxAttempts = 2
  MaxQueries = 1
  InFlightLimit = 1
  Backoff <- OneBackoff
  RetryAfters <- NoRetryAfter
  AuthorizeLimit = 6
  MaxTime = 6
  MaxSessions = 1
  MaxCrashes = 1
PROPERTY EventuallyRests
CHECK_DEADLOCK FALSE
