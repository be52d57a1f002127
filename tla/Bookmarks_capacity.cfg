SPECIFICATION FairSpec
CONSTANTS
  i1 = i1  i2 = i2  w1 = w1  w2 = w2
  r1 = r1  r2 = r2  l1 = l1  l2 = l2  p1 = p1
  AnyState = AnyState  None = None
  Incidents = {i1}
  Callers <- TwoReaders
  Persistent <- FirstReader
  Filters = {AnyState}
  Limits = {1}
  Workers = {w1}
  SessionsPerReader = 1  SessionsInAll = 3
  PagesPerSession = 2  ItemsInAll = 3
  BookmarksPerReader = 1  BookmarksInAll = 2
  MaxRevisions = 0  MaxFloor = 0  MaxCaptures = 3  MaxIssues = 1
PROPERTY ExpiryFreesTheReader
