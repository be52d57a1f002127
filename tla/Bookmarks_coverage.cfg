SPECIFICATION Spec
CONSTANTS
  i1 = i1  i2 = i2  w1 = w1  w2 = w2
  r1 = r1  r2 = r2  l1 = l1  l2 = l2  p1 = p1
  AnyState = AnyState  None = None
  Incidents = {i1, i2}
  Callers <- TwoReaders
  Persistent = {}
  Filters = {"OPEN"}
  Limits = {1}
  Workers = {w1, w2}
  SessionsPerReader = 2  SessionsInAll = 3
  PagesPerSession = 2  ItemsInAll = 3
  BookmarksPerReader = 2  BookmarksInAll = 3
  MaxRevisions = 2  MaxFloor = 1  MaxCaptures = 2  MaxIssues = 2
SYMMETRY Interchangeable
INVARIANTS CoverageComplete OneAnchorPerBoundary LineageKeepsScope
PROPERTY LiveBookmarksStay
