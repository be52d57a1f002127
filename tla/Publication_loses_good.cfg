SPECIFICATION Spec
CONSTANTS
  Workers = {w1, w2}
  Publications = {p1, p2}
  Artifacts = {a1, a2}
  None = None
  Faults <- LostAnswers
INVARIANT FailurePreservesLastKnownGood
