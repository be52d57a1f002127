SPECIFICATION FairSpec
CONSTANTS
  Workers = {w1, w2}
  Publications = {p1, p2}
  Artifacts = {a1, a2}
  None = None
  Faults <- ReadableFaults
INVARIANTS TypeOK LiveRevisionStaged QuiescentAgreement
PROPERTIES AdvanceIsLive LedgerSpec LockIsReleased
