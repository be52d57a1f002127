SPECIFICATION FairSpec
CONSTANTS
  Samples <- BoundarySamples
  None = None
INVARIANTS ModeIsConsistent 
PROPERTIES QuietComesFirst  RecoveryCompletes
