SPECIFICATION Spec
CONSTANTS
  Runs = {p, q}
  Routes <- ThreeRoutes
  Retired <- FirstRetired
  Scripts <- EveryScript
  Releases = {old, new}
  MaxFaults = 3
  Installs = 1
  Found = {None, old, new}
  None = None
  Altered = Altered
  Faults <- EveryFault
SYMMETRY Interchangeable
INVARIANTS InstalledIsServed FailureLeavesAsFound ChangesAreOnDisk NamespaceCovered
