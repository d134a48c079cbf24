SPECIFICATION Spec
CONSTANTS
  MaxStarts = 2
  MaxMessages = 2
INVARIANTS
  OpenMeansOwned
  LateWasHeld
  SnapshotReported
PROPERTY StoppedEnds
