SPECIFICATION Spec
CONSTANTS
  InitialCapacity = 2
  MessageCount = 6
  NoIndex = NoIndex
INVARIANTS
  OneOwner
  NoLostWakeup
PROPERTIES
  GrowsOnlyByBacklog
  Finishes
