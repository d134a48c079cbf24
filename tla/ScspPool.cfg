SPECIFICATION Spec
CONSTANTS
  Capacity = 4
  MessageCount = 6
  NoIndex = NoIndex
INVARIANTS
  OneOwner
  NeverTerminates
  ExhaustedOnlyByBacklog
PROPERTIES
  ImplementsBaseline
  Finishes
