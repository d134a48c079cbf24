SPECIFICATION Spec
CONSTANTS
  InitialCapacity = 2
  MessageCount = 4
  NoIndex = NoIndex
INVARIANT ChecksumOfBaseline
