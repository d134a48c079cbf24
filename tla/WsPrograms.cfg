SPECIFICATION Spec
CONSTANTS
  MaxSends = 3
  MaxReceived = 2
INVARIANTS WriteLoop WireInOrder RunKeepsSession
PROPERTIES StoppedIsFinal Flushes Drains
