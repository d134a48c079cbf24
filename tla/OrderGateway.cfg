SPECIFICATION Spec
INVARIANT OneTrueReport
PROPERTIES
  ImplementsRequest
  RunEnds
