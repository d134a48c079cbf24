SPECIFICATION Spec
CONSTANTS
  Methods = {"GET", "POST"}
  MaxRedirects = 2
  DnsTtl = 1
  MaxClock = 5
INVARIANT StaleBounded
PROPERTY ImplementsChain
CHECK_DEADLOCK FALSE
