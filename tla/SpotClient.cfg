SPECIFICATION Spec
CONSTANTS
  RecvWindow = 1
  MaxClock = 4
INVARIANTS
  OneLiveOrder
  ReportMatchesBook
PROPERTIES
  EveryCallReports
CHECK_DEADLOCK FALSE
