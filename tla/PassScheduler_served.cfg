SPECIFICATION FairSchedulerSpec
CONSTANTS
  Settle = 2
  ActiveSettle = 6
  Interval = 9
INVARIANTS
  ServedInTime
PROPERTIES
  Coalesces
