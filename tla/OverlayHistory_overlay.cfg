SPECIFICATION OverlaySpec
CONSTANTS
  Depth = 9
  MaxOpened = 5
  MaxPresses = 3
  MaxPages = 2
  MaxLate = 1
INVARIANTS
  EntriesMatch
  EveryPressCounts
\* The user may stop.
CHECK_DEADLOCK FALSE
