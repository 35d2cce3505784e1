SPECIFICATION FairBridgeSpec
CONSTANTS
  MaxPending = 2
  MaxBuffered = 1
  Stall = 1
  MaxUp = 5
  MaxDown = 4
PROPERTIES
  TwoPipes
  EndTogether
\* A bridge whose legs have ended stops.
CHECK_DEADLOCK FALSE
