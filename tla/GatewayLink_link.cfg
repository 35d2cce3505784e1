SPECIFICATION FairSpec
CONSTANTS
  Conversations = {s1, s2}
  Grace = 3
  Floor = 1
  MaxGeneration = 3
  MaxCalls = 2
  MaxRestarts = 1
  Configured = FALSE
PROPERTIES
  AnnouncedAfterGrace
  RecoveryAnswersOutage
  Reconnects
  OutageIsAnnounced
CHECK_DEADLOCK FALSE
