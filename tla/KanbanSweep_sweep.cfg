SPECIFICATION FairSpec
CONSTANTS
  home = home
  work = work
  ours = ours
  Boards = {home, work}
  Current = Current
  Cards = {ours}
  BoardOf <- MCBoardOf
  Statuses = {"ready", "blocked", "triage"}
  Reported = {"blocked", "triage"}
  MaxRepeats = 1
  MaxMoves = 2
  MaxFallbacks = 1
  MaxRestarts = 1
  Runs = {}
  Topics = {}
  Keys <- MCKeys
  Values <- MCValues
  NoRun = NoRun
  NoTopic = NoTopic
  NoMark = NoMark
  MaxEntries = 1
  SeenCap = 1
  CollapseWindow = 0
INVARIANTS
  AnnouncedOnceIfListed
PROPERTIES
  BlockIsTold
