SPECIFICATION FairSpec
CONSTANTS
  Sessions = {s1}
  Sources = {"person", "kanban"}
  MaxCount = 3
  MaxRestarts = 1
  Runs = {}
  Topics = {}
  Keys = {s1}
  Values <- MCValues
  NoRun = NoRun
  NoTopic = NoTopic
  NoMark <- MCNoMark
  MaxEntries = 1
  SeenCap = 1
  CollapseWindow = 0
INVARIANTS
  BannerIsCurrent
  OneReplyPerTurn
  SwallowedOnlyIfExcused
PROPERTIES
  RetractedOnlyWhenOver
  MarksCatchUp
