SPECIFICATION FeedSpec
CONSTANTS
  Runs = {r1,r2,r3}
  Topics = {backend}
  Keys = {card}
  Values = {v1}
  NoRun = NoRun
  NoTopic = NoTopic
  NoMark = NoMark
  MaxEntries = 2
  SeenCap = 2
  CollapseWindow = 1
  WriteOutcomes = {TRUE, FALSE}
  MaxTime = 2
SYMMETRY RunSymmetry
INVARIANTS
  NothingUnowed
  NoRunTwice
