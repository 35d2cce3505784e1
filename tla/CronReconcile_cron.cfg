SPECIFICATION FairSpec
CONSTANTS
  brief = brief
  own = own
  misfiled = misfiled
  refused = refused
  Jobs = {brief}
  Runs = {own, misfiled, refused}
  Attempts = {refused}
  Scoped = {own}
  ActiveStore = {misfiled}
  JobOf <- MCOneJob
  Topics = {}
  Keys = {}
  Values = {}
  NoRun = NoRun
  NoTopic = NoTopic
  NoMark = NoMark
  MaxEntries = 1
  SeenCap = 2
  CollapseWindow = 0
  AnswerOutcomes = {TRUE, FALSE}
  Histories <- MCHistories
  MaxRestarts = 1
INVARIANTS
  AnnouncedOnce
  HistoryStaysSilentIfRead
PROPERTIES
  NothingAdoptedLater
  RunsArrive
