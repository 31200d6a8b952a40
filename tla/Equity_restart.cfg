CONSTANTS
  Generations = {1, 2}
  Nobody = 0
  Schedule <- TwoStages
  News = {"news"}
  Weekly = {"tdcc"}
  Clock <- Clocks
  TradingDays = {0, 1}
  DayLength = 2
  WindowEnd = 1
  Week = 2
  PublishDay = 0
  Retry = 1
  KeepDays = 3
  TreeKill = TRUE
  MaxFaults = 1
  Start = 1
  Horizon = 2
SPECIFICATION FairSpec
INVARIANTS OneStageAtATime ChildrenReclaimed ServicesOutliveScheduler
PROPERTIES NoStageRepeated EndsTogether
CHECK_DEADLOCK FALSE
