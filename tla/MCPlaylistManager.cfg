SPECIFICATION FairSpec
CONSTANTS
  App = {x, y}
  Base = {"a"}
  Loaded <- OneLoaded
  MaxCalls = 3
  MaxStarts = 1
  NoList = NoList
  NoCall = NoCall
INVARIANTS NothingDeadKeptYet ToldOnce ImportComing
PROPERTY ImportEnds
CHECK_DEADLOCK FALSE
